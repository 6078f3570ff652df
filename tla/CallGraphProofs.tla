--------------------------- MODULE CallGraphProofs ---------------------------
(***************************************************************************)
(* The on-the-fly call graph, for every program, budget and order: the     *)
(* pass drives the solver by the solver's own specification, keeps within  *)
(* its envelopes and budgets, binds something new in every round, leaves   *)
(* nothing unbound when it calls itself complete, binds nothing that some  *)
(* closed call graph does not bind, agrees with the code's own oracle, and *)
(* publishes rows that hold of the least closed call graph.                *)
(*                                                                         *)
(* The argument for closure.  Every bound pair has its constraints inside  *)
(* a system that was installed (BindingsInstalled), eager sites have their *)
(* whole envelope bound while the pass has not given up (EagerBound), and  *)
(* the solver's soundness at rest makes the installed systems hold.        *)
(*                                                                         *)
(* The argument for leastness.  As long as the pass is within a closed     *)
(* graph (Inside), what it has installed is what the solution of that      *)
(* graph satisfies, so the solver stays below that solution, so whatever   *)
(* it discovers the graph binds already.                                   *)
(*                                                                         *)
(* The argument for the oracles.  The naive iteration ends, at the least   *)
(* solution that refuses no field; so the ascent and the descent over such *)
(* solutions end too, at closed call graphs (LeastCloses, OracleCloses),   *)
(* and the pass is within both.  At rest the solver, being below the least *)
(* call graph's solution, has refused no field either (RestGrants), so a   *)
(* complete pass is a closed call graph in its own right and the ascent is *)
(* within it (LeastWithin): the two are equal.                             *)
(***************************************************************************)
EXTENDS CallGraphOracles, AndersenStability

(***************************************************************************)
(* Sets of site and function pairs.                                        *)
(***************************************************************************)
LEMMA WholeMember ==
  ASSUME NEW g, NEW sites, NEW p
  PROVE  p \in Whole(g, sites) <=>
           \E site \in sites : \E f \in Envelope(g, site) : p = <<site, f>>
  <1>1. p \in Whole(g, sites) <=> \E site \in sites : p \in {site} \X Envelope(g, site)
    BY Zenon DEF Whole
  <1> QED
    BY <1>1

\* A pair of a target table is a site and one of its targets.
LEMMA PairsMember ==
  ASSUME NEW targets, NEW p
  PROVE  p \in Pairs(targets) <=>
           \E site \in DOMAIN targets : \E f \in targets[site] : p = <<site, f>>
  <1>1. p \in Pairs(targets) <=> \E site \in DOMAIN targets : p \in {site} \X targets[site]
    BY Zenon DEF Pairs
  <1> QED
    BY <1>1

\* A discovered pair is a callee in the envelope that the operand's facts
\* name.
LEMMA DiscoveredMember ==
  ASSUME NEW p
  PROVE  p \in Discovered <=>
           \E site \in graph.scope \ Pinned(graph) :
             \E f \in Callable(OperandFacts(site)) \cap Envelope(graph, site) : p = <<site, f>>
  <1>1. p \in Discovered <=>
          \E site \in graph.scope \ Pinned(graph) :
            p \in {site} \X (Callable(OperandFacts(site)) \cap Envelope(graph, site))
    BY Zenon DEF Discovered
  <1> QED
    BY <1>1

\* The pairs bound first: the exact ones of pinned sites and the envelopes of
\* eager ones.
LEMMA InitialMember ==
  ASSUME NEW g, NEW c, NEW p
  PROVE  p \in Initial(g, c) <=>
           \/ \E site \in Pinned(g) : \E f \in g.exact[site] \cap Functions : p = <<site, f>>
           \/ p \in Whole(g, Eager(g, c))
  <1>1. p \in (UNION {{site} \X (g.exact[site] \cap Functions) : site \in Pinned(g)}) <=>
          \E site \in Pinned(g) : p \in {site} \X (g.exact[site] \cap Functions)
    BY Zenon
  <1> QED
    BY <1>1 DEF Initial

\* What is found for a site is what is recorded for it.
LEMMA AtMember ==
  ASSUME NEW A, NEW B, NEW pairs \in SUBSET (A \X B), NEW site, NEW f
  PROVE  f \in At(pairs, site) <=> <<site, f>> \in pairs
  BY DEF At

(***************************************************************************)
(* What the programs are known to be.                                      *)
(***************************************************************************)
LEMMA GraphFacts ==
  ASSUME NEW g \in CallGraphs, NEW c \in Controls
  PROVE  /\ g.scope \subseteq SitesOf(g) /\ IsFiniteSet(g.scope)
         /\ Pinned(g) \subseteq g.scope
         /\ Eager(g, c) \subseteq g.scope \ Pinned(g)
         /\ \A site \in g.scope : g.operand[site] \in ProgramCells
         /\ \A site \in g.scope : Envelope(g, site) \subseteq Functions
         /\ \A site \in Pinned(g) : g.exact[site] \subseteq Functions
         /\ SolverProgram(g, c) \in Programs
         /\ c.max_steps \subseteq Nat /\ c.max_resumes \in Nat \ {0}
  <1>1. g.scope \subseteq SitesOf(g) /\ IsFiniteSet(SitesOf(g))
    BY CallGraphAssumption
  <1>2. IsFiniteSet(g.scope)
    BY <1>1, FS_Subset
  <1>3. Pinned(g) \subseteq g.scope /\ Eager(g, c) \subseteq g.scope \ Pinned(g)
    BY DEF Pinned, Eager
  <1>4. \A site \in g.scope : g.operand[site] \in ProgramCells
    BY <1>1, CallGraphAssumption DEF Cells, ProgramCells
  <1>5. \A site \in SitesOf(g) : g.steens[site].targets \subseteq Functions
    BY CallGraphAssumption
  <1>6. \A site \in g.scope : Envelope(g, site) \subseteq Functions
    BY <1>1, <1>5 DEF Envelope
  <1>7. \A site \in Pinned(g) : g.exact[site] \subseteq Functions
    <2> TAKE site \in Pinned(g)
    <2>1. site \in SitesOf(g) /\ g.exact[site] \subseteq g.steens[site].targets
      BY <1>1, CallGraphAssumption DEF Pinned
    <2> QED
      BY <1>5, <2>1
  <1>8. SolverProgram(g, c) \in Programs /\ c.max_steps \subseteq Nat /\ c.max_resumes \in Nat \ {0}
    BY CallGraphAssumption
  <1> QED
    BY <1>1, <1>2, <1>3, <1>4, <1>6, <1>7, <1>8

\* The pairs bound first relate sites in scope to functions.
LEMMA InitialPairs ==
  ASSUME NEW g \in CallGraphs, NEW c \in Controls
  PROVE  Initial(g, c) \in SUBSET (g.scope \X Functions)
  BY GraphFacts, InitialMember, WholeMember

\* What is discovered lies inside the envelopes of the sites not pinned.
LEMMA KnownPairs ==
  ASSUME graph \in CallGraphs, controls \in Controls
  PROVE  /\ Discovered \subseteq Whole(graph, graph.scope \ Pinned(graph))
         /\ KnownUnbound \in SUBSET Whole(graph, graph.scope \ Pinned(graph))
         /\ KnownUnbound \in SUBSET (graph.scope \X Functions)
  <1>1. Discovered \subseteq Whole(graph, graph.scope \ Pinned(graph))
    BY DiscoveredMember, WholeMember
  <1>2. NewlyEager \subseteq graph.scope \ Pinned(graph)
    BY DEF NewlyEager
  <1>3. Whole(graph, NewlyEager) \subseteq Whole(graph, graph.scope \ Pinned(graph))
    BY <1>2, WholeMember
  <1>4. Whole(graph, graph.scope \ Pinned(graph)) \subseteq graph.scope \X Functions
    BY WholeMember, GraphFacts
  <1> QED
    BY <1>1, <1>3, <1>4 DEF KnownUnbound

(***************************************************************************)
(* Bindings inside installed systems.                                      *)
(***************************************************************************)
\* Everything a system asks for is asked for by an installed one.
Within(system, k) ==
  /\ system.addrs \subseteq k.addrs /\ system.copies \subseteq k.copies
  /\ system.joins \subseteq k.joins /\ system.memcpys \subseteq k.memcpys

\* The union of systems contains each of them.
LEMMA UnionCovers ==
  ASSUME NEW systems, NEW system \in systems
  PROVE  Within(system, UnionOf(systems))
  <1>1. system.addrs \subseteq UNION {s.addrs : s \in systems}
    BY Zenon
  <1>2. system.copies \subseteq UNION {s.copies : s \in systems}
    BY Zenon
  <1>3. system.joins \subseteq UNION {s.joins : s \in systems}
    BY Zenon
  <1>4. system.memcpys \subseteq UNION {s.memcpys : s \in systems}
    BY Zenon
  <1> QED
    BY <1>1, <1>2, <1>3, <1>4 DEF Within, UnionOf

\* What satisfies a system satisfies every part of it.
LEMMA WithinSatisfied ==
  ASSUME NEW system, NEW k, Within(system, k), NEW value, NEW fields, NEW direct,
         Satisfies(k, value, fields, direct)
  PROVE  Satisfies(system, value, fields, direct)
  <1>1. RegionsOf(system) \subseteq RegionsOf(k)
    BY DEF Within, RegionsOf
  <1> QED
    BY <1>1 DEF Within, Satisfies

(***************************************************************************)
(* The pass drives the solver by the solver's own specification.           *)
(***************************************************************************)
GraphKept ==
  /\ graph \in CallGraphs /\ controls \in Controls
  /\ program = SolverProgram(graph, controls)

\* Every step of the pass is a step of the solver or leaves it alone.
LEMMA StepsOfTheSolver ==
  ASSUME GraphKept, [CallGraphNext]_<<vars, callVars>>
  PROVE  [Next]_vars /\ GraphKept'
  <1>1. CASE Start
    BY <1>1 DEF Start, Started, Build, Next, Add, GraphKept
  <1>2. ASSUME NEW n \in solve.worklist, Propagate(n)
        PROVE  [Next]_vars /\ GraphKept'
    BY <1>2 DEF Propagate, Pop, Next, GraphKept
  <1>3. CASE ActivateAll
    <2> DEFINE system == UnionOf(BindingsOf(graph, KnownUnbound))
    <2>1. KnownUnbound \in SUBSET Whole(graph, graph.scope \ Pinned(graph))
      BY KnownPairs DEF GraphKept
    <2>2. program.calls = {UnionOf(BindingsOf(graph, pairs)) :
                             pairs \in SUBSET Whole(graph, graph.scope \ Pinned(graph))}
      BY DEF GraphKept, SolverProgram
    <2>3. system \in program.calls
      BY <2>1, <2>2
    <2>4. Add(system) /\ installed # {} /\ solve.worklist = {}
      BY <1>3 DEF ActivateAll, AtFixedPoint, Started
    <2> HIDE DEF system
    <2>5. Next
      BY <2>3, <2>4 DEF Next, Resume
    <2> QED
      BY <1>3, <2>4, <2>5 DEF ActivateAll, Add, GraphKept
  <1>4. CASE UNCHANGED <<vars, graph, controls>>
    BY <1>4 DEF vars, GraphKept
  <1> QED
    BY <1>1, <1>2, <1>3, <1>4
    DEF CallGraphNext, callVars, OutOfSteps, GiveUpPropagating, Finish, GiveUpAfterDiscovery

\* Whatever the pass does to the solver is a step of the solver's
\* specification: bindings are installed at rest and only from the program's
\* calls (Refiner::run and Solve::run_with_limit).
THEOREM SolverDriven == CallGraphSpec => SolverSpec
<1>1. CallGraphInit => Init /\ GraphKept
  BY DEF CallGraphInit, GraphKept
<1>2. GraphKept /\ [CallGraphNext]_<<vars, callVars>> => [Next]_vars /\ GraphKept'
  BY StepsOfTheSolver
<1> QED
  BY <1>1, <1>2, PTL DEF CallGraphSpec, SolverSpec, Spec

(***************************************************************************)
(* Bookkeeping of the pass.                                                *)
(***************************************************************************)
Bookkeeping ==
  /\ GraphKept
  /\ activated \in [graph.scope -> SUBSET Functions]
  /\ CallGraphTypeOK
  /\ ~Started => Running /\ rounds = 0
  /\ Started => rounds # 0

\* Activation records exactly the pairs that were to be bound.
LEMMA Recorded ==
  ASSUME NEW scope, NEW old \in [scope -> SUBSET Functions],
         NEW pairs \in SUBSET (scope \X Functions)
  PROVE  LET new == [site \in scope |-> old[site] \cup At(pairs, site)]
         IN  /\ new \in [scope -> SUBSET Functions]
             /\ Pairs(new) = Pairs(old) \cup pairs
  <1> DEFINE new == [site \in scope |-> old[site] \cup At(pairs, site)]
  <1>1. new \in [scope -> SUBSET Functions]
    <2>1. \A site \in scope : At(pairs, site) \subseteq Functions
      BY DEF At
    <2> QED
      BY <2>1
  <1>2. \A p : p \in Pairs(new) <=> p \in Pairs(old) \cup pairs
    <2> TAKE p
    <2>1. p \in Pairs(new) <=>
            \E site \in scope : \E f \in old[site] \cup At(pairs, site) : p = <<site, f>>
      BY PairsMember
    <2>2. p \in Pairs(old) <=> \E site \in scope : \E f \in old[site] : p = <<site, f>>
      BY PairsMember
    <2>3. p \in pairs <=> \E site \in scope : \E f \in At(pairs, site) : p = <<site, f>>
      BY AtMember DEF At
    <2> QED
      BY <2>1, <2>2, <2>3
  <1> QED
    BY <1>1, <1>2

\* The books are in order initially.
LEMMA BookkeepingStart == CallGraphInit => Bookkeeping
  <1> SUFFICES ASSUME CallGraphInit PROVE Bookkeeping
    OBVIOUS
  <1>1. GraphKept /\ installed = {}
    BY DEF CallGraphInit, GraphKept, Init
  <1>2. controls.max_resumes \in Nat /\ controls.max_steps \subseteq Nat
    BY <1>1, GraphFacts DEF GraphKept
  <1>3. CallGraphTypeOK
    BY <1>1, <1>2 DEF CallGraphInit, CallGraphTypeOK, GraphKept, Outcomes
  <1> QED
    BY <1>1, <1>3 DEF CallGraphInit, Bookkeeping, Started, Running

\* Every step keeps the books in order.
LEMMA BookkeepingKept ==
  ASSUME Bookkeeping, [CallGraphNext]_<<vars, callVars>>
  PROVE  Bookkeeping'
  <1>1. GraphKept'
    BY StepsOfTheSolver DEF Bookkeeping
  <1>2. /\ graph \in CallGraphs /\ controls \in Controls
        /\ activated \in [graph.scope -> SUBSET Functions]
        /\ CallGraphTypeOK
        /\ controls.max_resumes \in Nat \ {0} /\ controls.max_steps \subseteq Nat
        /\ Pinned(graph) \subseteq graph.scope
        /\ eager \cup NewlyEager \subseteq graph.scope \ Pinned(graph)
    BY GraphFacts DEF Bookkeeping, GraphKept, CallGraphTypeOK, NewlyEager
  <1>3. CASE Start
    <2> DEFINE initial == Initial(graph, controls)
    <2>1. initial \in SUBSET (graph.scope \X Functions)
      BY <1>2, InitialPairs
    <2>2. \A site \in graph.scope : \A f \in At(initial, site) : <<site, f>> \in initial
      BY <2>1, AtMember
    <2>3. \A site \in graph.scope : At(initial, site) \subseteq Functions
      BY <2>1 DEF At
    <2>4. ASSUME NEW site \in graph.scope, NEW f \in At(initial, site)
          PROVE  f \in IF site \in Pinned(graph) THEN graph.exact[site]
                       ELSE Envelope(graph, site)
      <3>1. <<site, f>> \in initial
        BY <2>2
      <3>2. \/ site \in Pinned(graph) /\ f \in graph.exact[site]
            \/ site \in Eager(graph, controls) /\ f \in Envelope(graph, site)
        BY <3>1, InitialMember, WholeMember
      <3> QED
        BY <3>2, <1>2, GraphFacts
    <2> HIDE DEF initial
    <2>5. /\ activated' = [site \in graph.scope |-> At(initial, site)]
          /\ eager' = Eager(graph, controls) /\ rounds' = 1 /\ steps' = steps
          /\ outcome' = outcome /\ graph' = graph /\ controls' = controls
          /\ installed' # {}
      BY <1>3 DEF Start, Add, initial
    <2>6. Eager(graph, controls) \subseteq graph.scope \ Pinned(graph)
      BY <1>2, GraphFacts
    <2>7. CallGraphTypeOK'
      BY <1>2, <2>4, <2>5, <2>6 DEF CallGraphTypeOK, Envelope, Pinned
    <2>8. activated' \in [graph'.scope -> SUBSET Functions]
      BY <2>3, <2>5
    <2> QED
      BY <1>1, <2>5, <2>7, <2>8 DEF Bookkeeping, Started
  <1>4. ASSUME NEW n \in solve.worklist, Propagate(n)
        PROVE  Bookkeeping'
    <2>1. \A limit \in controls.max_steps : steps' \in 0 .. limit
      BY <1>2, <1>4 DEF Propagate, WithinBudget, CallGraphTypeOK
    <2>2. UNCHANGED <<graph, controls, activated, eager, rounds, outcome, installed>>
      BY <1>4 DEF Propagate, Pop
    <2>3. CallGraphTypeOK'
      BY <1>2, <2>1, <2>2 DEF CallGraphTypeOK, Envelope, Pinned
    <2> QED
      BY <1>1, <2>2, <2>3 DEF Bookkeeping, Started, Running
  <1>5. CASE ActivateAll
    <2>1. KnownUnbound \in SUBSET Whole(graph, graph.scope \ Pinned(graph))
      BY <1>2, KnownPairs
    <2>2. KnownUnbound \in SUBSET (graph.scope \X Functions)
      BY <1>2, KnownPairs
    <2>3. /\ activated' = [site \in graph.scope |-> activated[site] \cup At(KnownUnbound, site)]
          /\ eager' = eager \cup NewlyEager /\ graph' = graph /\ controls' = controls
          /\ steps' = steps /\ rounds < controls.max_resumes
          /\ installed # {} /\ installed' # {}
          /\ rounds' \in {rounds, rounds + 1}
          /\ outcome' \in {outcome, "injected_after_activation"}
      BY <1>5 DEF ActivateAll, AtFixedPoint, Started, Add, Exhaust
    <2>4. activated' \in [graph'.scope -> SUBSET Functions]
      <3>1. [site \in graph.scope |-> activated[site] \cup At(KnownUnbound, site)]
              \in [graph.scope -> SUBSET Functions]
        BY <1>2, <2>2, Recorded
      <3> QED
        BY <2>3, <3>1
    <2>5. ASSUME NEW site \in graph.scope
          PROVE  activated'[site] \subseteq
                   IF site \in Pinned(graph) THEN graph.exact[site] ELSE Envelope(graph, site)
      <3>1. \A f \in At(KnownUnbound, site) :
              site \notin Pinned(graph) /\ f \in Envelope(graph, site)
        <4> TAKE f \in At(KnownUnbound, site)
        <4>1. <<site, f>> \in KnownUnbound
          BY <2>2, AtMember
        <4>2. <<site, f>> \in Whole(graph, graph.scope \ Pinned(graph))
          BY <2>1, <4>1
        <4> QED
          BY <4>2, WholeMember
      <3> QED
        BY <1>2, <2>3, <3>1 DEF CallGraphTypeOK
    <2>6. CallGraphTypeOK'
      BY <1>2, <2>3, <2>5 DEF CallGraphTypeOK, Envelope, Pinned, Outcomes
    <2>7. rounds # 0 /\ rounds \in Nat
      BY <1>2, <2>3 DEF Bookkeeping, Started, CallGraphTypeOK
    <2> QED
      BY <1>1, <2>3, <2>4, <2>6, <2>7 DEF Bookkeeping, Started
  <1>6. ASSUME UNCHANGED <<graph, controls, activated, rounds, steps, installed>>,
               eager' \in {eager, eager \cup NewlyEager},
               outcome' \in Outcomes, ~Started => outcome' = outcome
        PROVE  Bookkeeping'
    <2>1. CallGraphTypeOK'
      BY <1>2, <1>6 DEF CallGraphTypeOK, Envelope, Pinned
    <2> QED
      BY <1>1, <1>6, <2>1 DEF Bookkeeping, Started, Running
  <1>7. CASE OutOfSteps \/ GiveUpPropagating \/ Finish \/ GiveUpAfterDiscovery
    BY <1>6, <1>7
    DEF OutOfSteps, GiveUpPropagating, Finish, GiveUpAfterDiscovery, Exhaust, Outcomes, vars,
        AtFixedPoint
  <1>8. CASE UNCHANGED <<vars, callVars>>
    BY <1>2, <1>6, <1>8 DEF vars, callVars, CallGraphTypeOK
  <1> QED
    BY <1>3, <1>4, <1>5, <1>7, <1>8 DEF CallGraphNext

\* Bindings stay within the exact answers and the envelopes, rounds and steps
\* within their budgets (the retain in Refiner::run, the order of test and
\* count in run_with_limit).
THEOREM CallGraphTypes == CallGraphSpec => []CallGraphTypeOK
<1>1. Bookkeeping /\ [CallGraphNext]_<<vars, callVars>> => Bookkeeping'
  BY BookkeepingKept
<1>2. Bookkeeping => CallGraphTypeOK
  BY DEF Bookkeeping
<1> QED
  BY <1>1, <1>2, BookkeepingStart, PTL DEF CallGraphSpec

(***************************************************************************)
(* Progress of the rounds.                                                 *)
(***************************************************************************)
LEMMA PairsFinite ==
  ASSUME NEW g \in CallGraphs, NEW c \in Controls,
         NEW targets \in [g.scope -> SUBSET Functions]
  PROVE  IsFiniteSet(Pairs(targets))
  <1>1. IsFiniteSet(g.scope)
    BY GraphFacts
  <1>2. Functions \subseteq Cells
    BY CallGraphAssumption, CellKinds
  <1>3. IsFiniteSet(Functions)
    BY <1>2, FS_Subset, SolverAssumption
  <1>4. IsFiniteSet(g.scope \X Functions)
    BY <1>1, <1>3, FS_Product
  <1>5. Pairs(targets) \subseteq g.scope \X Functions
    BY PairsMember
  <1> QED
    BY <1>4, <1>5, FS_Subset

\* A new pair makes the table larger.
LEMMA MorePairs ==
  ASSUME NEW old, NEW more, IsFiniteSet(old \cup more), more # {}, more \cap old = {}
  PROVE  /\ Cardinality(old) \in Nat /\ Cardinality(old \cup more) \in Nat
         /\ Cardinality(old) + 1 <= Cardinality(old \cup more)
  <1>1. PICK p \in more : p \notin old
    OBVIOUS
  <1>2. IsFiniteSet(old) /\ Cardinality(old) \in Nat
    BY FS_Subset, FS_CardinalityType
  <1>3. Cardinality(old \cup {p}) = Cardinality(old) + 1
    BY <1>1, <1>2, FS_AddElement
  <1>4. Cardinality(old \cup {p}) <= Cardinality(old \cup more)
    BY <1>1, FS_Subset
  <1> QED
    BY <1>2, <1>3, <1>4, FS_CardinalityType

\* Every round but the first binds something new, so the discover and resume
\* loop is bounded by the pairs there are to bind (Refiner::run).
THEOREM RoundsBind == CallGraphSpec => []RoundsProductive
<1> DEFINE IInv == Bookkeeping /\ RoundsProductive
<1>1. CallGraphInit => IInv
  <2> SUFFICES ASSUME CallGraphInit PROVE RoundsProductive
    BY BookkeepingStart
  <2>1. Bookkeeping
    BY BookkeepingStart
  <2>2. IsFiniteSet(Pairs(activated))
    BY <2>1, PairsFinite DEF Bookkeeping, GraphKept
  <2> QED
    BY <2>2, FS_CardinalityType DEF CallGraphInit, RoundsProductive
<1>2. IInv /\ [CallGraphNext]_<<vars, callVars>> => IInv'
  <2> SUFFICES ASSUME IInv, [CallGraphNext]_<<vars, callVars>> PROVE RoundsProductive'
    BY BookkeepingKept
  <2>1. Bookkeeping'
    BY BookkeepingKept
  <2>2. IsFiniteSet(Pairs(activated)) /\ IsFiniteSet(Pairs(activated'))
    BY <2>1, PairsFinite DEF Bookkeeping, GraphKept
  <2>3. Cardinality(Pairs(activated)) \in Nat /\ Cardinality(Pairs(activated')) \in Nat
    BY <2>2, FS_CardinalityType
  <2>4. rounds \in Nat /\ rounds <= Cardinality(Pairs(activated)) + 1
    BY GraphFacts DEF RoundsProductive, Bookkeeping, CallGraphTypeOK
  <2>5. CASE Start
    BY <2>3, <2>5 DEF Start, RoundsProductive
  <2>6. CASE ActivateAll
    <3>1. /\ KnownUnbound # {} /\ KnownUnbound \cap Pairs(activated) = {}
          /\ activated' = [site \in graph.scope |-> activated[site] \cup At(KnownUnbound, site)]
          /\ rounds' \in {rounds, rounds + 1}
      BY <2>6 DEF ActivateAll, KnownUnbound
    <3>2. Pairs([site \in graph.scope |-> activated[site] \cup At(KnownUnbound, site)])
            = Pairs(activated) \cup KnownUnbound
      <4>1. activated \in [graph.scope -> SUBSET Functions]
        BY DEF Bookkeeping
      <4>2. KnownUnbound \in SUBSET (graph.scope \X Functions)
        BY KnownPairs DEF Bookkeeping, GraphKept
      <4> QED
        BY <4>1, <4>2, Recorded
    <3>3. Pairs(activated') = Pairs(activated) \cup KnownUnbound
      BY <3>1, <3>2
    <3>4. Cardinality(Pairs(activated)) + 1 <= Cardinality(Pairs(activated'))
      BY <2>2, <3>1, <3>3, MorePairs
    <3> QED
      BY <2>3, <2>4, <3>1, <3>4 DEF RoundsProductive
  <2>7. CASE UNCHANGED <<activated, rounds>>
    BY <2>4, <2>7 DEF RoundsProductive
  <2> QED
    BY <2>5, <2>6, <2>7
    DEF CallGraphNext, callVars, Propagate, OutOfSteps, GiveUpPropagating, Finish,
        GiveUpAfterDiscovery
<1>3. IInv => RoundsProductive
  OBVIOUS
<1> QED
  BY <1>1, <1>2, <1>3, PTL DEF CallGraphSpec

(***************************************************************************)
(* A complete pass is closed.                                              *)
(***************************************************************************)
EagerBound ==
  outcome \in {"running", "complete"} =>
    \A site \in eager : Envelope(graph, site) \subseteq activated[site]

BindingsInstalled ==
  Started =>
    /\ Eager(graph, controls) \subseteq eager
    /\ \A site \in Pinned(graph) : graph.exact[site] \cap Functions \subseteq activated[site]
    /\ \A system \in SystemsOf(graph, activated) : \E k \in installed : Within(system, k)

\* What Finish saw is still so: nothing moves once the pass has decided.
NothingLeft ==
  outcome = "complete" =>
    /\ Started /\ solve.worklist = {}
    /\ Discovered \subseteq Pairs(activated)
    /\ NewlyEager = {}

ClosedInv ==
  /\ Bookkeeping
  /\ ~Started => eager = {}
  /\ EagerBound
  /\ BindingsInstalled
  /\ NothingLeft

\* The systems bound are the base and one for each pair.
LEMMA SystemsMember ==
  ASSUME NEW g, NEW targets, NEW system \in SystemsOf(g, targets)
  PROVE  system = g.base \/ \E p \in Pairs(targets) : system = Binding(g, p[1], p[2])
  BY DEF SystemsOf, BindingsOf

\* The binding of a pair is part of the batch installed for it.
LEMMA BindingWithin ==
  ASSUME NEW g, NEW pairs, NEW p \in pairs
  PROVE  Within(Binding(g, p[1], p[2]), UnionOf(BindingsOf(g, pairs)))
  <1>1. Binding(g, p[1], p[2]) \in BindingsOf(g, pairs)
    BY DEF BindingsOf
  <1> QED
    BY <1>1, UnionCovers

\* The closure invariant holds initially.
LEMMA ClosedStart == CallGraphInit => ClosedInv
  BY BookkeepingStart
  DEF CallGraphInit, Init, ClosedInv, EagerBound, BindingsInstalled, NothingLeft, Started

\* The base system and the initial bindings.
LEMMA ClosedBuild ==
  ASSUME Bookkeeping, Start
  PROVE  (EagerBound /\ BindingsInstalled /\ NothingLeft)'
  <1> DEFINE initial == Initial(graph, controls)
  <1>1. graph \in CallGraphs /\ controls \in Controls /\ program = SolverProgram(graph, controls)
    BY DEF Bookkeeping, GraphKept
  <1>2. /\ activated' = [site \in graph.scope |-> At(initial, site)]
        /\ eager' = Eager(graph, controls) /\ outcome' = "running"
        /\ graph' = graph /\ controls' = controls
        /\ installed' = installed \cup {program.base}
    BY DEF Start, Running, Add
  <1>3. initial \in SUBSET (graph.scope \X Functions)
    BY <1>1, InitialPairs
  <1>4. ASSUME NEW site \in graph.scope, NEW f, <<site, f>> \in initial
        PROVE  f \in activated'[site]
    BY <1>2, <1>3, <1>4, AtMember
  <1>5. ASSUME NEW p \in Pairs(activated') PROVE p \in initial
    <2>1. PICK site \in graph.scope : \E f \in At(initial, site) : p = <<site, f>>
      BY <1>2, <1>5, PairsMember
    <2>2. PICK f \in At(initial, site) : p = <<site, f>>
      BY <2>1
    <2>3. <<site, f>> \in initial
      BY <1>3, <2>2, AtMember
    <2> QED
      BY <2>2, <2>3
  <1>6. EagerBound'
    <2> SUFFICES ASSUME NEW site \in Eager(graph, controls), NEW f, f \in Envelope(graph, site)
                 PROVE  f \in activated'[site]
      BY <1>2 DEF EagerBound
    <2>1. <<site, f>> \in initial
      BY InitialMember, WholeMember
    <2> QED
      BY <1>1, <1>4, <2>1, GraphFacts
  <1>7. ASSUME NEW site \in Pinned(graph), NEW f, f \in graph.exact[site] \cap Functions
        PROVE  f \in activated'[site]
    <2> HIDE DEF initial
    <2>1. <<site, f>> \in initial
      BY <1>7, InitialMember DEF initial
    <2> QED
      BY <1>1, <1>4, <2>1, GraphFacts
  <1>8. ASSUME NEW system \in SystemsOf(graph, activated')
        PROVE  Within(system, program.base)
    <2>1. program.base = UnionOf({graph.base} \cup BindingsOf(graph, initial))
      BY <1>1 DEF SolverProgram
    <2>2. system \in {graph.base} \cup BindingsOf(graph, initial)
      BY <1>5, <1>8, SystemsMember DEF BindingsOf
    <2> QED
      BY <2>1, <2>2, UnionCovers
  <1> HIDE DEF initial
  <1>9. BindingsInstalled'
    BY <1>2, <1>7, <1>8 DEF BindingsInstalled
  <1> QED
    BY <1>2, <1>6, <1>9 DEF NothingLeft

\* A batch of bindings.
LEMMA ClosedActivate ==
  ASSUME ClosedInv, ActivateAll
  PROVE  (EagerBound /\ BindingsInstalled /\ NothingLeft)'
  <1> DEFINE batch == UnionOf(BindingsOf(graph, KnownUnbound))
  <1>1. /\ graph \in CallGraphs /\ controls \in Controls
        /\ activated \in [graph.scope -> SUBSET Functions]
        /\ eager \subseteq graph.scope
    BY DEF ClosedInv, Bookkeeping, GraphKept, CallGraphTypeOK
  <1>2. /\ activated' = [site \in graph.scope |-> activated[site] \cup At(KnownUnbound, site)]
        /\ eager' = eager \cup NewlyEager /\ graph' = graph /\ controls' = controls
        /\ installed # {} /\ installed' = installed \cup {batch}
        /\ outcome = "running" /\ outcome' # "complete"
    BY DEF ActivateAll, AtFixedPoint, Running, Started, Add, Exhaust
  <1>3. KnownUnbound \in SUBSET (graph.scope \X Functions)
    BY <1>1, KnownPairs
  <1>4. Pairs(activated') = Pairs(activated) \cup KnownUnbound
    <2>1. Pairs([site \in graph.scope |-> activated[site] \cup At(KnownUnbound, site)])
            = Pairs(activated) \cup KnownUnbound
      BY <1>1, <1>3, Recorded
    <2> QED
      BY <1>2, <2>1
  <1>5. \A site \in graph.scope : activated[site] \subseteq activated'[site]
    BY <1>2
  <1>6. EagerBound'
    <2> SUFFICES ASSUME NEW site \in eager \cup NewlyEager, NEW f, f \in Envelope(graph, site)
                 PROVE  f \in activated'[site]
      BY <1>2 DEF EagerBound
    <2>1. CASE site \in eager
      BY <1>1, <1>2, <1>5, <2>1 DEF ClosedInv, EagerBound
    <2>2. CASE site \in NewlyEager
      <3>1. <<site, f>> \in Pairs(activated')
        BY <1>4, <2>2, WholeMember DEF KnownUnbound
      <3> QED
        BY <1>2, <3>1, PairsMember
    <2> QED
      BY <2>1, <2>2
  <1>7. ASSUME NEW system \in SystemsOf(graph, activated')
        PROVE  \E k \in installed' : Within(system, k)
    <2>1. CASE system \in SystemsOf(graph, activated)
      BY <1>2, <2>1 DEF ClosedInv, BindingsInstalled, Started
    <2>2. CASE system \notin SystemsOf(graph, activated)
      <3>1. PICK p \in KnownUnbound : system = Binding(graph, p[1], p[2])
        BY <1>4, <1>7, <2>2, SystemsMember DEF SystemsOf, BindingsOf
      <3>2. Within(system, batch)
        BY <3>1, BindingWithin
      <3> QED
        BY <1>2, <3>2
    <2> QED
      BY <2>1, <2>2
  <1> HIDE DEF batch
  <1>8. BindingsInstalled'
    <2>1. Pinned(graph) \subseteq graph.scope
      BY <1>1, GraphFacts
    <2>2. BindingsInstalled /\ Started
      BY <1>2 DEF ClosedInv, Started
    <2> QED
      BY <1>2, <1>5, <1>7, <2>1, <2>2 DEF BindingsInstalled
  <1> QED
    BY <1>2, <1>6, <1>8 DEF NothingLeft

\* The end of the pass.
LEMMA ClosedFinish ==
  ASSUME ClosedInv, Finish
  PROVE  (EagerBound /\ BindingsInstalled /\ NothingLeft)'
  <1>1. /\ UNCHANGED <<graph, controls, activated, installed, solve>>
        /\ eager' = eager \cup NewlyEager /\ outcome = "running" /\ outcome' = "complete"
        /\ Started /\ solve.worklist = {} /\ KnownUnbound = {}
    BY DEF Finish, AtFixedPoint, Running, vars
  <1>2. Discovered \subseteq Pairs(activated) /\ Whole(graph, NewlyEager) \subseteq Pairs(activated)
    BY <1>1 DEF KnownUnbound
  <1>3. EagerBound'
    <2> SUFFICES ASSUME NEW site \in eager \cup NewlyEager, NEW f, f \in Envelope(graph, site)
                 PROVE  f \in activated[site]
      BY <1>1 DEF EagerBound
    <2>1. CASE site \in eager
      BY <1>1, <2>1 DEF ClosedInv, EagerBound
    <2>2. CASE site \in NewlyEager
      <3>1. <<site, f>> \in Pairs(activated)
        BY <1>2, <2>2, WholeMember
      <3> QED
        BY <3>1, PairsMember
    <2> QED
      BY <2>1, <2>2
  <1>4. BindingsInstalled'
    BY <1>1 DEF ClosedInv, BindingsInstalled, Started
  <1>5. Discovered' = Discovered
    BY <1>1 DEF Discovered, OperandFacts
  <1>6. NewlyEager' = {}
    BY <1>1 DEF NewlyEager, OperandUnknown, OperandFacts
  <1> QED
    BY <1>1, <1>2, <1>3, <1>4, <1>5, <1>6 DEF NothingLeft, Started

\* Every step keeps the closure invariant.
LEMMA ClosedKept ==
  ASSUME ClosedInv, [CallGraphNext]_<<vars, callVars>>
  PROVE  ClosedInv'
  <1>1. Bookkeeping'
    BY BookkeepingKept DEF ClosedInv
  <1>2. ASSUME UNCHANGED <<graph, controls, activated, installed>>, Started,
               eager \subseteq eager', outcome' \notin {"running", "complete"}
        PROVE  (EagerBound /\ BindingsInstalled /\ NothingLeft)'
    BY <1>2 DEF ClosedInv, EagerBound, BindingsInstalled, NothingLeft, Started
  <1>3. CASE Start
    BY <1>1, <1>3, ClosedBuild DEF ClosedInv, Start, Add, Started
  <1>4. ASSUME NEW n \in solve.worklist, Propagate(n)
        PROVE  ClosedInv'
    <2>1. /\ UNCHANGED <<graph, controls, activated, eager, outcome, installed>>
          /\ outcome = "running"
      BY <1>4 DEF Propagate, Pop, Running
    <2> QED
      BY <1>1, <2>1 DEF ClosedInv, EagerBound, BindingsInstalled, NothingLeft, Started
  <1>5. CASE ActivateAll
    BY <1>1, <1>5, ClosedActivate DEF ClosedInv, ActivateAll, Add, Started
  <1>6. CASE Finish
    BY <1>1, <1>6, ClosedFinish DEF ClosedInv, Finish, AtFixedPoint, Started, vars
  <1>7. CASE OutOfSteps \/ GiveUpPropagating \/ GiveUpAfterDiscovery
    <2>1. /\ UNCHANGED <<graph, controls, activated, installed>> /\ Started /\ Started'
          /\ eager \subseteq eager' /\ outcome' \notin {"running", "complete"}
      BY <1>7
      DEF OutOfSteps, GiveUpPropagating, GiveUpAfterDiscovery, Exhaust, AtFixedPoint, Started, vars
    <2> QED
      BY <1>1, <1>2, <2>1 DEF ClosedInv
  <1>8. CASE UNCHANGED <<vars, callVars>>
    <2>1. UNCHANGED <<graph, controls, activated, installed, eager, outcome, solve>>
      BY <1>8 DEF vars, callVars
    <2>2. Discovered' = Discovered /\ NewlyEager' = NewlyEager
      BY <2>1 DEF Discovered, NewlyEager, OperandUnknown, OperandFacts
    <2> QED
      BY <1>1, <2>1, <2>2 DEF ClosedInv, EagerBound, BindingsInstalled, NothingLeft, Started
  <1> QED
    BY <1>3, <1>4, <1>5, <1>6, <1>7, <1>8 DEF CallGraphNext

\* A pass that ends complete has a closed call graph: whatever an operand can
\* call inside its envelope is bound, sites that may hold foreign code have
\* their whole envelope bound, and all the constraints of the program and of
\* the bindings hold, whatever the order of pops, rounds and batches
\* (Refiner::run).
THEOREM CallGraphClosed == CallGraphSpec => []CompleteIsClosed
<1>1. ClosedInv /\ [CallGraphNext]_<<vars, callVars>> => ClosedInv'
  BY ClosedKept
<1>2. ClosedInv /\ QuiescentSound => CompleteIsClosed
  <2> SUFFICES ASSUME ClosedInv, QuiescentSound, outcome = "complete"
               PROVE  ClosedCallGraph(graph, controls, activated, Value(solve),
                                      solve.fields, solve.direct)
    BY DEF CompleteIsClosed
  <2> DEFINE value == Value(solve)
  <2>1. /\ Started /\ solve.worklist = {} /\ NewlyEager = {}
        /\ Discovered \subseteq Pairs(activated)
        /\ BindingsInstalled /\ EagerBound
        /\ graph \in CallGraphs /\ controls \in Controls
    BY DEF ClosedInv, NothingLeft, Bookkeeping, GraphKept
  <2>2. ASSUME NEW site \in graph.scope
        PROVE  SiteClosed(graph, controls, site, activated[site], value[graph.operand[site]])
    <3>1. CASE site \in Pinned(graph)
      BY <2>1, <3>1 DEF SiteClosed, BindingsInstalled
    <3>2. CASE site \notin Pinned(graph)
      <4>1. value[graph.operand[site]] = OperandFacts(site)
        BY DEF OperandFacts
      <4>2. ASSUME NEW f \in Callable(OperandFacts(site)) \cap Envelope(graph, site)
            PROVE  f \in activated[site]
        <5>1. <<site, f>> \in Pairs(activated)
          BY <2>1, <3>2, DiscoveredMember
        <5> QED
          BY <5>1, PairsMember
      <4>3. site \in eager => Envelope(graph, site) \subseteq activated[site]
        BY <2>1 DEF EagerBound
      <4>4. site \in Eager(graph, controls) => site \in eager
        BY <2>1 DEF BindingsInstalled
      <4>5. ~controls.disable_eager_unknown /\ OperandFacts(site) \cap CodeRegions # {}
              => site \in eager
        BY <2>1, <3>2 DEF NewlyEager, OperandUnknown
      <4> HIDE DEF value
      <4> QED
        BY <3>2, <4>1, <4>2, <4>3, <4>4, <4>5 DEF SiteClosed
    <3> QED
      BY <3>1, <3>2
  <2>3. IsSolution(installed, value, solve.fields, solve.direct)
    BY <2>1 DEF QuiescentSound
  <2> HIDE DEF value
  <2>4. ASSUME NEW system \in SystemsOf(graph, activated)
        PROVE  Satisfies(system, value, solve.fields, solve.direct)
    <3>1. PICK k \in installed : Within(system, k)
      BY <2>1 DEF BindingsInstalled
    <3> QED
      BY <2>3, <3>1, WithinSatisfied DEF IsSolution
  <2>5. IsSolution(SystemsOf(graph, activated), value, solve.fields, solve.direct)
    BY <2>3, <2>4 DEF IsSolution
  <2> QED
    BY <2>2, <2>5 DEF ClosedCallGraph, value
<1>3. CallGraphSpec => []QuiescentSound
  <2>1. CallGraphSpec => Spec
    BY SolverDriven DEF SolverSpec
  <2> QED
    BY <2>1, Soundness, PTL
<1> QED
  BY <1>1, <1>2, <1>3, ClosedStart, PTL DEF CallGraphSpec

(***************************************************************************)
(* The pass stays within every closed call graph.                          *)
(***************************************************************************)
\* The union of systems asks for nothing that none of them asks for.
LEMMA UnionSatisfied ==
  ASSUME NEW systems, NEW value, NEW F, NEW D,
         \A s \in systems : Satisfies(s, value, F, D) /\ GrantsFields(s, value, F)
  PROVE  Satisfies(UnionOf(systems), value, F, D) /\ GrantsFields(UnionOf(systems), value, F)
  <1> DEFINE all == UnionOf(systems)
  <1>1. /\ \A a : a \in all.addrs <=> \E s \in systems : a \in s.addrs
        /\ \A e : e \in all.copies <=> \E s \in systems : e \in s.copies
        /\ \A j : j \in all.joins <=> \E s \in systems : j \in s.joins
        /\ \A m : m \in all.memcpys <=> \E s \in systems : m \in s.memcpys
    <2>1. /\ all.addrs = UNION {s.addrs : s \in systems}
          /\ all.copies = UNION {s.copies : s \in systems}
          /\ all.joins = UNION {s.joins : s \in systems}
          /\ all.memcpys = UNION {s.memcpys : s \in systems}
      BY DEF UnionOf
    <2> HIDE DEF all
    <2> QED
      BY <2>1, Zenon
  <1> HIDE DEF all
  <1>2. \A r \in RegionsOf(all) : \E s \in systems : r \in RegionsOf(s)
    BY <1>1 DEF RegionsOf
  <1>3. \A region \in RegionsOf(all) : region \in value[region]
    BY <1>2 DEF Satisfies
  <1>4. \A a \in all.addrs : a[2] \in value[a[1]]
    BY <1>1 DEF Satisfies
  <1>5. \A e \in all.copies : value[e[1]] \subseteq value[e[2]]
    BY <1>1, Zenon DEF Satisfies
  <1>6. \A j \in all.joins : JoinHolds(j[1], j[2], value, F, D)
    BY <1>1, Zenon DEF Satisfies
  <1>7. \A m \in all.memcpys : MemcpyHolds(m, value, D)
    BY <1>1, Zenon DEF Satisfies
  <1>8. GrantsFields(all, value, F)
    <2>1. \A a \in all.addrs : a[2] \in FieldCells => a[2] \in F
      BY <1>1, Zenon DEF GrantsFields
    <2>2. \A j \in all.joins : j[2][1] = "gep" =>
            \A o \in value[j[1]] \cap Pointees : RequestedField(o, j[2][2]) \in F \cup Regions
      BY <1>1, Zenon DEF GrantsFields
    <2> QED
      BY <2>1, <2>2 DEF GrantsFields
  <1> QED
    BY <1>3, <1>4, <1>5, <1>6, <1>7, <1>8 DEF Satisfies, all

\* A closed call graph with a solution that refuses no field.
ClosedAnswer(known) ==
  /\ known.targets \in [known.graph.scope -> SUBSET Functions]
  /\ known.value \in Tables(Facts)
  /\ known.fields \in SUBSET FieldCells /\ known.direct \in SUBSET Objects
  /\ StorageConsistent(known.value, known.fields, known.direct)
  /\ WithinCap(known.fields)
  /\ \A site \in known.graph.scope :
       SiteClosed(known.graph, known.controls, site, known.targets[site],
                  known.value[known.graph.operand[site]])
  /\ \A system \in SystemsOf(known.graph, known.targets) :
       /\ Satisfies(system, known.value, known.fields, known.direct)
       /\ GrantsFields(system, known.value, known.fields)

\* The closed graphs given are such answers.
LEMMA ClosedGraphAnswers ==
  ASSUME NEW known \in ClosedGraphs
  PROVE  ClosedAnswer(known)
  BY ClosedGraphAssumption DEF ClosedCallGraph, IsSolution, WithinCap, ClosedAnswer

\* A batch of bindings that the graph has is satisfied by its solution, with
\* or without the base system.
LEMMA BatchSatisfied ==
  ASSUME NEW known, ClosedAnswer(known), NEW pairs \in SUBSET Pairs(known.targets),
         NEW first \in SUBSET {known.graph.base}
  PROVE  LET batch == UnionOf(first \cup BindingsOf(known.graph, pairs))
         IN  /\ Satisfies(batch, known.value, known.fields, known.direct)
             /\ GrantsFields(batch, known.value, known.fields)
  <1> DEFINE systems == first \cup BindingsOf(known.graph, pairs)
  <1>1. systems \subseteq SystemsOf(known.graph, known.targets)
    BY DEF SystemsOf, BindingsOf
  <1>2. \A s \in systems : /\ Satisfies(s, known.value, known.fields, known.direct)
                           /\ GrantsFields(s, known.value, known.fields)
    BY <1>1 DEF ClosedAnswer
  <1> HIDE DEF systems
  <1>3. /\ Satisfies(UnionOf(systems), known.value, known.fields, known.direct)
        /\ GrantsFields(UnionOf(systems), known.value, known.fields)
    BY <1>2, UnionSatisfied
  <1> QED
    BY <1>3 DEF systems

\* A closed graph has the bindings known from the start.
LEMMA InitialInside ==
  ASSUME NEW known, ClosedAnswer(known), known.graph \in CallGraphs, known.controls \in Controls
  PROVE  Initial(known.graph, known.controls) \subseteq Pairs(known.targets)
  <1> DEFINE g == known.graph
             c == known.controls
  <1>1. /\ Pinned(g) \subseteq g.scope /\ Eager(g, c) \subseteq g.scope \ Pinned(g)
        /\ DOMAIN known.targets = g.scope
        /\ \A site \in g.scope : SiteClosed(g, c, site, known.targets[site],
                                            known.value[g.operand[site]])
    BY GraphFacts DEF ClosedAnswer
  <1> HIDE DEF g, c
  <1> SUFFICES ASSUME NEW p \in Initial(g, c) PROVE p \in Pairs(known.targets)
    BY DEF g, c
  <1>2. ASSUME NEW site \in g.scope, NEW f \in known.targets[site], p = <<site, f>>
        PROVE  p \in Pairs(known.targets)
    BY <1>1, <1>2, PairsMember
  <1>3. ASSUME NEW site \in Pinned(g), NEW f \in g.exact[site] \cap Functions, p = <<site, f>>
        PROVE  p \in Pairs(known.targets)
    <2>1. f \in known.targets[site]
      BY <1>1 DEF SiteClosed
    <2> QED
      BY <1>1, <1>2, <1>3, <2>1
  <1>4. ASSUME NEW site \in Eager(g, c), NEW f \in Envelope(g, site), p = <<site, f>>
        PROVE  p \in Pairs(known.targets)
    <2>1. f \in known.targets[site]
      BY <1>1 DEF SiteClosed
    <2> QED
      BY <1>1, <1>2, <1>4, <2>1
  <1> QED
    BY <1>3, <1>4, InitialMember, WholeMember

\* The pass and its solver are within a closed graph and its solution.
Inside(known) ==
  /\ \A site \in graph.scope : activated[site] \subseteq known.targets[site]
  /\ Below(solve, WithSummaries(known.value), known.fields, known.direct)

BelowClosed ==
  \A known \in ClosedGraphs : known.graph = graph /\ known.controls = controls => Inside(known)

\* An operand holds no more than in the solution.
LEMMA OperandInside ==
  ASSUME NEW known, ClosedAnswer(known), Inside(known), solve \in Solves,
         NEW site \in graph.scope, graph.operand[site] \in ProgramCells
  PROVE  OperandFacts(site) \subseteq known.value[graph.operand[site]]
  <1> DEFINE c == graph.operand[site]
             V == WithSummaries(known.value)
  <1>1. c \in Cells /\ V[c] = known.value[c]
    BY DisjointAssumption DEF WithSummaries, Cells
  <1> HIDE DEF V
  <1>2. OperandFacts(site) = solve.pts[solve.rep[c]] /\ solve.rep[c] \in Cells
    BY <1>1 DEF OperandFacts, Value, Solves
  <1>3. solve.pts[solve.rep[c]] \subseteq V[solve.rep[c]] /\ V[solve.rep[c]] = V[c]
    BY <1>1, <1>2 DEF Inside, Below, V
  <1> QED
    BY <1>1, <1>2, <1>3

\* More facts name no fewer functions.
LEMMA CallableGrows ==
  ASSUME NEW facts, NEW more, facts \subseteq more
  PROVE  Callable(facts) \subseteq Callable(more)
  BY DEF Callable

\* A closed graph has whatever the pass discovers while it is within it.
LEMMA FoundInside ==
  ASSUME Bookkeeping, solve \in Solves, NEW known, ClosedAnswer(known), Inside(known),
         known.graph = graph, known.controls = controls
  PROVE  KnownUnbound \subseteq Pairs(known.targets)
  <1>1. graph \in CallGraphs /\ controls \in Controls
    BY DEF Bookkeeping, GraphKept
  <1>2. /\ DOMAIN known.targets = graph.scope
        /\ \A site \in graph.scope : SiteClosed(graph, controls, site, known.targets[site],
                                                known.value[graph.operand[site]])
        /\ \A site \in graph.scope : OperandFacts(site) \subseteq known.value[graph.operand[site]]
    BY <1>1, GraphFacts, OperandInside DEF ClosedAnswer
  <1> SUFFICES ASSUME NEW p \in KnownUnbound PROVE p \in Pairs(known.targets)
    OBVIOUS
  <1>3. ASSUME NEW site \in graph.scope, NEW f \in known.targets[site], p = <<site, f>>
        PROVE  p \in Pairs(known.targets)
    BY <1>2, <1>3, PairsMember
  <1>4. ASSUME NEW site \in graph.scope \ Pinned(graph),
               NEW f \in Callable(OperandFacts(site)) \cap Envelope(graph, site), p = <<site, f>>
        PROVE  p \in Pairs(known.targets)
    <2>1. f \in Callable(known.value[graph.operand[site]])
      BY <1>2, CallableGrows
    <2>2. f \in known.targets[site]
      BY <1>2, <2>1 DEF SiteClosed
    <2> QED
      BY <1>3, <1>4, <2>2
  <1>5. ASSUME NEW site \in NewlyEager, NEW f \in Envelope(graph, site), p = <<site, f>>
        PROVE  p \in Pairs(known.targets)
    <2>1. /\ site \in graph.scope /\ site \notin Pinned(graph)
          /\ ~controls.disable_eager_unknown
          /\ known.value[graph.operand[site]] \cap CodeRegions # {}
      BY <1>2 DEF NewlyEager, OperandUnknown
    <2>2. f \in known.targets[site]
      BY <1>2, <2>1 DEF SiteClosed
    <2> QED
      BY <1>3, <1>5, <2>1, <2>2
  <1> QED
    BY <1>4, <1>5, DiscoveredMember, WholeMember DEF KnownUnbound

\* Every step keeps the pass within a closed graph of its program.
LEMMA InsideKept ==
  ASSUME Bookkeeping, TypeOK, SemiNaiveInvariant, [CallGraphNext]_<<vars, callVars>>,
         NEW CONSTANT known, ClosedAnswer(known), known.graph = graph, known.controls = controls,
         Inside(known)
  PROVE  Inside(known)'
  <1>1. /\ graph' = graph /\ controls' = controls /\ program' = program
    BY DEF CallGraphNext, Start, Propagate, OutOfSteps, GiveUpPropagating, Finish,
           GiveUpAfterDiscovery, ActivateAll, Add, Pop, vars, callVars
  <1> DEFINE value == known.value
             V == WithSummaries(value)
             F == known.fields
             D == known.direct
  <1>2. Inside(known)
    OBVIOUS
  <1>3. Below(solve, V, F, D)
    BY <1>2 DEF Inside
  <1>4. /\ known.targets \in [graph.scope -> SUBSET Functions]
        /\ value \in Tables(Facts) /\ F \in SUBSET FieldCells /\ D \in SUBSET Objects
        /\ StorageConsistent(value, F, D) /\ WithinCap(F)
    BY DEF ClosedAnswer
  <1>5. Consistent(V, F, D)
    BY <1>4, SummariesConsistent
  <1>6. /\ solve \in Solves /\ SemiNaive(solve) /\ program \in Programs
        /\ graph \in CallGraphs /\ controls \in Controls
        /\ program = SolverProgram(graph, controls)
        /\ activated \in [graph.scope -> SUBSET Functions]
    BY DEF TypeOK, SemiNaiveInvariant, Bookkeeping, GraphKept
  <1>7. Inside(known)' <=>
          /\ \A site \in graph.scope : activated'[site] \subseteq known.targets[site]
          /\ Below(solve', V, F, D)
    BY <1>1 DEF Inside
  <1>8. ASSUME NEW pairs \in SUBSET Pairs(known.targets), NEW site \in graph.scope
        PROVE  At(pairs, site) \subseteq known.targets[site]
    <2> SUFFICES ASSUME NEW f \in At(pairs, site) PROVE f \in known.targets[site]
      OBVIOUS
    <2>1. PICK p \in pairs : p[1] = site /\ p[2] = f
      BY DEF At
    <2>2. \E s \in DOMAIN known.targets : \E h \in known.targets[s] : p = <<s, h>>
      BY PairsMember
    <2> QED
      BY <2>1, <2>2
  <1> HIDE DEF V, F, D, value
  <1>9. ASSUME NEW system \in {program.base} \cup program.calls, Add(system),
               Satisfies(system, value, F, D), GrantsFields(system, value, F)
        PROVE  Below(solve', V, F, D)
    <2>1. Permits(system, V, F, D)
      BY <1>6, <1>9, SummariesPermit DEF V
    <2> QED
      BY <1>3, <1>5, <1>6, <1>9, <2>1, SystemType, AddBelow
  <1>10. CASE Start
    <2> DEFINE initial == Initial(graph, controls)
    <2>1. initial \in SUBSET Pairs(known.targets)
      BY <1>6, InitialInside
    <2>2. /\ Add(program.base)
          /\ activated' = [site \in graph.scope |-> At(initial, site)]
      BY <1>10 DEF Start
    <2>3. program.base = UnionOf({graph.base} \cup BindingsOf(graph, initial))
      BY <1>6 DEF SolverProgram
    <2> HIDE DEF initial
    <2>4. Satisfies(program.base, value, F, D) /\ GrantsFields(program.base, value, F)
      BY <2>1, <2>3, BatchSatisfied DEF value, F, D
    <2>5. Below(solve', V, F, D)
      BY <1>9, <2>2, <2>4
    <2>6. \A site \in graph.scope : activated'[site] \subseteq known.targets[site]
      BY <1>8, <2>1, <2>2
    <2> QED
      BY <1>7, <2>5, <2>6
  <1>11. CASE ActivateAll
    <2> DEFINE batch == UnionOf(BindingsOf(graph, KnownUnbound))
    <2>1. KnownUnbound \in SUBSET Pairs(known.targets)
      BY <1>2, <1>6, FoundInside
    <2>2. /\ Add(batch)
          /\ activated' = [site \in graph.scope |-> activated[site] \cup At(KnownUnbound, site)]
      BY <1>11 DEF ActivateAll
    <2>3. batch \in program.calls
      <3>1. KnownUnbound \in SUBSET Whole(graph, graph.scope \ Pinned(graph))
        BY <1>6, KnownPairs
      <3> QED
        BY <1>6, <3>1 DEF SolverProgram
    <2>4. Satisfies(batch, value, F, D) /\ GrantsFields(batch, value, F)
      <3>1. {} \in SUBSET {known.graph.base} /\ {} \cup BindingsOf(graph, KnownUnbound)
                                                  = BindingsOf(graph, KnownUnbound)
        OBVIOUS
      <3>2. LET system == UnionOf({} \cup BindingsOf(known.graph, KnownUnbound))
            IN  /\ Satisfies(system, known.value, known.fields, known.direct)
                /\ GrantsFields(system, known.value, known.fields)
        BY <2>1, <3>1, BatchSatisfied
      <3> QED
        BY <3>1, <3>2 DEF value, F, D
    <2> HIDE DEF batch
    <2>5. Below(solve', V, F, D)
      BY <1>9, <2>2, <2>3, <2>4
    <2>6. \A site \in graph.scope : activated'[site] \subseteq known.targets[site]
      BY <1>2, <1>8, <2>1, <2>2 DEF Inside
    <2> QED
      BY <1>7, <2>5, <2>6
  <1>12. ASSUME NEW n \in solve.worklist, Propagate(n)
         PROVE  Inside(known)'
    <2>1. Pop(n) /\ activated' = activated
      BY <1>12 DEF Propagate
    <2>2. Below(solve', V, F, D)
      BY <1>3, <1>5, <1>6, <2>1, PopBelow
    <2> QED
      BY <1>2, <1>7, <2>1, <2>2 DEF Inside
  <1>13. CASE UNCHANGED <<solve, activated>>
    BY <1>2, <1>3, <1>7, <1>13 DEF Inside
  <1> QED
    BY <1>10, <1>11, <1>12, <1>13
    DEF CallGraphNext, OutOfSteps, GiveUpPropagating, Finish, GiveUpAfterDiscovery, vars, callVars

\* The same for every closed graph given.
LEMMA BelowClosedKept ==
  ASSUME Bookkeeping, TypeOK, SemiNaiveInvariant, BelowClosed,
         [CallGraphNext]_<<vars, callVars>>
  PROVE  BelowClosed'
  <1>1. graph' = graph /\ controls' = controls
    BY DEF CallGraphNext, Start, Propagate, OutOfSteps, GiveUpPropagating, Finish,
           GiveUpAfterDiscovery, ActivateAll, callVars
  <1> SUFFICES ASSUME NEW known \in ClosedGraphs,
                      known.graph = graph, known.controls = controls
               PROVE  Inside(known)'
    BY <1>1, Zenon DEF BelowClosed
  <1>2. ClosedAnswer(known) /\ Inside(known)
    BY ClosedGraphAnswers DEF BelowClosed
  <1> QED
    BY <1>2, InsideKept

\* At every moment the pass has bound only what every closed call graph of the
\* program binds, whatever the order of pops and the grouping into rounds; with
\* CallGraphClosed, a complete pass has bound the least closed call graph
\* (Refiner::run).
THEOREM CallGraphLeast == CallGraphSpec => []BoundsLeast
<1>1. CallGraphInit => BelowClosed
  BY EmptyBelow DEF CallGraphInit, Init, BelowClosed, Inside
<1>2. /\ Bookkeeping /\ TypeOK /\ SemiNaiveInvariant /\ BelowClosed
      /\ [CallGraphNext]_<<vars, callVars>>
      => BelowClosed'
  BY BelowClosedKept
<1>3. BelowClosed => BoundsLeast
  BY DEF BelowClosed, BoundsLeast, Inside
<1>4. CallGraphSpec => [](TypeOK /\ SemiNaiveInvariant)
  <2>1. CallGraphSpec => Spec
    BY SolverDriven DEF SolverSpec
  <2> QED
    BY <2>1, TypeCorrect, SemiNaiveCorrect, PTL
<1>5. Bookkeeping /\ [CallGraphNext]_<<vars, callVars>> => Bookkeeping'
  BY BookkeepingKept
<1> QED
  BY <1>1, <1>2, <1>3, <1>4, <1>5, BookkeepingStart, PTL DEF CallGraphSpec

(***************************************************************************)
(* Repetition.  A recursive function that repeats a step until nothing     *)
(* changes is not proved about by induction: it exists because every start *)
(* has a least set that is closed under the step, and it ends because a    *)
(* step that changes something goes down a finite order of sets.           *)
(***************************************************************************)
\* A function that repeats a step until nothing changes exists: follow the
\* step to the fixed point that every closed set holding the start contains.
Closed(X, step, C) == C \subseteq X /\ \A x \in C : step[x] \in C
Ends(X, step, x, y) ==
  /\ y \in X /\ step[y] = y
  /\ \A C \in SUBSET X : Closed(X, step, C) /\ x \in C => y \in C

\* A function that repeats a step until nothing changes exists.
LEMMA RepetitionExists ==
  ASSUME NEW X, NEW step \in [X -> X]
  PROVE  \E f : f = [x \in X |-> IF step[x] = x THEN x ELSE f[step[x]]]
  <1> DEFINE end(x) == CHOOSE y : Ends(X, step, x, y)
  <1>1. ASSUME NEW x \in X, step[x] = x PROVE end(x) = x
    <2>1. Ends(X, step, x, x)
      BY <1>1 DEF Ends
    <2>2. ASSUME NEW y, Ends(X, step, x, y) PROVE y = x
      <3>1. {x} \in SUBSET X /\ Closed(X, step, {x}) /\ x \in {x}
        BY <1>1 DEF Closed
      <3>2. y \in {x}
        BY <2>2, <3>1 DEF Ends
      <3> QED
        BY <3>2
    <2>3. (CHOOSE y : Ends(X, step, x, y)) = x
      BY <2>1, <2>2
    <2> QED
      BY <2>3
  <1>2. ASSUME NEW x \in X, step[x] # x PROVE end(x) = end(step[x])
    <2>1. ASSUME NEW y, Ends(X, step, step[x], y) PROVE Ends(X, step, x, y)
      BY <2>1 DEF Ends, Closed
    <2>2. ASSUME NEW y, Ends(X, step, x, y) PROVE Ends(X, step, step[x], y)
      <3>1. y \in X /\ step[y] = y /\ y # x
        BY <1>2, <2>2 DEF Ends
      <3>2. ASSUME NEW C \in SUBSET X, Closed(X, step, C), step[x] \in C
            PROVE  y \in C
        <4>1. C \cup {x} \in SUBSET X /\ Closed(X, step, C \cup {x}) /\ x \in C \cup {x}
          BY <3>2 DEF Closed
        <4>2. y \in C \cup {x}
          BY <2>2, <4>1 DEF Ends
        <4> QED
          BY <3>1, <4>2
      <3> QED
        BY <3>1, <3>2 DEF Ends
    <2>3. \A y : Ends(X, step, x, y) <=> Ends(X, step, step[x], y)
      BY <2>1, <2>2
    <2>4. (CHOOSE y : Ends(X, step, x, y)) = (CHOOSE y : Ends(X, step, step[x], y))
      BY <2>3, Zenon
    <2> QED
      BY <2>4
  <1> HIDE DEF end
  <1> DEFINE f == [x \in X |-> end(x)]
  <1>3. \A x \in X : f[x] = IF step[x] = x THEN x ELSE f[step[x]]
    BY <1>1, <1>2
  <1>4. f = [x \in X |-> IF step[x] = x THEN x ELSE f[step[x]]]
    BY <1>3
  <1> QED
    BY <1>4

\* Where every step within a set goes down a finite order, repeating it ends
\* at a fixed point inside the set.
LEMMA RepetitionEnds ==
  ASSUME NEW X, NEW step, NEW f, f = [x \in X |-> IF step[x] = x THEN x ELSE f[step[x]]],
         NEW G \in SUBSET X, \A x \in G : step[x] \in G,
         NEW U, IsFiniteSet(U), NEW left \in [X -> SUBSET U],
         \A x \in G : step[x] # x => left[step[x]] \subseteq left[x] /\ left[step[x]] # left[x],
         NEW start \in G
  PROVE  f[start] \in G /\ step[f[start]] = f[start]
  <1> DEFINE Good(x) == f[x] \in G /\ step[f[x]] = f[x]
             T == {left[x] : x \in {z \in G : ~Good(z)}}
             R == StrictSubsetOrdering(U)
  <1> SUFFICES ASSUME ~Good(start) PROVE FALSE
    OBVIOUS
  <1>1. IsWellFoundedOn(R, SUBSET U)
    <2>1. FiniteSubsetsOf(U) = SUBSET U
      BY FS_FiniteSubsetsOfFinite
    <2>2. IsWellFoundedOn(R, FiniteSubsetsOf(U))
      BY FS_StrictSubsetOrderingWellFounded, Zenon
    <2> HIDE DEF R
    <2> QED
      BY <2>1, <2>2, Zenon
  <1>2. T \subseteq SUBSET U /\ T # {}
    OBVIOUS
  <1> HIDE DEF T, R
  <1>3. PICK least \in T : \A y \in T : ~(<<y, least>> \in R)
    BY <1>1, <1>2, WFMin, Zenon
  <1>4. PICK x \in G : ~Good(x) /\ least = left[x]
    BY <1>3 DEF T
  <1>5. CASE step[x] = x
    <2>1. f[x] = x
      BY <1>4, <1>5
    <2> QED
      BY <1>4, <1>5, <2>1
  <1>6. CASE step[x] # x
    <2>1. f[x] = f[step[x]] /\ step[x] \in G
      BY <1>4, <1>6
    <2>2. ~Good(step[x])
      BY <1>4, <2>1
    <2>3. left[step[x]] \in T
      BY <2>1, <2>2 DEF T
    <2>4. <<left[step[x]], least>> \in R
      BY <1>2, <1>3, <1>4, <1>6, <2>1, <2>3 DEF R, StrictSubsetOrdering
    <2> QED
      BY <1>3, <2>3, <2>4
  <1> QED
    BY <1>5, <1>6

(***************************************************************************)
(* The naive solution: what each constraint asks for.                      *)
(***************************************************************************)
\* A cell paired with facts.
LEMMA OntoMember ==
  ASSUME NEW cell, NEW facts, NEW p
  PROVE  p \in Onto(cell, facts) <=> \E fact \in facts : p = <<cell, fact>>
  BY DEF Onto

\* What a join asks for, pointee by pointee.
AsksFor(join, v, o, p) ==
  \/ join[1] = "load" /\ \E fact \in At(v, o) : p = <<join[2], fact>>
  \/ join[1] = "gep" /\ p = <<join[3], RequestedField(o, join[2])>>
  \/ join[1] = "store" /\ join[2] \notin Regions /\ \E fact \in At(v, join[2]) : p = <<o, fact>>
  \/ join[1] = "store" /\ join[2] \in Regions
       /\ \/ p = <<o, join[2]>>
          \/ join[3] # NoLabel /\ p \in {<<o, join[3]>>, <<join[2], join[3]>>}

\* What a join asks for, over all its pointees.
LEMMA AskedByMember ==
  ASSUME NEW owner, NEW join \in Joins, NEW v, NEW p
  PROVE  p \in AskedBy(owner, join, v) <=>
           \E o \in PointeesOf(At(v, owner)) : AsksFor(join, v, o, p)
  <1> DEFINE ask(o) ==
        CASE join[1] = "load" -> Onto(join[2], At(v, o))
          [] join[1] = "gep" -> {<<join[3], RequestedField(o, join[2])>>}
          [] join[1] = "store" ->
               IF join[2] \notin Regions THEN Onto(o, At(v, join[2]))
               ELSE {<<o, join[2]>>} \cup
                    (IF join[3] = NoLabel THEN {} ELSE {<<o, join[3]>>, <<join[2], join[3]>>})
  <1>1. AskedBy(owner, join, v) = UNION {ask(o) : o \in PointeesOf(At(v, owner))}
    BY DEF AskedBy
  <1>2. join[1] \in {"load", "gep", "store"}
    BY JoinKinds
  <1>3. ASSUME NEW o PROVE p \in ask(o) <=> AsksFor(join, v, o, p)
    <2>1. CASE join[1] = "load"
      <3>1. ask(o) = Onto(join[2], At(v, o))
        BY <2>1
      <3> QED
        BY <2>1, <3>1, OntoMember DEF AsksFor
    <2>2. CASE join[1] = "gep"
      <3>1. ask(o) = {<<join[3], RequestedField(o, join[2])>>}
        BY <2>2
      <3> QED
        BY <2>2, <3>1 DEF AsksFor
    <2>3. CASE join[1] = "store" /\ join[2] \notin Regions
      <3>1. ask(o) = Onto(o, At(v, join[2]))
        BY <2>3
      <3> QED
        BY <2>3, <3>1, OntoMember DEF AsksFor
    <2>4. CASE join[1] = "store" /\ join[2] \in Regions
      <3>1. ask(o) = {<<o, join[2]>>} \cup
                    (IF join[3] = NoLabel THEN {} ELSE {<<o, join[3]>>, <<join[2], join[3]>>})
        BY <2>4
      <3> QED
        BY <2>4, <3>1 DEF AsksFor
    <2> QED
      BY <1>2, <2>1, <2>2, <2>3, <2>4
  <1> HIDE DEF ask
  <1>4. p \in UNION {ask(o) : o \in PointeesOf(At(v, owner))} <=>
          \E o \in PointeesOf(At(v, owner)) : p \in ask(o)
    BY Zenon
  <1> QED
    BY <1>1, <1>3, <1>4

\* What a memcpy asks for.
LEMMA BulkMember ==
  ASSUME NEW m, NEW v, NEW p
  PROVE  p \in Bulk(m, v) <=>
           \E t \in PointeesOf(At(v, Destination(m))) : \E o \in PointeesOf(At(v, Source(m))) :
             \E fact \in At(v, o) : p = <<t, fact>>
  <1> DEFINE contents == UNION {At(v, o) : o \in PointeesOf(At(v, Source(m)))}
  <1>1. p \in Bulk(m, v) <=> \E t \in PointeesOf(At(v, Destination(m))) : p \in Onto(t, contents)
    BY Zenon DEF Bulk
  <1>2. \A fact : fact \in contents <=> \E o \in PointeesOf(At(v, Source(m))) : fact \in At(v, o)
    BY Zenon
  <1> HIDE DEF contents
  <1> QED
    BY <1>1, <1>2, OntoMember

\* What a system asks for, constraint by constraint.
LEMMA AskedMember ==
  ASSUME NEW sys, NEW v, NEW p
  PROVE  p \in Asked(sys, v) <=>
           \/ p \in sys.addrs
           \/ \E r \in RegionsOf(sys) : p = <<r, r>>
           \/ \E e \in sys.copies : \E fact \in At(v, e[1]) : p = <<e[2], fact>>
           \/ \E j \in sys.joins : p \in AskedBy(j[1], j[2], v)
           \/ \E m \in sys.memcpys : p \in Bulk(m, v)
  <1>1. p \in (UNION {Onto(e[2], At(v, e[1])) : e \in sys.copies}) <=>
          \E e \in sys.copies : p \in Onto(e[2], At(v, e[1]))
    BY Zenon
  <1>2. p \in (UNION {AskedBy(j[1], j[2], v) : j \in sys.joins}) <=>
          \E j \in sys.joins : p \in AskedBy(j[1], j[2], v)
    BY Zenon
  <1>3. p \in (UNION {Bulk(m, v) : m \in sys.memcpys}) <=> \E m \in sys.memcpys : p \in Bulk(m, v)
    BY Zenon
  <1>4. p \in {<<r, r>> : r \in RegionsOf(sys)} <=> \E r \in RegionsOf(sys) : p = <<r, r>>
    OBVIOUS
  <1>5. \A e : p \in Onto(e[2], At(v, e[1])) <=> \E fact \in At(v, e[1]) : p = <<e[2], fact>>
    BY OntoMember
  <1> DEFINE copied == UNION {Onto(e[2], At(v, e[1])) : e \in sys.copies}
             joined == UNION {AskedBy(j[1], j[2], v) : j \in sys.joins}
             bulk == UNION {Bulk(m, v) : m \in sys.memcpys}
             own == {<<r, r>> : r \in RegionsOf(sys)}
  <1>6. Asked(sys, v) = sys.addrs \cup own \cup copied \cup joined \cup bulk
    BY DEF Asked
  <1>7. p \in Asked(sys, v) <=>
          p \in sys.addrs \/ p \in own \/ p \in copied \/ p \in joined \/ p \in bulk
    <2> HIDE DEF copied, joined, bulk, own
    <2> QED
      BY <1>6
  <1> QED
    BY <1>1, <1>2, <1>3, <1>4, <1>5, <1>7, Zenon

\* The objects a system accesses as a whole.
LEMMA AskedDirectMember ==
  ASSUME NEW sys, NEW v, NEW o
  PROVE  o \in AskedDirect(sys, v) <=>
           \/ \E j \in sys.joins : j[2][1] # "gep" /\ o \in At(v, j[1]) \cap Objects
           \/ \E m \in sys.memcpys :
                \/ o \in At(v, Destination(m)) \cap Objects
                \/ PointeesOf(At(v, Destination(m))) # {} /\ o \in At(v, Source(m)) \cap Objects
  <1> DEFINE byJoin(j) == IF j[2][1] = "gep" THEN {} ELSE At(v, j[1]) \cap Objects
             byMemcpy(m) == (At(v, Destination(m)) \cap Objects) \cup
              (IF PointeesOf(At(v, Destination(m))) = {} THEN {}
               ELSE At(v, Source(m)) \cap Objects)
  <1>1. AskedDirect(sys, v) = (UNION {byJoin(j) : j \in sys.joins})
                              \cup UNION {byMemcpy(m) : m \in sys.memcpys}
    BY DEF AskedDirect
  <1>2. \A j : o \in byJoin(j) <=> j[2][1] # "gep" /\ o \in At(v, j[1]) \cap Objects
    OBVIOUS
  <1>3. \A m : o \in byMemcpy(m) <=>
          \/ o \in At(v, Destination(m)) \cap Objects
          \/ PointeesOf(At(v, Destination(m))) # {} /\ o \in At(v, Source(m)) \cap Objects
    OBVIOUS
  <1> HIDE DEF byJoin, byMemcpy
  <1>4. o \in (UNION {byJoin(j) : j \in sys.joins}) <=> \E j \in sys.joins : o \in byJoin(j)
    BY Zenon
  <1>5. o \in (UNION {byMemcpy(m) : m \in sys.memcpys}) <=> \E m \in sys.memcpys : o \in byMemcpy(m)
    BY Zenon
  <1> DEFINE J == UNION {byJoin(j) : j \in sys.joins}
             M == UNION {byMemcpy(m) : m \in sys.memcpys}
  <1>6. o \in AskedDirect(sys, v) <=> o \in J \/ o \in M
    <2>1. AskedDirect(sys, v) = J \cup M
      BY <1>1
    <2> HIDE DEF J, M
    <2> QED
      BY <2>1
  <1> QED
    BY <1>2, <1>3, <1>4, <1>5, <1>6, Zenon

\* What one round of asking knows.
LEMMA AskingMember ==
  ASSUME NEW systems, NEW guess
  PROVE  LET next == Asking(systems, guess)
         IN  /\ \A o : o \in next.direct <=>
                  o \in guess.direct \/ \E sys \in systems : o \in AskedDirect(sys, guess.facts)
             /\ \A p : p \in next.facts <=>
                  \/ p \in guess.facts
                  \/ \E sys \in systems : p \in Asked(sys, guess.facts)
                  \/ \E e \in Overlapping(guess.fields, guess.direct) :
                       \E fact \in At(guess.facts, e[1]) : p = <<e[2], fact>>
             /\ \A x : x \in next.fields <=>
                  \/ x \in guess.fields
                  \/ \E o \in next.direct : x = UnknownField(o)
                  \/ x \in FieldCells /\ \E p \in next.facts : x = p[2]
             /\ next = [facts |-> next.facts, direct |-> next.direct, fields |-> next.fields]
  <1> DEFINE next == Asking(systems, guess)
             byDirect == UNION {AskedDirect(sys, guess.facts) : sys \in systems}
             bySystem == UNION {Asked(sys, guess.facts) : sys \in systems}
             overlaps == Overlapping(guess.fields, guess.direct)
             byStorage == UNION {Onto(e[2], At(guess.facts, e[1])) : e \in overlaps}
  <1>1. /\ next.direct = guess.direct \cup byDirect
        /\ next.facts = guess.facts \cup bySystem \cup byStorage
        /\ next.fields = guess.fields \cup {UnknownField(o) : o \in next.direct}
                           \cup ({a[2] : a \in next.facts} \cap FieldCells)
        /\ next = [facts |-> next.facts, direct |-> next.direct, fields |-> next.fields]
    BY DEF Asking
  <1>2. \A o : o \in byDirect <=> \E sys \in systems : o \in AskedDirect(sys, guess.facts)
    BY Zenon
  <1>3. \A p : p \in bySystem <=> \E sys \in systems : p \in Asked(sys, guess.facts)
    BY Zenon
  <1>4. \A p : p \in byStorage <=> \E e \in overlaps : p \in Onto(e[2], At(guess.facts, e[1]))
    BY Zenon
  <1> HIDE DEF next, byDirect, bySystem, byStorage, overlaps
  <1>5. \A p : p \in byStorage <=> \E e \in overlaps : \E fact \in At(guess.facts, e[1]) : p = <<e[2], fact>>
    BY <1>4, OntoMember
  <1>6. \A o : o \in next.direct <=>
           o \in guess.direct \/ \E sys \in systems : o \in AskedDirect(sys, guess.facts)
    BY <1>1, <1>2
  <1>7. \A p : p \in next.facts <=>
                  \/ p \in guess.facts
                  \/ \E sys \in systems : p \in Asked(sys, guess.facts)
                  \/ \E e \in overlaps : \E fact \in At(guess.facts, e[1]) : p = <<e[2], fact>>
    BY <1>1, <1>3, <1>5
  <1>8. \A x : x \in next.fields <=>
                  \/ x \in guess.fields
                  \/ \E o \in next.direct : x = UnknownField(o)
                  \/ x \in FieldCells /\ \E p \in next.facts : x = p[2]
    <2> DEFINE A == guess.fields
               B == {UnknownField(o) : o \in next.direct}
               E == {a[2] : a \in next.facts} \cap FieldCells
    <2>1. \A x : x \in B <=> \E o \in next.direct : x = UnknownField(o)
      OBVIOUS
    <2>2. \A x : x \in E <=> x \in FieldCells /\ \E p \in next.facts : x = p[2]
      OBVIOUS
    <2>3. next.fields = A \cup B \cup E
      BY <1>1, Zenon
    <2> HIDE DEF A, B, E
    <2>4. \A x : x \in next.fields <=> x \in A \/ x \in B \/ x \in E
      BY <2>3
    <2> QED
      BY <2>1, <2>2, <2>4, Zenon DEF A
  <1> QED
    BY <1>1, <1>6, <1>7, <1>8 DEF next, overlaps

(***************************************************************************)
(* Asking stays within what is typed and within every solution.            *)
(***************************************************************************)
\* The parts of a system are typed.
Typed(system) ==
  /\ system.addrs \subseteq ProgramCells \X Facts
  /\ system.copies \subseteq ProgramCells \X ProgramCells
  /\ system.joins \subseteq ProgramCells \X Joins
  /\ system.memcpys \subseteq Memcpys
AllTyped(systems) == \A system \in systems : Typed(system)

\* What the parts of a typed system relate.
LEMMA TypedParts ==
  ASSUME NEW system, Typed(system)
  PROVE  /\ system.addrs \subseteq Cells \X Facts /\ system.copies \subseteq Cells \X Cells
         /\ system.joins \subseteq Cells \X Joins /\ system.memcpys \subseteq Memcpys
         /\ RegionsOf(system) \subseteq Regions
  BY DEF Typed, RegionsOf, Cells

\* What is known of a cell.
LEMMA AtFacts ==
  ASSUME NEW v \in SUBSET (Cells \X Facts), NEW c, NEW f
  PROVE  /\ f \in At(v, c) <=> <<c, f>> \in v
         /\ At(v, c) \subseteq Facts
  BY DEF At

\* What a GEP asks for is a pointee.
LEMMA RequestedPointee ==
  ASSUME NEW o \in Pointees, NEW l \in Locations
  PROVE  RequestedField(o, l) \in FieldCells \cup Regions /\ RequestedField(o, l) \in Pointees
  <1>1. FieldOf(o, l, FieldCells) = RequestedField(o, l)
    BY DEF FieldOf, IsNewLane
  <1>2. FieldOf(o, l, FieldCells) \in FieldCells \cup Regions
    BY FieldOrRegion
  <1> QED
    BY <1>1, <1>2, CellKinds

\* A typed system asks for facts of cells, and accesses objects.
LEMMA AskedType ==
  ASSUME NEW sys, Typed(sys), NEW v \in SUBSET (Cells \X Facts)
  PROVE  Asked(sys, v) \subseteq Cells \X Facts /\ AskedDirect(sys, v) \subseteq Objects
  <1>1. /\ sys.addrs \subseteq Cells \X Facts /\ sys.copies \subseteq Cells \X Cells
        /\ sys.joins \subseteq Cells \X Joins /\ RegionsOf(sys) \subseteq Regions
        /\ Regions \subseteq Cells /\ Pointees \subseteq Cells /\ Pointees \subseteq Facts
        /\ Regions \subseteq Facts /\ Labels \subseteq Facts
    BY TypedParts, CellKinds DEF Facts
  <1>2. \A c : At(v, c) \subseteq Facts
    BY AtFacts
  <1>3. ASSUME NEW j \in sys.joins, NEW p \in AskedBy(j[1], j[2], v) PROVE p \in Cells \X Facts
    <2>1. j[2] \in Joins
      BY <1>1
    <2>2. PICK o \in PointeesOf(At(v, j[1])) : AsksFor(j[2], v, o, p)
      BY <1>3, <2>1, AskedByMember
    <2>3. o \in Pointees /\ o \in Cells
      BY <1>1 DEF PointeesOf
    <2> DEFINE join == j[2]
    <2>4. /\ join[1] = "load" => join[2] \in Cells
          /\ join[1] = "store" => join[2] \in Cells /\ join[3] \in Labels \cup {NoLabel}
          /\ join[1] = "gep" => join[2] \in Locations /\ join[3] \in Cells
      BY <2>1, JoinKinds
    <2>5. ASSUME join[1] = "gep" PROVE RequestedField(o, join[2]) \in Facts
      <3>1. RequestedField(o, join[2]) \in Pointees
        BY <2>3, <2>4, <2>5, RequestedPointee
      <3> QED
        BY <1>1, <3>1
    <2> HIDE DEF join
    <2>6. AsksFor(join, v, o, p)
      BY <2>2 DEF join
    <2> QED
      BY <1>1, <1>2, <2>3, <2>4, <2>5, <2>6 DEF AsksFor
  <1>4. ASSUME NEW m \in sys.memcpys, NEW p \in Bulk(m, v) PROVE p \in Cells \X Facts
    BY <1>1, <1>2, <1>4, BulkMember DEF PointeesOf
  <1>5. ASSUME NEW p \in Asked(sys, v) PROVE p \in Cells \X Facts
    BY <1>1, <1>2, <1>3, <1>4, <1>5, AskedMember
  <1>6. AskedDirect(sys, v) \subseteq Objects
    BY AskedDirectMember
  <1> QED
    BY <1>5, <1>6

\* A round of asking takes guesses to guesses.
LEMMA AskingType ==
  ASSUME NEW systems, AllTyped(systems), NEW guess \in Guesses
  PROVE  Asking(systems, guess) \in Guesses
  <1> DEFINE next == Asking(systems, guess)
  <1>1. guess.facts \in SUBSET (Cells \X Facts) /\ guess.fields \in SUBSET FieldCells
        /\ guess.direct \in SUBSET Objects
    BY DEF Guesses
  <1>2. /\ \A o : o \in next.direct <=>
                  o \in guess.direct \/ \E sys \in systems : o \in AskedDirect(sys, guess.facts)
        /\ \A p : p \in next.facts <=>
                  \/ p \in guess.facts
                  \/ \E sys \in systems : p \in Asked(sys, guess.facts)
                  \/ \E e \in Overlapping(guess.fields, guess.direct) :
                       \E fact \in At(guess.facts, e[1]) : p = <<e[2], fact>>
        /\ \A x : x \in next.fields <=>
                  \/ x \in guess.fields
                  \/ \E o \in next.direct : x = UnknownField(o)
                  \/ x \in FieldCells /\ \E p \in next.facts : x = p[2]
        /\ next = [facts |-> next.facts, direct |-> next.direct, fields |-> next.fields]
    BY AskingMember
  <1> HIDE DEF next
  <1>3. next.direct \subseteq Objects
    BY <1>1, <1>2, AskedType DEF AllTyped
  <1>4. next.facts \subseteq Cells \X Facts
    <2>1. Overlapping(guess.fields, guess.direct) \subseteq Cells \X Cells
      BY <1>1, OverlappingType, CellKinds
    <2>2. \A c : At(guess.facts, c) \subseteq Facts
      BY <1>1, AtFacts
    <2> QED
      BY <1>1, <1>2, <2>1, <2>2, AskedType DEF AllTyped
  <1>5. next.fields \subseteq FieldCells
    BY <1>1, <1>2, <1>3, CellKinds
  <1>6. next \in Guesses
    BY <1>2, <1>3, <1>4, <1>5 DEF Guesses
  <1> QED
    BY <1>6 DEF next

(***************************************************************************)
(* What is known is within a solution, and every field it holds is one.    *)
(***************************************************************************)
GuessWithin(guess, value, F, D) ==
  /\ \A p \in guess.facts : p[2] \in value[p[1]] /\ (p[2] \in FieldCells => p[2] \in F)
  /\ guess.fields \subseteq F
  /\ guess.direct \subseteq D

Grants(systems, value, F, D) ==
  /\ IsSolution(systems, value, F, D)
  /\ \A system \in systems : GrantsFields(system, value, F)

\* A join asks only for what a solution that refuses no field has.
LEMMA JoinAsksWithin ==
  ASSUME NEW owner, NEW join \in Joins, NEW v, NEW value, NEW F, NEW D,
         \A c : \A f \in At(v, c) : f \in value[c] /\ (f \in FieldCells => f \in F),
         JoinHolds(owner, join, value, F, D),
         join[1] = "gep" =>
           \A o \in value[owner] \cap Pointees : RequestedField(o, join[2]) \in F \cup Regions,
         NEW p \in AskedBy(owner, join, v)
  PROVE  p[2] \in value[p[1]] /\ (p[2] \in FieldCells => p[2] \in F)
  <1>1. PICK o \in PointeesOf(At(v, owner)) : AsksFor(join, v, o, p)
    BY AskedByMember
  <1>2. o \in value[owner] \cap Pointees
    BY DEF PointeesOf
  <1>3. join[1] \in {"load", "gep", "store"} /\ (join[1] = "store" => join[3] \in Labels \cup {NoLabel})
    BY JoinKinds
  <1>4. Regions \cap FieldCells = {} /\ Labels \cap FieldCells = {}
    BY DisjointAssumption, CellKinds
  <1>5. CASE join[1] = "load"
    BY <1>1, <1>2, <1>5 DEF AsksFor, JoinHolds
  <1>6. CASE join[1] = "gep"
    <2>1. RequestedField(o, join[2]) \in F \cup Regions
      BY <1>2, <1>6
    <2>2. FieldOf(o, join[2], F) = RequestedField(o, join[2])
      BY <1>4, <2>1 DEF FieldOf, IsNewLane
    <2>3. RequestedField(o, join[2]) \in value[join[3]]
      BY <1>2, <1>6, <2>2 DEF JoinHolds
    <2> QED
      BY <1>1, <1>4, <1>6, <2>1, <2>3 DEF AsksFor
  <1>7. CASE join[1] = "store" /\ join[2] \notin Regions
    BY <1>1, <1>2, <1>7 DEF AsksFor, JoinHolds
  <1>8. CASE join[1] = "store" /\ join[2] \in Regions
    <2>1. join[2] \in value[o] /\ (join[3] # NoLabel => join[3] \in value[o] \cap value[join[2]])
      BY <1>2, <1>8 DEF JoinHolds
    <2> QED
      BY <1>1, <1>3, <1>4, <1>8, <2>1 DEF AsksFor
  <1> QED
    BY <1>3, <1>5, <1>6, <1>7, <1>8

\* So does a whole system.
LEMMA SystemAsksWithin ==
  ASSUME NEW sys, Typed(sys), NEW v, NEW value, NEW F, NEW D,
         \A c : \A f \in At(v, c) : f \in value[c] /\ (f \in FieldCells => f \in F),
         Satisfies(sys, value, F, D), GrantsFields(sys, value, F)
  PROVE  /\ \A p \in Asked(sys, v) : p[2] \in value[p[1]] /\ (p[2] \in FieldCells => p[2] \in F)
         /\ AskedDirect(sys, v) \subseteq D
  <1>1. /\ sys.joins \subseteq Cells \X Joins /\ RegionsOf(sys) \subseteq Regions
        /\ Regions \cap FieldCells = {}
    BY TypedParts, DisjointAssumption
  <1>2. ASSUME NEW m \in sys.memcpys, NEW p \in Bulk(m, v)
        PROVE  p[2] \in value[p[1]] /\ (p[2] \in FieldCells => p[2] \in F)
    <2>1. PICK t \in PointeesOf(At(v, Destination(m))), o \in PointeesOf(At(v, Source(m))) :
            \E fact \in At(v, o) : p = <<t, fact>>
      BY <1>2, BulkMember
    <2>2. t \in value[Destination(m)] \cap Pointees /\ o \in value[Source(m)] \cap Pointees
      BY DEF PointeesOf
    <2>3. value[o] \subseteq value[t]
      BY <2>2 DEF Satisfies, MemcpyHolds
    <2> QED
      BY <2>1, <2>3
  <1>3. ASSUME NEW j \in sys.joins, NEW p \in AskedBy(j[1], j[2], v)
        PROVE  p[2] \in value[p[1]] /\ (p[2] \in FieldCells => p[2] \in F)
    <2>1. j[2] \in Joins /\ JoinHolds(j[1], j[2], value, F, D)
      BY <1>1 DEF Satisfies
    <2>2. j[2][1] = "gep" => \A o \in value[j[1]] \cap Pointees :
                               RequestedField(o, j[2][2]) \in F \cup Regions
      BY DEF GrantsFields
    <2> QED
      BY <1>3, <2>1, <2>2, JoinAsksWithin
  <1>4. ASSUME NEW p \in Asked(sys, v)
        PROVE  p[2] \in value[p[1]] /\ (p[2] \in FieldCells => p[2] \in F)
    <2>1. CASE p \in sys.addrs
      BY <2>1 DEF Satisfies, GrantsFields
    <2>2. CASE \E r \in RegionsOf(sys) : p = <<r, r>>
      BY <1>1, <2>2 DEF Satisfies
    <2>3. CASE \E e \in sys.copies : \E fact \in At(v, e[1]) : p = <<e[2], fact>>
      BY <2>3 DEF Satisfies
    <2> QED
      BY <1>2, <1>3, <1>4, <2>1, <2>2, <2>3, AskedMember
  <1>5. ASSUME NEW o \in AskedDirect(sys, v) PROVE o \in D
    <2>1. ASSUME NEW j \in sys.joins, j[2][1] # "gep", o \in At(v, j[1]) \cap Objects
          PROVE  o \in D
      <3>1. JoinHolds(j[1], j[2], value, F, D) /\ o \in value[j[1]] \cap Pointees /\ o \in Objects
        BY <2>1, CellKinds DEF Satisfies
      <3>2. DirectlyAccessed(value[j[1]] \cap Pointees, D)
        BY <2>1, <3>1 DEF JoinHolds
      <3> QED
        BY <3>1, <3>2 DEF DirectlyAccessed
    <2>2. ASSUME NEW m \in sys.memcpys, o \in At(v, Destination(m)) \cap Objects
          PROVE  o \in D
      BY <2>2, CellKinds DEF Satisfies, MemcpyHolds, DirectlyAccessed
    <2>3. ASSUME NEW m \in sys.memcpys, PointeesOf(At(v, Destination(m))) # {},
                 o \in At(v, Source(m)) \cap Objects
          PROVE  o \in D
      <3>1. value[Destination(m)] \cap Pointees # {}
        BY <2>3 DEF PointeesOf
      <3> QED
        BY <2>3, <3>1, CellKinds DEF Satisfies, MemcpyHolds, DirectlyAccessed
    <2> QED
      BY <1>5, <2>1, <2>2, <2>3, AskedDirectMember
  <1> QED
    BY <1>4, <1>5

\* A round of asking stays within every solution that refuses no field.
LEMMA AskingWithin ==
  ASSUME NEW systems, AllTyped(systems), NEW guess \in Guesses, NEW value, NEW F, NEW D,
         Grants(systems, value, F, D), GuessWithin(guess, value, F, D)
  PROVE  GuessWithin(Asking(systems, guess), value, F, D)
  <1> DEFINE next == Asking(systems, guess)
  <1>1. guess.facts \in SUBSET (Cells \X Facts) /\ guess.fields \in SUBSET FieldCells
        /\ guess.direct \in SUBSET Objects
    BY DEF Guesses
  <1>2. /\ \A o : o \in next.direct <=>
                  o \in guess.direct \/ \E sys \in systems : o \in AskedDirect(sys, guess.facts)
        /\ \A p : p \in next.facts <=>
                  \/ p \in guess.facts
                  \/ \E sys \in systems : p \in Asked(sys, guess.facts)
                  \/ \E e \in Overlapping(guess.fields, guess.direct) :
                       \E fact \in At(guess.facts, e[1]) : p = <<e[2], fact>>
        /\ \A x : x \in next.fields <=>
                  \/ x \in guess.fields
                  \/ \E o \in next.direct : x = UnknownField(o)
                  \/ x \in FieldCells /\ \E p \in next.facts : x = p[2]
    BY AskingMember
  <1> HIDE DEF next
  <1>3. \A c : \A f \in At(guess.facts, c) : f \in value[c] /\ (f \in FieldCells => f \in F)
    <2> TAKE c
    <2> TAKE f \in At(guess.facts, c)
    <2>1. <<c, f>> \in guess.facts
      BY <1>1, AtFacts
    <2>2. <<c, f>>[1] = c /\ <<c, f>>[2] = f
      OBVIOUS
    <2> QED
      BY <2>1, <2>2 DEF GuessWithin
  <1>4. ASSUME NEW sys \in systems
        PROVE  /\ \A p \in Asked(sys, guess.facts) :
                    p[2] \in value[p[1]] /\ (p[2] \in FieldCells => p[2] \in F)
               /\ AskedDirect(sys, guess.facts) \subseteq D
    <2>1. Typed(sys) /\ Satisfies(sys, value, F, D) /\ GrantsFields(sys, value, F)
      BY DEF Grants, IsSolution, AllTyped
    <2> QED
      BY <1>3, <2>1, SystemAsksWithin
  <1>5. StorageConsistent(value, F, D)
    BY DEF Grants, IsSolution
  <1>6. next.direct \subseteq D
    BY <1>2, <1>4 DEF GuessWithin
  <1>7. ASSUME NEW p \in next.facts
        PROVE  p[2] \in value[p[1]] /\ (p[2] \in FieldCells => p[2] \in F)
    <2>1. Overlapping(guess.fields, guess.direct) \subseteq Overlapping(F, D)
      BY DEF Overlapping, GuessWithin
    <2>2. \A e \in Overlapping(guess.fields, guess.direct) : value[e[1]] \subseteq value[e[2]]
      BY <1>5, <2>1 DEF StorageConsistent
    <2> QED
      BY <1>2, <1>3, <1>4, <1>7, <2>2 DEF GuessWithin
  <1>8. next.fields \subseteq F
    <2>1. \A o \in D : UnknownField(o) \in F
      BY <1>5 DEF StorageConsistent
    <2> QED
      BY <1>2, <1>6, <1>7, <2>1 DEF GuessWithin
  <1>9. GuessWithin(next, value, F, D)
    BY <1>6, <1>7, <1>8 DEF GuessWithin
  <1> QED
    BY <1>9 DEF next

(***************************************************************************)
(* When nothing more is asked, what is known is a solution.                *)
(***************************************************************************)
\* The table of what is known.
TableOf(facts) == [c \in Cells |-> At(facts, c)]

\* Nothing more is asked.
LEMMA JoinAnswered ==
  ASSUME NEW v \in SUBSET (Cells \X Facts), NEW owner \in Cells, NEW join \in Joins,
         NEW F \in SUBSET FieldCells, NEW D,
         \A p \in v : p[2] \in FieldCells => p[2] \in F,
         AskedBy(owner, join, v) \subseteq v,
         join[1] # "gep" => At(v, owner) \cap Objects \subseteq D
  PROVE  /\ JoinHolds(owner, join, TableOf(v), F, D)
         /\ join[1] = "gep" => \A o \in TableOf(v)[owner] \cap Pointees :
                                 RequestedField(o, join[2]) \in F \cup Regions
  <1>1. /\ \A c \in Cells : TableOf(v)[c] = At(v, c)
        /\ \A c, f : f \in At(v, c) <=> <<c, f>> \in v
    BY AtFacts DEF TableOf
  <1>2. /\ join[1] = "load" => join[2] \in Cells
        /\ join[1] = "store" => join[2] \in Cells /\ join[3] \in Labels \cup {NoLabel}
        /\ join[1] = "gep" => join[2] \in Locations /\ join[3] \in Cells
        /\ join[1] \in {"load", "store", "gep"}
    BY JoinKinds
  <1>3. Pointees \subseteq Cells /\ Regions \cap FieldCells = {} /\ Regions \subseteq Pointees
    BY CellKinds, DisjointAssumption
  <1>4. ASSUME NEW o \in TableOf(v)[owner] \cap Pointees, NEW p, AsksFor(join, v, o, p)
        PROVE  p \in v
    <2>1. o \in PointeesOf(At(v, owner))
      BY <1>1 DEF PointeesOf
    <2> QED
      BY <1>4, <2>1, AskedByMember
  <1>5. ASSUME join[1] # "gep" PROVE DirectlyAccessed(TableOf(v)[owner] \cap Pointees, D)
    BY <1>1, <1>5 DEF DirectlyAccessed
  <1>6. CASE join[1] = "load"
    <2>1. ASSUME NEW o \in TableOf(v)[owner] \cap Pointees PROVE TableOf(v)[o] \subseteq TableOf(v)[join[2]]
      <3> SUFFICES ASSUME NEW f \in At(v, o) PROVE f \in At(v, join[2])
        BY <1>1, <1>2, <1>3, <1>6
      <3>1. AsksFor(join, v, o, <<join[2], f>>)
        BY <1>6 DEF AsksFor
      <3> QED
        BY <1>1, <1>4, <3>1
    <2> QED
      BY <1>5, <1>6, <2>1 DEF JoinHolds
  <1>7. CASE join[1] = "gep"
    <2>1. ASSUME NEW o \in TableOf(v)[owner] \cap Pointees
          PROVE  /\ RequestedField(o, join[2]) \in F \cup Regions
                 /\ RequestedField(o, join[2]) \in TableOf(v)[join[3]]
                 /\ FieldOf(o, join[2], F) = RequestedField(o, join[2])
      <3> DEFINE cell == RequestedField(o, join[2])
      <3>1. AsksFor(join, v, o, <<join[3], cell>>)
        BY <1>7 DEF AsksFor
      <3>2. <<join[3], cell>> \in v
        BY <1>4, <3>1
      <3>3. cell \in FieldCells \cup Regions
        BY <1>2, <1>7, RequestedPointee
      <3> HIDE DEF cell
      <3>4. <<join[3], cell>>[2] = cell
        OBVIOUS
      <3>5. cell \in F \cup Regions
        BY <3>2, <3>3, <3>4
      <3>6. cell \in TableOf(v)[join[3]]
        BY <1>1, <1>2, <1>7, <3>2
      <3>7. FieldOf(o, join[2], F) = cell
        BY <1>3, <3>5 DEF FieldOf, IsNewLane, cell
      <3> QED
        BY <3>5, <3>6, <3>7 DEF cell
    <2> QED
      BY <1>7, <2>1 DEF JoinHolds
  <1>8. CASE join[1] = "store" /\ join[2] \notin Regions
    <2>1. ASSUME NEW o \in TableOf(v)[owner] \cap Pointees PROVE TableOf(v)[join[2]] \subseteq TableOf(v)[o]
      <3> SUFFICES ASSUME NEW f \in At(v, join[2]) PROVE f \in At(v, o)
        BY <1>1, <1>2, <1>3, <1>8
      <3>1. AsksFor(join, v, o, <<o, f>>)
        BY <1>8 DEF AsksFor
      <3> QED
        BY <1>1, <1>4, <3>1
    <2> QED
      BY <1>5, <1>8, <2>1 DEF JoinHolds
  <1>9. CASE join[1] = "store" /\ join[2] \in Regions
    <2>1. ASSUME NEW o \in TableOf(v)[owner] \cap Pointees
          PROVE  /\ join[2] \in TableOf(v)[o]
                 /\ join[3] # NoLabel => join[3] \in TableOf(v)[o] \cap TableOf(v)[join[2]]
      <3>1. AsksFor(join, v, o, <<o, join[2]>>)
        BY <1>9 DEF AsksFor
      <3>2. join[3] # NoLabel => /\ AsksFor(join, v, o, <<o, join[3]>>)
                                 /\ AsksFor(join, v, o, <<join[2], join[3]>>)
        BY <1>9 DEF AsksFor
      <3>3. o \in Cells /\ join[2] \in Cells
        BY <1>3, <1>9
      <3> QED
        BY <1>1, <1>4, <3>1, <3>2, <3>3
    <2> QED
      BY <1>5, <1>9, <2>1 DEF JoinHolds
  <1> QED
    BY <1>2, <1>6, <1>7, <1>8, <1>9

\* A system that asks for nothing more is satisfied.
LEMMA SystemAnswered ==
  ASSUME NEW v \in SUBSET (Cells \X Facts), NEW sys, Typed(sys),
         NEW F \in SUBSET FieldCells, NEW D,
         \A p \in v : p[2] \in FieldCells => p[2] \in F,
         Asked(sys, v) \subseteq v, AskedDirect(sys, v) \subseteq D
  PROVE  Satisfies(sys, TableOf(v), F, D) /\ GrantsFields(sys, TableOf(v), F)
  <1>1. /\ sys.addrs \subseteq Cells \X Facts /\ sys.copies \subseteq Cells \X Cells
        /\ sys.joins \subseteq Cells \X Joins /\ sys.memcpys \subseteq Memcpys
        /\ RegionsOf(sys) \subseteq Regions
        /\ Regions \subseteq Cells /\ Pointees \subseteq Cells
    BY TypedParts, CellKinds
  <1>2. /\ \A c \in Cells : TableOf(v)[c] = At(v, c)
        /\ \A c, f : f \in At(v, c) <=> <<c, f>> \in v
    BY AtFacts DEF TableOf
  <1>3. \A r \in RegionsOf(sys) : r \in TableOf(v)[r]
    <2> TAKE r \in RegionsOf(sys)
    <2>1. <<r, r>> \in v
      BY AskedMember
    <2> QED
      BY <1>1, <1>2, <2>1
  <1>4. \A a \in sys.addrs : a[2] \in TableOf(v)[a[1]]
    <2> TAKE a \in sys.addrs
    <2>1. a \in v /\ a = <<a[1], a[2]>> /\ a[1] \in Cells
      BY <1>1, AskedMember
    <2> QED
      BY <1>2, <2>1
  <1>5. \A e \in sys.copies : TableOf(v)[e[1]] \subseteq TableOf(v)[e[2]]
    <2> TAKE e \in sys.copies
    <2>1. e[1] \in Cells /\ e[2] \in Cells
      BY <1>1
    <2> SUFFICES ASSUME NEW f \in At(v, e[1]) PROVE f \in At(v, e[2])
      BY <1>2, <2>1
    <2>2. <<e[2], f>> \in Asked(sys, v)
      BY AskedMember
    <2> QED
      BY <1>2, <2>2
  <1>6. ASSUME NEW j \in sys.joins
        PROVE  /\ JoinHolds(j[1], j[2], TableOf(v), F, D)
               /\ j[2][1] = "gep" => \A o \in TableOf(v)[j[1]] \cap Pointees :
                                       RequestedField(o, j[2][2]) \in F \cup Regions
    <2>1. j[1] \in Cells /\ j[2] \in Joins
      BY <1>1
    <2>2. AskedBy(j[1], j[2], v) \subseteq v
      BY AskedMember
    <2>3. j[2][1] # "gep" => At(v, j[1]) \cap Objects \subseteq D
      BY AskedDirectMember
    <2> QED
      BY <2>1, <2>2, <2>3, JoinAnswered
  <1>7. ASSUME NEW m \in sys.memcpys PROVE MemcpyHolds(m, TableOf(v), D)
    <2> DEFINE targets == TableOf(v)[Destination(m)] \cap Pointees
               origins == TableOf(v)[Source(m)] \cap Pointees
    <2>1. Destination(m) \in Cells /\ Source(m) \in Cells
      BY <1>1, MemcpyCells
    <2>2. targets = PointeesOf(At(v, Destination(m))) /\ origins = PointeesOf(At(v, Source(m)))
      BY <1>2, <2>1 DEF PointeesOf
    <2>3. DirectlyAccessed(targets, D)
      BY <2>2, AskedDirectMember DEF DirectlyAccessed, PointeesOf
    <2>4. targets # {} => DirectlyAccessed(origins, D)
      BY <2>2, AskedDirectMember DEF DirectlyAccessed, PointeesOf
    <2>5. ASSUME NEW t \in targets, NEW o \in origins PROVE TableOf(v)[o] \subseteq TableOf(v)[t]
      <3>1. t \in Cells /\ o \in Cells
        BY <1>1
      <3> SUFFICES ASSUME NEW f \in At(v, o) PROVE f \in At(v, t)
        BY <1>2, <3>1
      <3>2. <<t, f>> \in Bulk(m, v)
        BY <2>2, BulkMember
      <3>3. <<t, f>> \in Asked(sys, v)
        BY <3>2, AskedMember
      <3> QED
        BY <1>2, <3>3
    <2> QED
      BY <2>3, <2>4, <2>5 DEF MemcpyHolds
  <1>8. \A a \in sys.addrs : a[2] \in FieldCells => a[2] \in F
    BY AskedMember
  <1> QED
    BY <1>3, <1>4, <1>5, <1>6, <1>7, <1>8 DEF Satisfies, GrantsFields

\* What asking leaves alone is a solution that refuses no field.
LEMMA AskingSolves ==
  ASSUME NEW systems, AllTyped(systems), NEW guess \in Guesses, Asking(systems, guess) = guess
  PROVE  Grants(systems, TableOf(guess.facts), guess.fields, guess.direct)
  <1> DEFINE v == guess.facts
  <1>1. v \in SUBSET (Cells \X Facts) /\ guess.fields \in SUBSET FieldCells
        /\ guess.direct \in SUBSET Objects
    BY DEF Guesses
  <1>2. /\ \A o : o \in guess.direct <=>
                  o \in guess.direct \/ \E sys \in systems : o \in AskedDirect(sys, guess.facts)
        /\ \A p : p \in guess.facts <=>
                  \/ p \in guess.facts
                  \/ \E sys \in systems : p \in Asked(sys, guess.facts)
                  \/ \E e \in Overlapping(guess.fields, guess.direct) :
                       \E fact \in At(guess.facts, e[1]) : p = <<e[2], fact>>
        /\ \A x : x \in guess.fields <=>
                  \/ x \in guess.fields
                  \/ \E o \in guess.direct : x = UnknownField(o)
                  \/ x \in FieldCells /\ \E p \in guess.facts : x = p[2]
    BY AskingMember
  <1>3. \A p \in v : p[2] \in FieldCells => p[2] \in guess.fields
    BY <1>2
  <1>4. ASSUME NEW sys \in systems
        PROVE  /\ Satisfies(sys, TableOf(v), guess.fields, guess.direct)
               /\ GrantsFields(sys, TableOf(v), guess.fields)
    <2>1. Asked(sys, v) \subseteq v /\ AskedDirect(sys, v) \subseteq guess.direct /\ Typed(sys)
      BY <1>2 DEF AllTyped
    <2> QED
      BY <1>1, <1>3, <2>1, SystemAnswered
  <1>5. StorageConsistent(TableOf(v), guess.fields, guess.direct)
    <2>1. \A o \in guess.direct : UnknownField(o) \in guess.fields
      BY <1>2
    <2>2. ASSUME NEW e \in Overlapping(guess.fields, guess.direct)
          PROVE  TableOf(v)[e[1]] \subseteq TableOf(v)[e[2]]
      <3>1. e[1] \in Cells /\ e[2] \in Cells
        BY <1>1, OverlappingType, CellKinds
      <3>2. /\ TableOf(v)[e[1]] = At(v, e[1]) /\ TableOf(v)[e[2]] = At(v, e[2])
            /\ \A c, f : f \in At(v, c) <=> <<c, f>> \in v
        BY <1>1, <3>1, AtFacts DEF TableOf
      <3>3. ASSUME NEW f \in At(v, e[1]) PROVE f \in At(v, e[2])
        <4>1. <<e[2], f>> \in guess.facts
          BY <1>2
        <4> QED
          BY <3>2, <4>1
      <3> QED
        BY <3>2, <3>3
    <2> QED
      BY <2>1, <2>2 DEF StorageConsistent
  <1> QED
    BY <1>4, <1>5 DEF Grants, IsSolution

(***************************************************************************)
(* The iteration ends, at the least solution that refuses no field.        *)
(***************************************************************************)
\* What is not known yet.
Everything == ({1} \X (Cells \X Facts)) \cup ({2} \X FieldCells) \cup ({3} \X Objects)
Unknown(guess) ==
  ({1} \X ((Cells \X Facts) \ guess.facts)) \cup ({2} \X (FieldCells \ guess.fields))
    \cup ({3} \X (Objects \ guess.direct))

\* There is only so much to know.
LEMMA EverythingFinite == IsFiniteSet(Everything)
  <1>1. IsFiniteSet(Cells) /\ IsFiniteSet(Labels)
    BY SolverAssumption, OracleAssumption
  <1>2. IsFiniteSet(Pointees) /\ IsFiniteSet(FieldCells) /\ IsFiniteSet(Objects)
    <2>1. FieldCells \subseteq Cells /\ Objects \subseteq Cells /\ Pointees \subseteq Cells
      BY CellKinds
    <2> QED
      BY <1>1, <2>1, FS_Subset
  <1>3. IsFiniteSet(Facts)
    BY <1>1, <1>2, FS_Union DEF Facts
  <1>4. IsFiniteSet(Cells \X Facts)
    BY <1>1, <1>3, FS_Product
  <1>5. IsFiniteSet({1}) /\ IsFiniteSet({2}) /\ IsFiniteSet({3})
    BY FS_Singleton
  <1>6. IsFiniteSet({1} \X (Cells \X Facts))
    BY <1>4, <1>5, FS_Product
  <1>7. IsFiniteSet({2} \X FieldCells) /\ IsFiniteSet({3} \X Objects)
    BY <1>2, <1>5, FS_Product
  <1> DEFINE A == {1} \X (Cells \X Facts)
             B == {2} \X FieldCells
             C == {3} \X Objects
  <1>8. IsFiniteSet(A) /\ IsFiniteSet(B) /\ IsFiniteSet(C)
    BY <1>6, <1>7
  <1>9. Everything = (A \cup B) \cup C
    BY DEF Everything
  <1> HIDE DEF A, B, C
  <1>10. IsFiniteSet(A \cup B)
    BY <1>8, FS_Union
  <1> QED
    BY <1>8, <1>9, <1>10, FS_Union

\* A round that learns something leaves less unknown.
LEMMA AskingShrinks ==
  ASSUME NEW systems, AllTyped(systems), NEW guess \in Guesses, Asking(systems, guess) # guess
  PROVE  /\ Unknown(Asking(systems, guess)) \subseteq Unknown(guess)
         /\ Unknown(Asking(systems, guess)) # Unknown(guess)
  <1> DEFINE next == Asking(systems, guess)
  <1>1. guess.facts \subseteq next.facts /\ guess.fields \subseteq next.fields
        /\ guess.direct \subseteq next.direct
    BY AskingMember
  <1>2. next \in Guesses
    BY AskingType
  <1> HIDE DEF next
  <1>3. Unknown(next) \subseteq Unknown(guess)
    BY <1>1 DEF Unknown
  <1>4. next # guess
    BY DEF next
  <1>5. next.facts # guess.facts \/ next.fields # guess.fields \/ next.direct # guess.direct
    BY <1>2, <1>4 DEF Guesses
  <1>6. CASE \E p : p \in next.facts /\ p \notin guess.facts
    <2>1. PICK p \in next.facts : p \notin guess.facts
      BY <1>6
    <2>2. p \in Cells \X Facts
      BY <1>2, <2>1 DEF Guesses
    <2>3. <<1, p>> \in Unknown(guess)
      BY <2>1, <2>2 DEF Unknown
    <2>4. <<1, p>> \notin Unknown(next)
      BY <2>1, <2>2 DEF Unknown
    <2> QED
      BY <1>3, <2>3, <2>4 DEF next
  <1>7. CASE \E x : x \in next.fields /\ x \notin guess.fields
    <2>1. PICK x \in next.fields : x \notin guess.fields
      BY <1>7
    <2>2. x \in FieldCells
      BY <1>2, <2>1 DEF Guesses
    <2>3. <<2, x>> \in Unknown(guess)
      BY <2>1, <2>2 DEF Unknown
    <2>4. <<2, x>> \notin Unknown(next)
      BY <2>1, <2>2 DEF Unknown
    <2> QED
      BY <1>3, <2>3, <2>4 DEF next
  <1>8. CASE \E o : o \in next.direct /\ o \notin guess.direct
    <2>1. PICK o \in next.direct : o \notin guess.direct
      BY <1>8
    <2>2. o \in Objects
      BY <1>2, <2>1 DEF Guesses
    <2>3. <<3, o>> \in Unknown(guess)
      BY <2>1, <2>2 DEF Unknown
    <2>4. <<3, o>> \notin Unknown(next)
      BY <2>1, <2>2 DEF Unknown
    <2> QED
      BY <1>3, <2>3, <2>4 DEF next
  <1> QED
    BY <1>1, <1>5, <1>6, <1>7, <1>8

\* The closure of the naive iteration satisfies its own equation.
Closure(systems) ==
  CHOOSE closure :
    closure = [guess \in Guesses |-> IF Asking(systems, guess) = guess THEN guess
                                     ELSE closure[Asking(systems, guess)]]
Nothing == [facts |-> {}, fields |-> {}, direct |-> {}]

\* The least solution is the table of the closure of nothing.
LEMMA LeastClosure ==
  ASSUME NEW systems
  PROVE  LET least == Closure(systems)[Nothing]
         IN  Least(systems) = [ value |-> TableOf(least.facts), fields |-> least.fields,
                                direct |-> least.direct ]
  BY DEF Least, Closure, Nothing, TableOf

\* Such a closure exists.
LEMMA ClosureEquation ==
  ASSUME NEW systems, AllTyped(systems)
  PROVE  Closure(systems) =
           [guess \in Guesses |-> IF Asking(systems, guess) = guess THEN guess
                                  ELSE Closure(systems)[Asking(systems, guess)]]
  <1> DEFINE step == [guess \in Guesses |-> Asking(systems, guess)]
  <1>1. step \in [Guesses -> Guesses]
    BY AskingType
  <1>2. \A guess \in Guesses : step[guess] = Asking(systems, guess)
    OBVIOUS
  <1> HIDE DEF step
  <1>3. PICK f : f = [guess \in Guesses |-> IF step[guess] = guess THEN guess ELSE f[step[guess]]]
    BY <1>1, RepetitionExists
  <1>4. f = [guess \in Guesses |-> IF Asking(systems, guess) = guess THEN guess
                                   ELSE f[Asking(systems, guess)]]
    <2>1. \A guess \in Guesses : (IF step[guess] = guess THEN guess ELSE f[step[guess]])
                   = (IF Asking(systems, guess) = guess THEN guess ELSE f[Asking(systems, guess)])
      BY <1>2
    <2> QED
      BY <1>3, <2>1
  <1> QED
    BY <1>4, Zenon DEF Closure

\* So it ends at a fixed point, within every set the rounds stay in.
LEMMA ClosureEnds ==
  ASSUME NEW systems, AllTyped(systems), NEW G \in SUBSET Guesses,
         \A guess \in G : Asking(systems, guess) \in G, NEW start \in G
  PROVE  LET end == Closure(systems)[start]
         IN  end \in G /\ Asking(systems, end) = end
  <1> DEFINE step == [guess \in Guesses |-> Asking(systems, guess)]
             f == Closure(systems)
             left == [guess \in Guesses |-> Unknown(guess)]
  <1>1. \A guess \in Guesses : step[guess] = Asking(systems, guess) /\ left[guess] = Unknown(guess)
    OBVIOUS
  <1>2. left \in [Guesses -> SUBSET Everything]
    <2>1. \A guess \in Guesses : Unknown(guess) \subseteq Everything
      BY DEF Unknown, Everything
    <2> QED
      BY <2>1
  <1> HIDE DEF step, left
  <1>3. f = [guess \in Guesses |-> IF step[guess] = guess THEN guess ELSE f[step[guess]]]
    <2>1. f = [guess \in Guesses |-> IF Asking(systems, guess) = guess THEN guess
                                     ELSE f[Asking(systems, guess)]]
      BY ClosureEquation
    <2> HIDE DEF f
    <2>2. \A guess \in Guesses : (IF step[guess] = guess THEN guess ELSE f[step[guess]])
                   = (IF Asking(systems, guess) = guess THEN guess ELSE f[Asking(systems, guess)])
      BY <1>1
    <2> QED
      BY <2>1, <2>2
  <1> HIDE DEF f
  <1>4. \A guess \in G : step[guess] \in G
    BY <1>1
  <1>5. \A guess \in G : step[guess] # guess =>
          left[step[guess]] \subseteq left[guess] /\ left[step[guess]] # left[guess]
    <2> SUFFICES ASSUME NEW guess \in G, step[guess] # guess
                 PROVE  left[step[guess]] \subseteq left[guess] /\ left[step[guess]] # left[guess]
      OBVIOUS
    <2>1. guess \in Guesses /\ step[guess] = Asking(systems, guess) /\ step[guess] \in Guesses
      BY <1>1, <1>4
    <2>2. Asking(systems, guess) # guess
      BY <2>1
    <2>3. Unknown(step[guess]) \subseteq Unknown(guess) /\ Unknown(step[guess]) # Unknown(guess)
      BY <2>1, <2>2, AskingShrinks
    <2> QED
      BY <1>1, <2>1, <2>3
  <1>6. f[start] \in G /\ step[f[start]] = f[start]
    BY <1>2, <1>3, <1>4, <1>5, EverythingFinite, RepetitionEnds
  <1> QED
    BY <1>1, <1>6 DEF f

\* The naive iteration ends at the least solution that refuses no field.
LEMMA LeastAnswers ==
  ASSUME NEW systems, AllTyped(systems)
  PROVE  LET sol == Least(systems)
         IN  /\ sol.value \in Tables(Facts)
             /\ sol.fields \in SUBSET FieldCells /\ sol.direct \in SUBSET Objects
             /\ Grants(systems, sol.value, sol.fields, sol.direct)
  <1> DEFINE least == Closure(systems)[Nothing]
             sol == Least(systems)
  <1>1. Nothing \in Guesses
    BY DEF Nothing, Guesses
  <1>2. \A guess \in Guesses : Asking(systems, guess) \in Guesses
    BY AskingType
  <1>3. least \in Guesses /\ Asking(systems, least) = least
    BY <1>1, <1>2, ClosureEnds
  <1>4. sol = [ value |-> TableOf(least.facts), fields |-> least.fields, direct |-> least.direct ]
    BY LeastClosure
  <1> HIDE DEF least, sol
  <1>5. Grants(systems, TableOf(least.facts), least.fields, least.direct)
    BY <1>3, AskingSolves
  <1>6. /\ least.facts \in SUBSET (Cells \X Facts) /\ least.fields \in SUBSET FieldCells
        /\ least.direct \in SUBSET Objects
    BY <1>3 DEF Guesses
  <1>7. \A c : At(least.facts, c) \subseteq Facts
    BY <1>6, AtFacts
  <1>8. TableOf(least.facts) \in Tables(Facts)
    BY <1>7 DEF TableOf, Tables
  <1>9. sol.value = TableOf(least.facts) /\ sol.fields = least.fields /\ sol.direct = least.direct
    BY <1>4
  <1>10. /\ sol.value \in Tables(Facts)
         /\ sol.fields \in SUBSET FieldCells /\ sol.direct \in SUBSET Objects
         /\ Grants(systems, sol.value, sol.fields, sol.direct)
    BY <1>5, <1>6, <1>8, <1>9
  <1> QED
    BY <1>10 DEF sol

\* It is within every solution that refuses no field.
LEMMA LeastBelow ==
  ASSUME NEW systems, AllTyped(systems), NEW value, NEW F, NEW D, Grants(systems, value, F, D)
  PROVE  /\ \A c \in Cells : Least(systems).value[c] \subseteq value[c]
         /\ Least(systems).fields \subseteq F /\ Least(systems).direct \subseteq D
  <1> DEFINE least == Closure(systems)[Nothing]
             sol == Least(systems)
             G == {guess \in Guesses : GuessWithin(guess, value, F, D)}
  <1>1. Nothing \in G
    BY DEF Nothing, Guesses, GuessWithin
  <1>2. \A guess \in G : Asking(systems, guess) \in G
    BY AskingType, AskingWithin
  <1>3. G \in SUBSET Guesses
    OBVIOUS
  <1> HIDE DEF G
  <1>4. least \in G
    BY <1>1, <1>2, <1>3, ClosureEnds
  <1>5. sol = [ value |-> TableOf(least.facts), fields |-> least.fields, direct |-> least.direct ]
    BY LeastClosure
  <1> HIDE DEF least, sol
  <1>6. sol.value = TableOf(least.facts) /\ sol.fields = least.fields /\ sol.direct = least.direct
    BY <1>5
  <1>7. GuessWithin(least, value, F, D) /\ least.facts \in SUBSET (Cells \X Facts)
    BY <1>4 DEF G, Guesses
  <1>8. ASSUME NEW c \in Cells, NEW f \in sol.value[c] PROVE f \in value[c]
    <2>1. f \in At(least.facts, c)
      BY <1>6, <1>8 DEF TableOf
    <2>2. <<c, f>> \in least.facts
      BY <1>7, <2>1, AtFacts
    <2>3. <<c, f>>[1] = c /\ <<c, f>>[2] = f
      OBVIOUS
    <2> QED
      BY <1>7, <2>2, <2>3 DEF GuessWithin
  <1>9. /\ \A c \in Cells : sol.value[c] \subseteq value[c]
        /\ sol.fields \subseteq F /\ sol.direct \subseteq D
    BY <1>6, <1>7, <1>8 DEF GuessWithin
  <1> QED
    BY <1>9 DEF sol

(***************************************************************************)
(* Tables of targets within what is known of the sites.                    *)
(***************************************************************************)
Sensible(g, targets) ==
  /\ targets \in TargetTables(g)
  /\ \A site \in g.scope :
       targets[site] \subseteq IF site \in Pinned(g) THEN Pin(g, site) ELSE Envelope(g, site)

\* The binding of a pair that a sensible table has is typed.
LEMMA BindingTyped ==
  ASSUME NEW g \in CallGraphs, NEW c \in Controls, NEW targets, Sensible(g, targets),
         NEW p \in Pairs(targets)
  PROVE  Typed(Binding(g, p[1], p[2]))
  <1> DEFINE system == Binding(g, p[1], p[2])
  <1>1. PICK site \in g.scope : \E f \in targets[site] : p = <<site, f>>
    BY PairsMember DEF Sensible, TargetTables
  <1> PICK f \in targets[site] : p = <<site, f>>
    BY <1>1
  <1>2. SolverProgram(g, c) \in Programs /\ Pinned(g) \subseteq g.scope
    BY GraphFacts
  <1>3. \E k \in Systems : Within(system, k)
    <2>1. CASE site \in Pinned(g)
      <3> DEFINE systems == {g.base} \cup BindingsOf(g, Initial(g, c))
      <3>1. f \in g.exact[site] \cap Functions
        BY <1>1, <2>1 DEF Sensible, Pin
      <3>2. p \in Initial(g, c)
        BY <1>1, <2>1, <3>1, InitialMember
      <3>3. system \in systems
        BY <3>2 DEF BindingsOf
      <3>4. SolverProgram(g, c).base = UnionOf(systems)
        BY DEF SolverProgram
      <3> HIDE DEF systems, system
      <3>5. Within(system, UnionOf(systems))
        BY <3>3, UnionCovers
      <3>6. UnionOf(systems) \in Systems
        BY <1>2, <3>4, SystemType
      <3> QED
        BY <3>5, <3>6
    <2>2. CASE site \notin Pinned(g)
      <3>1. f \in Envelope(g, site)
        BY <1>1, <2>2 DEF Sensible
      <3>2. {p} \in SUBSET Whole(g, g.scope \ Pinned(g))
        BY <1>1, <2>2, <3>1, WholeMember
      <3>3. UnionOf(BindingsOf(g, {p})) \in SolverProgram(g, c).calls
        BY <3>2 DEF SolverProgram
      <3>4. UnionOf(BindingsOf(g, {p})) \in Systems
        BY <1>2, <3>3, SystemType
      <3>5. Within(system, UnionOf(BindingsOf(g, {p})))
        BY BindingWithin
      <3> QED
        BY <3>4, <3>5
    <2> QED
      BY <2>1, <2>2
  <1>4. PICK k \in Systems : Within(system, k)
    BY <1>3
  <1>5. Typed(system)
    BY <1>4 DEF Within, Systems, Typed
  <1> QED
    BY <1>5

\* The base system and the bindings of a sensible table are typed.
LEMMA SystemsTyped ==
  ASSUME NEW g \in CallGraphs, NEW c \in Controls, NEW targets, Sensible(g, targets)
  PROVE  AllTyped(SystemsOf(g, targets))
  <1> SUFFICES ASSUME NEW system \in SystemsOf(g, targets) PROVE Typed(system)
    BY DEF AllTyped
  <1>1. CASE system = g.base
    <2> DEFINE systems == {g.base} \cup BindingsOf(g, Initial(g, c))
    <2>1. g.base \in systems
      OBVIOUS
    <2>2. SolverProgram(g, c).base = UnionOf(systems) /\ SolverProgram(g, c) \in Programs
      BY GraphFacts DEF SolverProgram
    <2> HIDE DEF systems
    <2>3. Within(g.base, UnionOf(systems)) /\ UnionOf(systems) \in Systems
      BY <2>1, <2>2, UnionCovers, SystemType
    <2> QED
      BY <1>1, <2>3 DEF Within, Systems, Typed
  <1>2. CASE \E p \in Pairs(targets) : system = Binding(g, p[1], p[2])
    BY <1>2, BindingTyped
  <1> QED
    BY <1>1, <1>2, SystemsMember

\* More bindings, more systems.
LEMMA SystemsGrow ==
  ASSUME NEW g, NEW less, NEW more, NEW scope, DOMAIN less = scope, DOMAIN more = scope,
         \A site \in scope : less[site] \subseteq more[site]
  PROVE  SystemsOf(g, less) \subseteq SystemsOf(g, more)
  <1>1. Pairs(less) \subseteq Pairs(more)
    BY PairsMember
  <1> QED
    BY <1>1 DEF SystemsOf, BindingsOf

\* The solution of a table is below every solution of a larger one.
LEMMA SolutionBelow ==
  ASSUME NEW g \in CallGraphs, NEW c \in Controls, NEW less, Sensible(g, less),
         NEW more, DOMAIN more = g.scope, \A site \in g.scope : less[site] \subseteq more[site],
         NEW value, NEW F, NEW D, Grants(SystemsOf(g, more), value, F, D)
  PROVE  /\ \A cell \in Cells : Solution(g, less).value[cell] \subseteq value[cell]
         /\ \A site \in g.scope :
              /\ OperandValue(g, Solution(g, less), site) \subseteq value[g.operand[site]]
              /\ Supported(g, Solution(g, less), site)
                   \subseteq Callable(value[g.operand[site]]) \cap Envelope(g, site)
              /\ Foreign(g, Solution(g, less), site)
                   => value[g.operand[site]] \cap CodeRegions # {}
  <1>1. SystemsOf(g, less) \subseteq SystemsOf(g, more)
    BY SystemsGrow DEF Sensible, TargetTables
  <1>2. Grants(SystemsOf(g, less), value, F, D)
    BY <1>1 DEF Grants, IsSolution
  <1>3. AllTyped(SystemsOf(g, less))
    BY SystemsTyped
  <1>4. \A cell \in Cells : Solution(g, less).value[cell] \subseteq value[cell]
    BY <1>2, <1>3, LeastBelow DEF Solution
  <1> SUFFICES ASSUME NEW site \in g.scope
               PROVE  /\ OperandValue(g, Solution(g, less), site) \subseteq value[g.operand[site]]
                      /\ Supported(g, Solution(g, less), site)
                           \subseteq Callable(value[g.operand[site]]) \cap Envelope(g, site)
                      /\ Foreign(g, Solution(g, less), site)
                           => value[g.operand[site]] \cap CodeRegions # {}
    BY <1>4
  <1>5. g.operand[site] \in Cells
    BY GraphFacts DEF Cells
  <1>6. OperandValue(g, Solution(g, less), site) \subseteq value[g.operand[site]]
    BY <1>4, <1>5 DEF OperandValue
  <1> QED
    BY <1>6, CallableGrows DEF Supported, Foreign

\* The solution of a sensible table.
LEMMA SolutionGrants ==
  ASSUME NEW g \in CallGraphs, NEW c \in Controls, NEW targets, Sensible(g, targets)
  PROVE  LET sol == Solution(g, targets)
         IN  /\ sol.value \in Tables(Facts)
             /\ sol.fields \in SUBSET FieldCells /\ sol.direct \in SUBSET Objects
             /\ Grants(SystemsOf(g, targets), sol.value, sol.fields, sol.direct)
  <1>1. AllTyped(SystemsOf(g, targets))
    BY SystemsTyped
  <1>2. LET sol == Least(SystemsOf(g, targets))
        IN  /\ sol.value \in Tables(Facts)
            /\ sol.fields \in SUBSET FieldCells /\ sol.direct \in SUBSET Objects
            /\ Grants(SystemsOf(g, targets), sol.value, sol.fields, sol.direct)
    BY <1>1, LeastAnswers, Zenon
  <1> QED
    BY <1>2 DEF Solution

(***************************************************************************)
(* The descending construction.                                            *)
(***************************************************************************)
AtMost(g, less, more) == \A site \in g.scope : less[site] \subseteq more[site]

\* A round of the descent gives a sensible table, row by row.
LEMMA StillSupportedTable ==
  ASSUME NEW g, NEW targets
  PROVE  /\ StillSupported(g, targets) \in TargetTables(g)
         /\ \A site \in g.scope : StillSupported(g, targets)[site] =
              IF site \in Pinned(g) THEN Pin(g, site)
              ELSE Supported(g, Solution(g, targets), site)
         /\ Sensible(g, StillSupported(g, targets))
  <1> DEFINE next == StillSupported(g, targets)
             row(site) == IF site \in Pinned(g) THEN Pin(g, site)
                          ELSE Supported(g, Solution(g, targets), site)
  <1>1. next = [site \in g.scope |-> row(site)]
    BY DEF StillSupported
  <1>2. \A site : row(site) \subseteq Functions
    BY DEF Pin, Supported, Callable
  <1>3. \A site : site \notin Pinned(g) => row(site) \subseteq Envelope(g, site)
    BY DEF Supported
  <1>4. \A site \in g.scope : next[site] = row(site)
    BY <1>1
  <1>5. next \in TargetTables(g)
    <2> HIDE DEF row, next
    <2> QED
      BY <1>1, <1>2 DEF TargetTables
  <1>6. Sensible(g, next)
    BY <1>3, <1>4, <1>5 DEF Sensible
  <1> QED
    BY <1>4, <1>5, <1>6

\* Fewer targets support fewer.
LEMMA StillSupportedMonotone ==
  ASSUME NEW g \in CallGraphs, NEW c \in Controls, NEW less, NEW more,
         Sensible(g, less), Sensible(g, more), AtMost(g, less, more)
  PROVE  AtMost(g, StillSupported(g, less), StillSupported(g, more))
  <1> DEFINE sol == Solution(g, more)
  <1>1. Grants(SystemsOf(g, more), sol.value, sol.fields, sol.direct) /\ DOMAIN more = g.scope
    BY SolutionGrants DEF Sensible, TargetTables
  <1> HIDE DEF sol
  <1>2. \A site \in g.scope : Supported(g, Solution(g, less), site)
             \subseteq Callable(sol.value[g.operand[site]]) \cap Envelope(g, site)
    BY <1>1, SolutionBelow DEF AtMost
  <1>3. \A site \in g.scope : Supported(g, Solution(g, less), site)
                                \subseteq Supported(g, Solution(g, more), site)
    BY <1>2 DEF Supported, OperandValue, sol
  <1> QED
    BY <1>3, StillSupportedTable DEF AtMost

\* A smaller table has fewer pairs.
LEMMA FewerPairs ==
  ASSUME NEW g, NEW less \in TargetTables(g), NEW more \in TargetTables(g),
         AtMost(g, less, more), less # more
  PROVE  Pairs(less) \subseteq Pairs(more) /\ Pairs(less) # Pairs(more)
  <1>1. Pairs(less) \subseteq Pairs(more)
    BY PairsMember DEF AtMost, TargetTables
  <1>2. PICK site \in g.scope : less[site] # more[site]
    BY DEF TargetTables
  <1>3. PICK f \in more[site] : f \notin less[site]
    BY <1>2 DEF AtMost
  <1>4. <<site, f>> \in Pairs(more)
    BY <1>3, PairsMember DEF TargetTables
  <1>5. <<site, f>> \notin Pairs(less)
    BY <1>3, PairsMember DEF TargetTables
  <1> QED
    BY <1>1, <1>4, <1>5

Descent(g) ==
  CHOOSE descend :
    descend = [targets \in TargetTables(g) |->
                 IF StillSupported(g, targets) = targets THEN targets
                 ELSE descend[StillSupported(g, targets)]]
Envelopes(g) ==
  [site \in g.scope |-> IF site \in Pinned(g) THEN Pin(g, site) ELSE Envelope(g, site)]

\* The oracle is where the descent from the envelopes ends.
LEMMA OracleDescent ==
  ASSUME NEW g
  PROVE  subtractive_oracle(g) = Descent(g)[Envelopes(g)]
  BY DEF subtractive_oracle, Descent, Envelopes

\* The descent satisfies its own equation.
LEMMA DescentEquation ==
  ASSUME NEW g
  PROVE  Descent(g) = [targets \in TargetTables(g) |->
                         IF StillSupported(g, targets) = targets THEN targets
                         ELSE Descent(g)[StillSupported(g, targets)]]
  <1> DEFINE X == TargetTables(g)
             step == [targets \in X |-> StillSupported(g, targets)]
  <1>1. step \in [X -> X]
    BY StillSupportedTable
  <1>2. \A targets \in X : step[targets] = StillSupported(g, targets)
    OBVIOUS
  <1> HIDE DEF step
  <1>3. PICK f : f = [targets \in X |-> IF step[targets] = targets THEN targets ELSE f[step[targets]]]
    BY <1>1, RepetitionExists
  <1>4. f = [targets \in X |-> IF StillSupported(g, targets) = targets THEN targets
                               ELSE f[StillSupported(g, targets)]]
    <2>1. \A targets \in X : (IF step[targets] = targets THEN targets ELSE f[step[targets]])
              = (IF StillSupported(g, targets) = targets THEN targets
                 ELSE f[StillSupported(g, targets)])
      BY <1>2
    <2> QED
      BY <1>3, <2>1
  <1> QED
    BY <1>4, Zenon DEF Descent

\* The oracle's answer is sensible, and its own solution supports it.
LEMMA OracleFixed ==
  ASSUME NEW g \in CallGraphs, NEW c \in Controls
  PROVE  LET oracle == subtractive_oracle(g)
         IN  Sensible(g, oracle) /\ StillSupported(g, oracle) = oracle
  <1> DEFINE X == TargetTables(g)
             U == g.scope \X Functions
             step == [targets \in X |-> StillSupported(g, targets)]
             left == [targets \in X |-> Pairs(targets)]
             f == Descent(g)
             G == {targets \in X : Sensible(g, targets) /\ AtMost(g, StillSupported(g, targets), targets)}
  <1>1. \A targets \in X : step[targets] = StillSupported(g, targets) /\ left[targets] = Pairs(targets)
    OBVIOUS
  <1>2. left \in [X -> SUBSET U]
    <2>1. \A targets \in X : Pairs(targets) \subseteq U
      BY PairsMember DEF TargetTables
    <2> QED
      BY <2>1
  <1>3. IsFiniteSet(U)
    <2>1. Functions \subseteq Cells
      BY CallGraphAssumption, CellKinds
    <2>2. IsFiniteSet(Functions) /\ IsFiniteSet(g.scope)
      BY <2>1, FS_Subset, SolverAssumption, GraphFacts
    <2> QED
      BY <2>2, FS_Product
  <1>4. Envelopes(g) \in G
    <2> DEFINE row(site) == IF site \in Pinned(g) THEN Pin(g, site) ELSE Envelope(g, site)
    <2>1. Envelopes(g) = [site \in g.scope |-> row(site)]
      BY DEF Envelopes
    <2>2. \A site \in g.scope : row(site) \subseteq Functions
      BY GraphFacts DEF Pin
    <2>3. Envelopes(g) \in X
      <3> HIDE DEF row
      <3> QED
        BY <2>1, <2>2 DEF TargetTables
    <2>4. Sensible(g, Envelopes(g))
      BY <2>1, <2>3 DEF Sensible
    <2>5. AtMost(g, StillSupported(g, Envelopes(g)), Envelopes(g))
      <3> SUFFICES ASSUME NEW site \in g.scope
                   PROVE  StillSupported(g, Envelopes(g))[site] \subseteq Envelopes(g)[site]
        BY DEF AtMost
      <3>1. Envelopes(g)[site] = row(site)
        BY <2>1
      <3>2. StillSupported(g, Envelopes(g))[site] =
              IF site \in Pinned(g) THEN Pin(g, site)
              ELSE Supported(g, Solution(g, Envelopes(g)), site)
        BY StillSupportedTable
      <3> QED
        BY <3>1, <3>2 DEF Supported
    <2> QED
      BY <2>3, <2>4, <2>5
  <1>5. \A targets \in G : StillSupported(g, targets) \in G
    <2> TAKE targets \in G
    <2>1. /\ StillSupported(g, targets) \in X /\ Sensible(g, StillSupported(g, targets))
          /\ Sensible(g, targets) /\ AtMost(g, StillSupported(g, targets), targets)
      BY StillSupportedTable
    <2>2. AtMost(g, StillSupported(g, StillSupported(g, targets)), StillSupported(g, targets))
      BY <2>1, StillSupportedMonotone
    <2> QED
      BY <2>1, <2>2
  <1>6. \A targets \in G : /\ targets \in X /\ StillSupported(g, targets) \in X
                           /\ AtMost(g, StillSupported(g, targets), targets)
    BY StillSupportedTable
  <1>7. \A targets \in G : Sensible(g, targets)
    OBVIOUS
  <1>13. G \in SUBSET X
    OBVIOUS
  <1> HIDE DEF step, left, G, U
  <1>8. f = [targets \in X |-> IF step[targets] = targets THEN targets ELSE f[step[targets]]]
    <2>1. f = [targets \in X |-> IF StillSupported(g, targets) = targets THEN targets
                                 ELSE f[StillSupported(g, targets)]]
      BY DescentEquation
    <2> HIDE DEF f
    <2>2. \A targets \in X : (IF step[targets] = targets THEN targets ELSE f[step[targets]])
              = (IF StillSupported(g, targets) = targets THEN targets
                 ELSE f[StillSupported(g, targets)])
      BY <1>1
    <2> QED
      BY <2>1, <2>2
  <1>9. \A targets \in G : step[targets] # targets =>
          left[step[targets]] \subseteq left[targets] /\ left[step[targets]] # left[targets]
    <2> SUFFICES ASSUME NEW targets \in G, step[targets] # targets
                 PROVE  left[step[targets]] \subseteq left[targets]
                        /\ left[step[targets]] # left[targets]
      OBVIOUS
    <2>1. /\ step[targets] = StillSupported(g, targets) /\ step[targets] \in X /\ targets \in X
          /\ AtMost(g, step[targets], targets)
      BY <1>1, <1>6
    <2>2. Pairs(step[targets]) \subseteq Pairs(targets) /\ Pairs(step[targets]) # Pairs(targets)
      BY <2>1, FewerPairs
    <2> QED
      BY <1>1, <2>1, <2>2
  <1>10. \A targets \in G : step[targets] \in G
    BY <1>1, <1>5, <1>6
  <1> HIDE DEF f, X
  <1>11. f[Envelopes(g)] \in G /\ step[f[Envelopes(g)]] = f[Envelopes(g)]
    BY <1>2, <1>3, <1>4, <1>8, <1>9, <1>10, <1>13, RepetitionEnds
  <1>12. subtractive_oracle(g) = f[Envelopes(g)]
    BY OracleDescent DEF f
  <1> QED
    BY <1>1, <1>6, <1>7, <1>11, <1>12

(***************************************************************************)
(* The ascending construction.                                             *)
(***************************************************************************)
WholeSites(g, c, sol) ==
  Eager(g, c) \cup {site \in g.scope : ~c.disable_eager_unknown /\ Foreign(g, sol, site)}

\* A round of the ascent gives a table, row by row.
LEMMA BoundTable ==
  ASSUME NEW g \in CallGraphs, NEW c \in Controls, NEW targets \in TargetTables(g)
  PROVE  /\ Bound(g, c, targets) \in TargetTables(g)
         /\ \A site \in g.scope : Bound(g, c, targets)[site] =
              IF site \in Pinned(g) THEN Pin(g, site)
              ELSE targets[site] \cup IF site \in WholeSites(g, c, Solution(g, targets))
                                        THEN Envelope(g, site)
                                        ELSE Supported(g, Solution(g, targets), site)
  <1> DEFINE sol == Solution(g, targets)
             next == Bound(g, c, targets)
             row(site) == IF site \in Pinned(g) THEN Pin(g, site)
                          ELSE targets[site] \cup IF site \in WholeSites(g, c, sol)
                                                    THEN Envelope(g, site)
                                                    ELSE Supported(g, sol, site)
  <1>1. next = [site \in g.scope |-> row(site)]
    BY DEF Bound, WholeSites
  <1>2. \A site \in g.scope : row(site) \subseteq Functions
    <2> TAKE site \in g.scope
    <2>1. /\ Pin(g, site) \subseteq Functions /\ Envelope(g, site) \subseteq Functions
          /\ Supported(g, sol, site) \subseteq Functions /\ targets[site] \subseteq Functions
      BY GraphFacts DEF Pin, Supported, TargetTables
    <2> HIDE DEF sol
    <2> QED
      BY <2>1
  <1>3. next \in TargetTables(g)
    <2> HIDE DEF row, next
    <2> QED
      BY <1>1, <1>2 DEF TargetTables
  <1>4. \A site \in g.scope : next[site] = row(site)
    BY <1>1
  <1> QED
    BY <1>3, <1>4

\* A round of the ascent only adds, within what is known of the sites.
LEMMA BoundGrows ==
  ASSUME NEW g \in CallGraphs, NEW c \in Controls, NEW targets, Sensible(g, targets)
  PROVE  Sensible(g, Bound(g, c, targets)) /\ AtMost(g, targets, Bound(g, c, targets))
  <1> DEFINE next == Bound(g, c, targets)
             sol == Solution(g, targets)
  <1>1. /\ next \in TargetTables(g)
        /\ \A site \in g.scope : next[site] =
              IF site \in Pinned(g) THEN Pin(g, site)
              ELSE targets[site] \cup IF site \in WholeSites(g, c, sol)
                                        THEN Envelope(g, site)
                                        ELSE Supported(g, sol, site)
    BY BoundTable DEF Sensible
  <1>2. \A site : Supported(g, sol, site) \subseteq Envelope(g, site)
    BY DEF Supported
  <1> HIDE DEF next, sol
  <1>3. Sensible(g, next) /\ AtMost(g, targets, next)
    BY <1>1, <1>2 DEF Sensible, AtMost
  <1> QED
    BY <1>3 DEF next

Ascent(g, c) ==
  CHOOSE ascend :
    ascend = [targets \in TargetTables(g) |->
                IF Bound(g, c, targets) = targets THEN targets
                ELSE ascend[Bound(g, c, targets)]]
Unbound(g) == [site \in g.scope |-> {}]

\* The least call graph is where the ascent from nothing ends.
LEMMA LeastAscent ==
  ASSUME NEW g, NEW c
  PROVE  LeastCallGraph(g, c) = Ascent(g, c)[Unbound(g)]
  BY DEF LeastCallGraph, Ascent, Unbound

\* The ascent satisfies its own equation.
LEMMA AscentEquation ==
  ASSUME NEW g \in CallGraphs, NEW c \in Controls
  PROVE  Ascent(g, c) = [targets \in TargetTables(g) |->
                           IF Bound(g, c, targets) = targets THEN targets
                           ELSE Ascent(g, c)[Bound(g, c, targets)]]
  <1> DEFINE X == TargetTables(g)
             step == [targets \in X |-> Bound(g, c, targets)]
  <1>1. step \in [X -> X]
    BY BoundTable
  <1>2. \A targets \in X : step[targets] = Bound(g, c, targets)
    OBVIOUS
  <1> HIDE DEF step
  <1>3. PICK f : f = [targets \in X |-> IF step[targets] = targets THEN targets ELSE f[step[targets]]]
    BY <1>1, RepetitionExists
  <1>4. f = [targets \in X |-> IF Bound(g, c, targets) = targets THEN targets
                               ELSE f[Bound(g, c, targets)]]
    <2>1. \A targets \in X : (IF step[targets] = targets THEN targets ELSE f[step[targets]])
              = (IF Bound(g, c, targets) = targets THEN targets ELSE f[Bound(g, c, targets)])
      BY <1>2
    <2> QED
      BY <1>3, <2>1
  <1> QED
    BY <1>4, Zenon DEF Ascent

\* The ascent ends at a fixed point, within every set of sensible tables that
\* binding stays in.
LEMMA AscentEnds ==
  ASSUME NEW g \in CallGraphs, NEW c \in Controls, NEW G \in SUBSET TargetTables(g),
         \A targets \in G : Sensible(g, targets) /\ Bound(g, c, targets) \in G,
         Unbound(g) \in G
  PROVE  LET least == LeastCallGraph(g, c)
         IN  least \in G /\ Bound(g, c, least) = least
  <1> DEFINE X == TargetTables(g)
             U == g.scope \X Functions
             step == [targets \in X |-> Bound(g, c, targets)]
             left == [targets \in X |-> U \ Pairs(targets)]
             f == Ascent(g, c)
  <1>1. \A targets \in X : step[targets] = Bound(g, c, targets) /\ left[targets] = U \ Pairs(targets)
    OBVIOUS
  <1>2. left \in [X -> SUBSET U]
    OBVIOUS
  <1>3. IsFiniteSet(U)
    <2>1. Functions \subseteq Cells
      BY CallGraphAssumption, CellKinds
    <2>2. IsFiniteSet(Functions) /\ IsFiniteSet(g.scope)
      BY <2>1, FS_Subset, SolverAssumption, GraphFacts
    <2> QED
      BY <2>2, FS_Product
  <1>4. \A targets \in X : Pairs(targets) \subseteq U
    BY PairsMember DEF TargetTables
  <1> HIDE DEF step, left, U
  <1>5. f = [targets \in X |-> IF step[targets] = targets THEN targets ELSE f[step[targets]]]
    <2>1. f = [targets \in X |-> IF Bound(g, c, targets) = targets THEN targets
                                 ELSE f[Bound(g, c, targets)]]
      BY AscentEquation
    <2> HIDE DEF f
    <2>2. \A targets \in X : (IF step[targets] = targets THEN targets ELSE f[step[targets]])
              = (IF Bound(g, c, targets) = targets THEN targets ELSE f[Bound(g, c, targets)])
      BY <1>1
    <2> QED
      BY <2>1, <2>2
  <1>6. \A targets \in G : step[targets] # targets =>
          left[step[targets]] \subseteq left[targets] /\ left[step[targets]] # left[targets]
    <2> SUFFICES ASSUME NEW targets \in G, step[targets] # targets
                 PROVE  left[step[targets]] \subseteq left[targets]
                        /\ left[step[targets]] # left[targets]
      OBVIOUS
    <2>1. /\ step[targets] = Bound(g, c, targets) /\ step[targets] \in X /\ targets \in X
          /\ AtMost(g, targets, step[targets])
      BY <1>1, BoundGrows
    <2>2. Pairs(targets) \subseteq Pairs(step[targets]) /\ Pairs(targets) # Pairs(step[targets])
      BY <2>1, FewerPairs
    <2>3. Pairs(step[targets]) \subseteq U
      BY <1>4, <2>1
    <2>4. left[targets] = U \ Pairs(targets) /\ left[step[targets]] = U \ Pairs(step[targets])
      BY <1>1, <2>1
    <2> QED
      BY <2>2, <2>3, <2>4
  <1>7. \A targets \in G : step[targets] \in G
    BY <1>1
  <1>8. G \in SUBSET X
    OBVIOUS
  <1> DEFINE start == Unbound(g)
  <1>11. start \in G
    OBVIOUS
  <1> HIDE DEF f, X, start
  <1>12. f[start] \in G /\ step[f[start]] = f[start]
    BY <1>2, <1>3, <1>5, <1>6, <1>7, <1>8, <1>11, RepetitionEnds
  <1>9. f[Unbound(g)] \in G /\ step[f[Unbound(g)]] = f[Unbound(g)]
    BY <1>12 DEF start
  <1>10. LeastCallGraph(g, c) = f[Unbound(g)]
    BY LeastAscent DEF f
  <1> QED
    BY <1>1, <1>8, <1>9, <1>10

\* The table with nothing bound is below every table.
LEMMA UnboundSensible ==
  ASSUME NEW g
  PROVE  Sensible(g, Unbound(g)) /\ \A more : AtMost(g, Unbound(g), more)
  BY DEF Unbound, Sensible, TargetTables, AtMost

\* The least call graph is a fixed point of binding.
LEMMA LeastFixed ==
  ASSUME NEW g \in CallGraphs, NEW c \in Controls
  PROVE  LET least == LeastCallGraph(g, c)
         IN  Sensible(g, least) /\ Bound(g, c, least) = least
  <1> DEFINE G == {targets \in TargetTables(g) : Sensible(g, targets)}
  <1>1. G \in SUBSET TargetTables(g) /\ Unbound(g) \in G
    BY UnboundSensible DEF Sensible
  <1>2. \A targets \in G : Sensible(g, targets) /\ Bound(g, c, targets) \in G
    BY BoundGrows DEF Sensible
  <1> HIDE DEF G
  <1>3. LeastCallGraph(g, c) \in G /\ Bound(g, c, LeastCallGraph(g, c)) = LeastCallGraph(g, c)
    BY <1>1, <1>2, AscentEnds
  <1> QED
    BY <1>3 DEF G

\* The constraints of a closed call graph, with a solution that refuses no
\* field.
Closes(g, c, targets, value, F, D) ==
  /\ targets \in TargetTables(g)
  /\ Grants(SystemsOf(g, targets), value, F, D)
  /\ \A site \in g.scope : SiteClosed(g, c, site, targets[site], value[g.operand[site]])

\* Binding what a smaller table supports stays within a closed call graph.
LEMMA BoundWithin ==
  ASSUME NEW g \in CallGraphs, NEW c \in Controls, NEW targets, NEW value, NEW F, NEW D,
         Closes(g, c, targets, value, F, D),
         NEW less, Sensible(g, less), AtMost(g, less, targets)
  PROVE  AtMost(g, Bound(g, c, less), targets)
  <1> DEFINE sol == Solution(g, less)
  <1> SUFFICES ASSUME NEW site \in g.scope PROVE Bound(g, c, less)[site] \subseteq targets[site]
    BY DEF AtMost
  <1>1. Bound(g, c, less)[site] =
              IF site \in Pinned(g) THEN Pin(g, site)
              ELSE less[site] \cup IF site \in WholeSites(g, c, sol) THEN Envelope(g, site)
                                   ELSE Supported(g, sol, site)
    BY BoundTable DEF Sensible
  <1>2. /\ Supported(g, sol, site) \subseteq Callable(value[g.operand[site]]) \cap Envelope(g, site)
        /\ Foreign(g, sol, site) => value[g.operand[site]] \cap CodeRegions # {}
    BY SolutionBelow DEF Closes, AtMost, TargetTables
  <1> HIDE DEF sol
  <1>3. SiteClosed(g, c, site, targets[site], value[g.operand[site]]) /\ less[site] \subseteq targets[site]
    BY DEF Closes, AtMost
  <1>4. CASE site \in Pinned(g)
    BY <1>1, <1>3, <1>4 DEF SiteClosed, Pin
  <1>5. CASE site \notin Pinned(g)
    <2>1. site \in WholeSites(g, c, sol) => Envelope(g, site) \subseteq targets[site]
      BY <1>2, <1>3, <1>5 DEF SiteClosed, WholeSites
    <2>2. Supported(g, sol, site) \subseteq targets[site]
      BY <1>2, <1>3, <1>5 DEF SiteClosed
    <2> QED
      BY <1>1, <1>3, <1>5, <2>1, <2>2
  <1> QED
    BY <1>4, <1>5

\* So the least call graph is within every closed one, and what an operand
\* holds in its solution too.
LEMMA LeastWithin ==
  ASSUME NEW g \in CallGraphs, NEW c \in Controls, NEW targets, NEW value, NEW F, NEW D,
         Closes(g, c, targets, value, F, D)
  PROVE  LET least == LeastCallGraph(g, c)
         IN  \A site \in g.scope :
               /\ least[site] \subseteq targets[site]
               /\ Foreign(g, Solution(g, least), site) => value[g.operand[site]] \cap CodeRegions # {}
  <1> DEFINE G == {less \in TargetTables(g) : Sensible(g, less) /\ AtMost(g, less, targets)}
             least == LeastCallGraph(g, c)
  <1>1. G \in SUBSET TargetTables(g) /\ Unbound(g) \in G
    BY UnboundSensible DEF Sensible
  <1>2. \A less \in G : Sensible(g, less) /\ Bound(g, c, less) \in G
    BY BoundGrows, BoundWithin DEF Sensible
  <1> HIDE DEF G
  <1>3. least \in G
    BY <1>1, <1>2, AscentEnds
  <1> HIDE DEF least
  <1>4. Sensible(g, least) /\ AtMost(g, least, targets)
    BY <1>3 DEF G
  <1>5. \A site \in g.scope :
          Foreign(g, Solution(g, least), site) => value[g.operand[site]] \cap CodeRegions # {}
    BY <1>4, SolutionBelow DEF Closes, AtMost, TargetTables
  <1> QED
    BY <1>4, <1>5 DEF AtMost, least

(***************************************************************************)
(* The two constructions as closed call graphs.                            *)
(***************************************************************************)
\* A table of targets with its solution.
Answer(g, c, targets) ==
  [ graph |-> g, controls |-> c, targets |-> targets,
    value |-> Solution(g, targets).value, fields |-> Solution(g, targets).fields,
    direct |-> Solution(g, targets).direct ]

\* A table whose sites are closed in its solution is a closed call graph.
LEMMA AnswerCloses ==
  ASSUME NEW g \in CallGraphs, NEW c \in Controls, NEW targets, Sensible(g, targets),
         WithinCap(Solution(g, targets).fields),
         \A site \in g.scope :
           SiteClosed(g, c, site, targets[site], Solution(g, targets).value[g.operand[site]])
  PROVE  ClosedAnswer(Answer(g, c, targets))
  <1> DEFINE sol == Solution(g, targets)
             known == Answer(g, c, targets)
  <1>1. /\ known.graph = g /\ known.controls = c /\ known.targets = targets
        /\ known.value = sol.value /\ known.fields = sol.fields /\ known.direct = sol.direct
    BY DEF Answer
  <1>2. /\ sol.value \in Tables(Facts)
        /\ sol.fields \in SUBSET FieldCells /\ sol.direct \in SUBSET Objects
        /\ Grants(SystemsOf(g, targets), sol.value, sol.fields, sol.direct)
    BY SolutionGrants
  <1>3. targets \in [g.scope -> SUBSET Functions]
    BY DEF Sensible, TargetTables
  <1>4. /\ WithinCap(sol.fields)
        /\ \A site \in g.scope :
             SiteClosed(g, c, site, targets[site], sol.value[g.operand[site]])
    OBVIOUS
  <1> HIDE DEF sol, known
  <1>5. /\ StorageConsistent(sol.value, sol.fields, sol.direct)
        /\ \A system \in SystemsOf(g, targets) :
             /\ Satisfies(system, sol.value, sol.fields, sol.direct)
             /\ GrantsFields(system, sol.value, sol.fields)
    BY <1>2 DEF Grants, IsSolution
  <1>6. ClosedAnswer(known)
    BY <1>1, <1>2, <1>3, <1>4, <1>5 DEF ClosedAnswer
  <1> QED
    BY <1>6 DEF known

\* The least call graph is closed.
LEMMA LeastCloses ==
  ASSUME NEW g \in CallGraphs, NEW c \in Controls
  PROVE  ClosedAnswer(Answer(g, c, LeastCallGraph(g, c)))
  <1> DEFINE least == LeastCallGraph(g, c)
             sol == Solution(g, least)
  <1>1. Sensible(g, least) /\ Bound(g, c, least) = least
    BY LeastFixed
  <1>2. WithinCap(sol.fields)
    BY OracleAssumption DEF WithinCap
  <1> HIDE DEF least
  <1>3. \A site \in g.scope : least[site] =
          IF site \in Pinned(g) THEN Pin(g, site)
          ELSE least[site] \cup IF site \in WholeSites(g, c, sol) THEN Envelope(g, site)
                                ELSE Supported(g, sol, site)
    BY <1>1, BoundTable DEF Sensible
  <1>4. \A site : sol.value[g.operand[site]] = OperandValue(g, sol, site)
    BY DEF OperandValue
  <1>5. ASSUME NEW site \in g.scope
        PROVE  SiteClosed(g, c, site, least[site], OperandValue(g, sol, site))
    <2>1. CASE site \in Pinned(g)
      BY <1>3, <2>1 DEF SiteClosed, Pin
    <2>2. CASE site \notin Pinned(g)
      <3>1. site \in WholeSites(g, c, sol) => Envelope(g, site) \subseteq least[site]
        BY <1>3, <2>2
      <3>2. Supported(g, sol, site) \subseteq least[site]
        <4>1. Supported(g, sol, site) \subseteq Envelope(g, site)
          BY DEF Supported
        <4> HIDE DEF sol
        <4> QED
          BY <1>3, <2>2, <4>1
      <3> HIDE DEF sol
      <3> QED
        BY <2>2, <3>1, <3>2 DEF SiteClosed, WholeSites, Foreign, Supported
    <2> QED
      BY <2>1, <2>2
  <1> HIDE DEF sol
  <1>6. \A site \in g.scope : SiteClosed(g, c, site, least[site], sol.value[g.operand[site]])
    BY <1>4, <1>5
  <1> QED
    BY <1>1, <1>2, <1>6, AnswerCloses DEF least, sol

\* The oracle's answer is closed where no site is eager.
LEMMA OracleCloses ==
  ASSUME NEW g \in CallGraphs, NEW c \in Controls, c.disable_eager_unknown
  PROVE  ClosedAnswer(Answer(g, c, subtractive_oracle(g)))
  <1> DEFINE oracle == subtractive_oracle(g)
             sol == Solution(g, oracle)
  <1>1. Sensible(g, oracle) /\ StillSupported(g, oracle) = oracle
    BY OracleFixed
  <1>2. WithinCap(sol.fields)
    BY OracleAssumption DEF WithinCap
  <1> HIDE DEF oracle
  <1>3. \A site \in g.scope : oracle[site] =
          IF site \in Pinned(g) THEN Pin(g, site) ELSE Supported(g, sol, site)
    BY <1>1, StillSupportedTable
  <1>4. \A site : sol.value[g.operand[site]] = OperandValue(g, sol, site)
    BY DEF OperandValue
  <1> HIDE DEF sol
  <1>5. ASSUME NEW site \in g.scope
        PROVE  SiteClosed(g, c, site, oracle[site], OperandValue(g, sol, site))
    BY <1>3 DEF SiteClosed, Pin, Supported, Eager
  <1>6. \A site \in g.scope : SiteClosed(g, c, site, oracle[site], sol.value[g.operand[site]])
    BY <1>4, <1>5
  <1> QED
    BY <1>1, <1>2, <1>6, AnswerCloses DEF oracle, sol

(***************************************************************************)
(* At rest the solver's answer refuses no field.                           *)
(***************************************************************************)
\* At rest, below a solution that grants every field, the solver has made
\* each field a system asks for.
LEMMA RestGrants ==
  ASSUME NEW s \in Solves, SemiNaive(s), s.worklist = {},
         NEW V, NEW F \in SUBSET FieldCells, NEW D, Below(s, V, F, D), WithinCap(F),
         NEW system \in Systems, Represented(s, system), SystemFields(system) \subseteq s.fields
  PROVE  GrantsFields(system, Value(s), s.fields)
  <1>1. \A a \in system.addrs : a[2] \in FieldCells => a[2] \in s.fields
    BY DEF SystemFields
  <1>2. ASSUME NEW j \in system.joins, j[2][1] = "gep",
               NEW o \in Value(s)[j[1]] \cap Pointees
        PROVE  RequestedField(o, j[2][2]) \in s.fields \cup Regions
    <2> DEFINE c == s.rep[j[1]]
               join == j[2]
               cell == RequestedField(o, join[2])
    <2>1. j[1] \in Cells /\ join \in Joins /\ c \in Cells
      BY SystemTypes DEF Solves
    <2>2. s.pend[c] = {} /\ s.pjoins[c] = {}
      BY <2>1, RestEdges
    <2>3. Value(s)[j[1]] = s.pts[c]
      BY <2>1 DEF Value
    <2>4. join \in s.joins[c]
      BY <2>2 DEF Represented
    <2>5. o \in PointeesOf(s.pts[c] \ s.pend[c]) /\ o \in PointeesOf(V[c])
      BY <2>1, <2>2, <2>3 DEF PointeesOf, Below
    <2>6. JoinDone(s, o, join)
      BY <2>1, <2>4, <2>5 DEF SemiNaive, JoinsConsumed
    <2>7. Licensed(c, join, V, F, D)
      BY <2>1, <2>4 DEF Below
    <2> HIDE DEF c, cell
    <2>8. cell \in F \cup Regions
      BY <1>2, <2>5, <2>7 DEF Licensed, cell
    <2>9. /\ FieldOf(o, join[2], s.fields) \in s.fields \cup Regions
          /\ IsNewLane(cell, s.fields) => Full(s.fields, Root(cell))
      BY <1>2, <2>6 DEF JoinDone, Settled, cell
    <2>10. ~IsNewLane(cell, s.fields)
      <3> SUFFICES ASSUME IsNewLane(cell, s.fields) PROVE FALSE
        OBVIOUS
      <3>1. cell \in F \ s.fields /\ LocationOf(cell) \in LaneLocations
        BY <2>8, DisjointAssumption DEF IsNewLane
      <3>2. s.fields \in SUBSET F
        BY DEF Below
      <3>3. ~Full(s.fields, Root(cell))
        BY <3>1, <3>2, RoomLeft
      <3> QED
        BY <2>9, <3>3
    <2>11. FieldOf(o, join[2], s.fields) = cell
      BY <2>10 DEF FieldOf, cell
    <2> QED
      BY <2>9, <2>11 DEF cell
  <1> QED
    BY <1>1, <1>2 DEF GrantsFields

\* The fields an installed system starts from are made.
FieldsMade == \A system \in installed : SystemFields(system) \subseteq solve.fields

\* No step of the solver loses a field.
LEMMA FieldsKept ==
  ASSUME TypeOK, SemiNaiveInvariant, FieldsMade, [Next]_vars
  PROVE  FieldsMade'
  <1>1. /\ solve \in Solves /\ program \in Programs /\ SemiNaive(solve)
    BY DEF TypeOK, SemiNaiveInvariant
  <1>2. ASSUME NEW system \in {program.base} \cup program.calls, Add(system)
        PROVE  FieldsMade'
    <2>1. PICK chosen \in SUBSET system.memcpys :
            IsNewSelection(solve, system, chosen) /\ solve' = Install(solve, system, chosen)
      BY <1>2 DEF Add
    <2>2. Grown(solve, solve')
      BY <1>1, <2>1, InstallKeeps
    <2>3. SystemFields(system) \subseteq solve'.fields
      <3> DEFINE u == Registered(solve, system, chosen)
      <3>1. u \in Solves
        BY <1>1, SystemType, RegisteredType
      <3>2. solve'.fields = FieldsAfter(u, {}, SystemFields(system))
        BY <2>1, <3>1 DEF Install, Absorb, Solves
      <3> QED
        BY <3>2 DEF FieldsAfter
    <2>4. installed' = installed \cup {system}
      BY <1>2 DEF Add
    <2> QED
      BY <2>2, <2>3, <2>4 DEF FieldsMade, Grown
  <1>3. CASE Build
    BY <1>2, <1>3 DEF Build
  <1>4. ASSUME NEW system \in program.calls, Resume(system)
        PROVE  FieldsMade'
    BY <1>2, <1>4 DEF Resume
  <1>5. ASSUME NEW n \in solve.worklist, Pop(n)
        PROVE  FieldsMade'
    <2>1. n \in Cells /\ installed' = installed
      BY <1>1, <1>5 DEF Solves, Pop
    <2>2. PICK early, late :
            /\ Admitted(solve, n, early, late)
            /\ \/ solve' = BulkCopy(Join(solve, n, early, late), n)
               \/ solve' = CollapseCopySccs(BulkCopy(Join(solve, n, early, late), n))
      BY <1>5, PopCases
    <2> DEFINE joined == Join(solve, n, early, late)
               processed == BulkCopy(joined, n)
    <2>3. processed \in Solves
      BY <1>1, <2>1, JoinType, PopType
    <2>4. Grown(solve, joined)
      BY <1>1, <2>1, <2>2, JoinGrows
    <2>5. Grown(joined, processed)
      BY <1>1, <2>1, <2>2, ProcessedKeeps
    <2>6. solve' = processed \/ solve' = CollapseCopySccs(processed)
      BY <2>2
    <2> HIDE DEF joined, processed
    <2>7. solve.fields \subseteq processed.fields
      BY <2>4, <2>5 DEF Grown
    <2>8. solve'.fields = processed.fields
      BY <2>3, <2>6, CollapseFieldsKept
    <2> QED
      BY <2>1, <2>7, <2>8 DEF FieldsMade
  <1>6. CASE UNCHANGED vars
    BY <1>6 DEF vars, FieldsMade
  <1> QED
    BY <1>3, <1>4, <1>5, <1>6 DEF Next

\* The solver always has the fields its systems start from.
LEMMA FieldsCorrect == Spec => []FieldsMade
<1>1. Init => FieldsMade
  BY DEF Init, FieldsMade
<1>2. TypeOK /\ SemiNaiveInvariant /\ FieldsMade /\ [Next]_vars => FieldsMade'
  BY FieldsKept
<1> QED
  BY <1>1, <1>2, TypeCorrect, SemiNaiveCorrect, PTL DEF Spec

(***************************************************************************)
(* The pass beside the two constructions.                                  *)
(***************************************************************************)
\* What is kept beside the pass is what the definitions say of its program.
ReferenceRight ==
  /\ reference.least = LeastCallGraph(graph, controls)
  /\ reference.oracle = subtractive_oracle(graph)
  /\ reference.foreign =
       {site \in graph.scope : Foreign(graph, Solution(graph, reference.least), site)}

\* The pass is within the least call graph, and within the oracle's when no
\* site is eager.
InsideBoth ==
  \A g \in CallGraphs, c \in Controls :
    g = graph /\ c = controls =>
      /\ Inside(Answer(g, c, LeastCallGraph(g, c)))
      /\ c.disable_eager_unknown => Inside(Answer(g, c, subtractive_oracle(g)))

\* A published row is Steensgaard's, or says what the pass bound and whether
\* the operand may hold foreign code.
RowSound(site) ==
  \/ rows[site] = BaseRow(site)
  \/ /\ outcome = "complete" /\ rows[site].targets = activated[site]
     /\ ~rows[site].unknown_callee => ~OperandUnknown(site)
RowsSound == ~Running => \A site \in graph.scope \ Pinned(graph) : RowSound(site)

OracleInv == ReferenceRight /\ InsideBoth /\ RowsSound

\* The invariant holds initially.
LEMMA OracleStart ==
  ASSUME OracleInit
  PROVE  OracleInv
  <1>1. CallGraphInit
    BY DEF OracleInit
  <1>2. ReferenceRight
    BY DEF OracleInit, ReferenceRight
  <1>3. ASSUME NEW known, known.graph = graph, NEW more, more = known.targets
        PROVE  Inside(known)
    <2>1. Below(solve, WithSummaries(known.value), known.fields, known.direct)
      BY <1>1, EmptyBelow DEF CallGraphInit, Init
    <2>2. \A site \in graph.scope : activated[site] = {}
      BY <1>1 DEF CallGraphInit
    <2> QED
      BY <2>1, <2>2 DEF Inside
  <1>4. \A g, c, targets : Answer(g, c, targets).graph = g
    BY DEF Answer
  <1>5. InsideBoth
    BY <1>3, <1>4 DEF InsideBoth
  <1> QED
    BY <1>1, <1>2, <1>5 DEF OracleInv, RowsSound, CallGraphInit, Running

\* Every step keeps the pass within both.
LEMMA InsideBothKept ==
  ASSUME Bookkeeping, TypeOK, SemiNaiveInvariant, InsideBoth, [CallGraphNext]_<<vars, callVars>>
  PROVE  InsideBoth'
  <1>1. graph' = graph /\ controls' = controls
    BY DEF CallGraphNext, Start, Propagate, OutOfSteps, GiveUpPropagating, Finish,
           GiveUpAfterDiscovery, ActivateAll, callVars
  <1>2. ASSUME NEW g \in CallGraphs, NEW c \in Controls, g = graph, c = controls,
               NEW CONSTANT targets, ClosedAnswer(Answer(g, c, targets)), Inside(Answer(g, c, targets))
        PROVE  Inside(Answer(g, c, targets))'
    <2> DEFINE known == Answer(g, c, targets)
    <2>1. known.graph = graph /\ known.controls = controls
      BY <1>2 DEF Answer
    <2>2. ClosedAnswer(known) /\ Inside(known)
      BY <1>2
    <2> HIDE DEF known
    <2>3. Inside(known)'
      BY <2>1, <2>2, InsideKept
    <2> QED
      BY <2>3 DEF known
  <1> SUFFICES ASSUME NEW g \in CallGraphs, NEW c \in Controls, g = graph, c = controls
               PROVE  /\ Inside(Answer(g, c, LeastCallGraph(g, c)))'
                      /\ c.disable_eager_unknown => Inside(Answer(g, c, subtractive_oracle(g)))'
    BY <1>1, Zenon DEF InsideBoth
  <1>3. /\ Inside(Answer(g, c, LeastCallGraph(g, c)))
        /\ c.disable_eager_unknown => Inside(Answer(g, c, subtractive_oracle(g)))
    BY Zenon DEF InsideBoth
  <1>4. Inside(Answer(g, c, LeastCallGraph(g, c)))'
    BY <1>2, <1>3, LeastCloses
  <1>5. ASSUME c.disable_eager_unknown PROVE Inside(Answer(g, c, subtractive_oracle(g)))'
    BY <1>2, <1>3, <1>5, OracleCloses
  <1> QED
    BY <1>4, <1>5

\* Rows are published once, and the operands they speak of stay as they were.
LEMMA RowsKept ==
  ASSUME Bookkeeping, RowsSound, [CallGraphNext]_<<vars, callVars>>
  PROVE  RowsSound'
  <1>1. graph \in CallGraphs /\ graph' = graph
    BY DEF Bookkeeping, GraphKept, CallGraphNext, Start, Propagate, OutOfSteps, GiveUpPropagating,
           Finish, GiveUpAfterDiscovery, ActivateAll, callVars
  <1>2. \A site \in graph.scope \ Pinned(graph) : site \in SitesOf(graph) \ DOMAIN graph.exact
    BY <1>1, CallGraphAssumption DEF Pinned
  <1>3. \A site : Pinned(graph)' = Pinned(graph) /\ BaseRow(site)' = BaseRow(site)
    BY <1>1 DEF Pinned, BaseRow
  <1>4. CASE rows' = ExhaustedRows
    <2>1. \A site \in graph.scope \ Pinned(graph) : rows'[site] = BaseRow(site)
      BY <1>2, <1>4 DEF ExhaustedRows, Patched
    <2> QED
      BY <1>1, <1>3, <2>1 DEF RowsSound, RowSound
  <1>5. CASE Finish
    <2>1. /\ rows' = CompleteRows /\ outcome' = "complete" /\ activated' = activated
          /\ solve' = solve
      BY <1>5 DEF Finish, vars
    <2>2. ASSUME NEW site \in graph.scope \ Pinned(graph)
          PROVE  RowSound(site)'
      <3>1. rows'[site] = RefinedRow(site)
        BY <1>2, <2>1 DEF CompleteRows, Patched
      <3>2. OperandUnknown(site)' <=> OperandUnknown(site)
        BY <1>1, <2>1 DEF OperandUnknown, OperandFacts
      <3>3. \/ RefinedRow(site) = BaseRow(site)
            \/ /\ RefinedRow(site).targets = activated[site]
               /\ ~RefinedRow(site).unknown_callee => ~OperandUnknown(site)
        BY DEF RefinedRow, Row
      <3> QED
        BY <1>3, <2>1, <3>1, <3>2, <3>3 DEF RowSound
    <2> QED
      BY <1>1, <1>3, <2>2 DEF RowsSound
  <1>6. CASE Running /\ outcome' = outcome
    BY <1>6 DEF RowsSound, Running
  <1>7. CASE UNCHANGED <<vars, callVars>>
    <2>1. UNCHANGED <<graph, controls, activated, outcome, rows, solve>>
      BY <1>7 DEF vars, callVars
    <2> QED
      BY <1>3, <2>1 DEF RowsSound, RowSound, Running, OperandUnknown, OperandFacts
  <1>8. CASE Start \/ (\E n \in solve.worklist : Propagate(n))
    BY <1>6, <1>8 DEF Start, Propagate
  <1>9. CASE OutOfSteps \/ GiveUpPropagating \/ GiveUpAfterDiscovery
    BY <1>4, <1>9 DEF OutOfSteps, GiveUpPropagating, GiveUpAfterDiscovery, Exhaust
  <1>10. CASE ActivateAll
    BY <1>4, <1>6, <1>10 DEF ActivateAll, AtFixedPoint, Exhaust
  <1> QED
    BY <1>5, <1>7, <1>8, <1>9, <1>10 DEF CallGraphNext

\* Every step keeps the invariant.
LEMMA OracleKept ==
  ASSUME Bookkeeping, TypeOK, SemiNaiveInvariant, OracleInv,
         [OracleNext]_<<vars, callVars, reference>>
  PROVE  OracleInv'
  <1>1. [CallGraphNext]_<<vars, callVars>> /\ reference' = reference
    BY DEF OracleNext
  <1>2. graph' = graph /\ controls' = controls
    BY <1>1 DEF CallGraphNext, Start, Propagate, OutOfSteps, GiveUpPropagating, Finish,
                GiveUpAfterDiscovery, ActivateAll, callVars
  <1>3. ReferenceRight'
    BY <1>1, <1>2 DEF OracleInv, ReferenceRight
  <1>4. InsideBoth' /\ RowsSound'
    BY <1>1, InsideBothKept, RowsKept DEF OracleInv
  <1> QED
    BY <1>3, <1>4 DEF OracleInv

\* The comparison leaves the pass alone.
LEMMA OracleDrives == OracleSpec => CallGraphSpec /\ []OracleInv
<1>1. OracleInit => CallGraphInit
  BY DEF OracleInit
<1>2. [OracleNext]_<<vars, callVars, reference>> => [CallGraphNext]_<<vars, callVars>>
  BY DEF OracleNext
<1>3. OracleSpec => CallGraphSpec
  BY <1>1, <1>2, PTL DEF OracleSpec, CallGraphSpec
<1>4. CallGraphSpec => [](TypeOK /\ SemiNaiveInvariant)
  <2>1. CallGraphSpec => Spec
    BY SolverDriven DEF SolverSpec
  <2> QED
    BY <2>1, TypeCorrect, SemiNaiveCorrect, PTL
<1>5. Bookkeeping /\ [CallGraphNext]_<<vars, callVars>> => Bookkeeping'
  BY BookkeepingKept
<1>6. CallGraphSpec => []Bookkeeping
  BY <1>5, BookkeepingStart, PTL DEF CallGraphSpec
<1>7. OracleInit => OracleInv
  BY OracleStart
<1>8. /\ Bookkeeping /\ TypeOK /\ SemiNaiveInvariant /\ OracleInv
      /\ [OracleNext]_<<vars, callVars, reference>>
      => OracleInv'
  BY OracleKept
<1> QED
  BY <1>3, <1>4, <1>6, <1>7, <1>8, PTL DEF OracleSpec

\* Where no site is bound whole on suspicion, a complete pass has bound no
\* more than the descending construction leaves, and the same at pinned
\* sites: the assertion at the end of Refiner::run.
THEOREM OracleAgrees == OracleSpec => []SubtractiveDifferential
<1>1. ClosedInv /\ OracleInv => SubtractiveDifferential
  <2> SUFFICES ASSUME ClosedInv, OracleInv, outcome = "complete", controls.disable_eager_unknown,
                      NEW site \in graph.scope
               PROVE  /\ activated[site] \subseteq reference.oracle[site]
                      /\ site \in Pinned(graph) => activated[site] = reference.oracle[site]
    BY DEF SubtractiveDifferential
  <2>1. /\ graph \in CallGraphs /\ controls \in Controls /\ Started
        /\ CallGraphTypeOK /\ BindingsInstalled
    BY DEF ClosedInv, NothingLeft, Bookkeeping, GraphKept
  <2>2. reference.oracle = subtractive_oracle(graph)
    BY DEF OracleInv, ReferenceRight
  <2>3. Inside(Answer(graph, controls, subtractive_oracle(graph)))
    BY <2>1 DEF OracleInv, InsideBoth
  <2>4. activated[site] \subseteq reference.oracle[site]
    BY <2>2, <2>3 DEF Inside, Answer
  <2>5. ASSUME site \in Pinned(graph) PROVE reference.oracle[site] \subseteq activated[site]
    <3>1. reference.oracle[site] \subseteq Pin(graph, site)
      BY <2>1, <2>2, <2>5, OracleFixed DEF Sensible
    <3>2. Pin(graph, site) \subseteq activated[site]
      BY <2>1, <2>5 DEF BindingsInstalled, Pin
    <3> QED
      BY <3>1, <3>2
  <2> QED
    BY <2>4, <2>5
<1>2. CallGraphSpec => []ClosedInv
  BY ClosedKept, ClosedStart, PTL DEF CallGraphSpec
<1> QED
  BY <1>1, <1>2, OracleDrives, PTL

\* However the pass ended, a published row has every target of the least
\* closed call graph, and a row with neither flag has no other target and an
\* operand free of foreign code (publication after Refiner::run).
THEOREM PublicationSound == OracleSpec => []PublishedSound
<1> DEFINE least == LeastCallGraph(graph, controls)
<1>1. ASSUME TypeOK, SemiNaiveInvariant, FieldsMade, ClosedInv, CompleteIsClosed, OracleInv,
             outcome = "complete", NEW site \in graph.scope
      PROVE  /\ activated[site] = least[site]
             /\ site \in reference.foreign => OperandUnknown(site)
  <2> DEFINE known == Answer(graph, controls, least)
             value == Value(solve)
  <2>1. /\ graph \in CallGraphs /\ controls \in Controls
        /\ activated \in TargetTables(graph) /\ BindingsInstalled /\ Started
        /\ solve.worklist = {}
    BY <1>1 DEF ClosedInv, NothingLeft, Bookkeeping, GraphKept, TargetTables
  <2>2. /\ solve \in Solves /\ SemiNaive(solve) /\ installed \subseteq Systems
        /\ \A system \in installed : Represented(solve, system)
        /\ \A system \in installed : SystemFields(system) \subseteq solve.fields
    BY <1>1, SystemType DEF TypeOK, SemiNaiveInvariant, FieldsMade
  <2>3. ClosedAnswer(known) /\ Inside(known) /\ known.targets = least
    BY <1>1, <2>1, LeastCloses DEF OracleInv, InsideBoth, Answer
  <2> HIDE DEF known, least
  <2>4. /\ Below(solve, WithSummaries(known.value), known.fields, known.direct)
        /\ known.fields \in SUBSET FieldCells /\ WithinCap(known.fields)
    BY <2>3 DEF Inside, ClosedAnswer
  <2>5. \A k \in installed : GrantsFields(k, value, solve.fields)
    BY <2>1, <2>2, <2>4, RestGrants
  <2>6. \A system \in SystemsOf(graph, activated) : GrantsFields(system, value, solve.fields)
    <3> TAKE system \in SystemsOf(graph, activated)
    <3>1. PICK k \in installed : Within(system, k)
      BY <2>1 DEF BindingsInstalled
    <3> HIDE DEF value
    <3> QED
      BY <2>5, <3>1 DEF Within, GrantsFields
  <2>7. ClosedCallGraph(graph, controls, activated, value, solve.fields, solve.direct)
    BY <1>1 DEF CompleteIsClosed
  <2>8. Closes(graph, controls, activated, value, solve.fields, solve.direct)
    BY <2>1, <2>6, <2>7 DEF ClosedCallGraph, Closes, Grants
  <2>9. /\ LeastCallGraph(graph, controls)[site] \subseteq activated[site]
        /\ Foreign(graph, Solution(graph, LeastCallGraph(graph, controls)), site)
             => value[graph.operand[site]] \cap CodeRegions # {}
    BY <2>1, <2>8, LeastWithin
  <2>10. activated[site] \subseteq least[site]
    BY <2>3 DEF Inside
  <2>11. site \in reference.foreign => Foreign(graph, Solution(graph, least), site)
    BY <1>1 DEF OracleInv, ReferenceRight, least
  <2> QED
    BY <2>9, <2>10, <2>11 DEF OperandUnknown, OperandFacts, least
<1>2. ASSUME ClosedInv, NEW site \in graph.scope \ Pinned(graph)
      PROVE  least[site] \subseteq BaseRow(site).targets /\ BaseRow(site).fallback
  <2>1. graph \in CallGraphs /\ controls \in Controls
    BY <1>2 DEF ClosedInv, Bookkeeping, GraphKept
  <2>2. least[site] \subseteq Envelope(graph, site)
    BY <2>1, LeastFixed DEF Sensible
  <2> QED
    BY <2>2 DEF Envelope, BaseRow, Row
<1>3. TypeOK /\ SemiNaiveInvariant /\ FieldsMade /\ ClosedInv /\ CompleteIsClosed /\ OracleInv
        => PublishedSound
  <2> SUFFICES ASSUME TypeOK, SemiNaiveInvariant, FieldsMade, ClosedInv, CompleteIsClosed,
                      OracleInv, ~Running, NEW site \in graph.scope \ Pinned(graph)
               PROVE  /\ reference.least[site] \subseteq rows[site].targets
                      /\ ~rows[site].fallback /\ ~rows[site].unknown_callee =>
                           rows[site].targets = reference.least[site]
                             /\ site \notin reference.foreign
    BY DEF PublishedSound
  <2>1. RowSound(site) /\ reference.least = least
    BY DEF OracleInv, RowsSound, ReferenceRight
  <2> HIDE DEF least
  <2>2. CASE rows[site] = BaseRow(site)
    BY <1>2, <2>1, <2>2
  <2>3. CASE /\ outcome = "complete" /\ rows[site].targets = activated[site]
             /\ ~rows[site].unknown_callee => ~OperandUnknown(site)
    BY <1>1, <2>1, <2>3
  <2> QED
    BY <2>1, <2>2, <2>3 DEF RowSound
<1>4. CallGraphSpec => []ClosedInv
  BY ClosedKept, ClosedStart, PTL DEF CallGraphSpec
<1>5. CallGraphSpec => Spec
  BY SolverDriven DEF SolverSpec
<1> QED
  BY <1>3, <1>4, <1>5, OracleDrives, CallGraphClosed, TypeCorrect, SemiNaiveCorrect, FieldsCorrect,
     PTL
=============================================================================
