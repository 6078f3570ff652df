-------------------------- MODULE OnTheFlyCallGraph --------------------------
(***************************************************************************)
(* The call graph discovered while solving (Refiner::run in                *)
(* pangs-solve/src/andersen.rs).  Calls through a pointer start unbound.   *)
(* Whenever propagation comes to rest, the functions their operands point  *)
(* to are bound, which adds copies from arguments to parameters and from   *)
(* return values to results, and propagation goes on.  The pass may run    *)
(* out of steps or rounds; a partial ascending solve is then thrown away   *)
(* and the coarser Steensgaard rows are published instead.                 *)
(*                                                                         *)
(* Propagation is AndersenSolve's: every step here is one of its steps or  *)
(* leaves its variables alone.  One batch of bindings is installed as one  *)
(* system, the union of theirs.                                            *)
(***************************************************************************)
EXTENDS AndersenSolve

CONSTANTS
  Functions,     \* the functions, all of them allocations too
  CodeRegions,   \* ExternalRegion::may_contain_function_pointer
  ArgLabel, ResultLabel,   \* origin labels of external call effects
  CallGraphs,    \* the programs to solve
  Controls       \* budgets and switches (AndersenControls)

(***************************************************************************)
(* A program.  base are the constraints of its PAG; a site has an operand, *)
(* arguments and at most one result; a function has parameters and at most *)
(* one return value, and may be external.  Of a site the analysis knows    *)
(* whether its partition is in scope, Steensgaard's row, and possibly an   *)
(* exact answer proved elsewhere; a confined function is called nowhere    *)
(* but at its exact sites.                                                 *)
(***************************************************************************)
SitesOf(g) == DOMAIN g.operand
Pinned(g) == DOMAIN g.exact \cap g.scope

\* The sound target envelope of a site that is not pinned.
Envelope(g, site) == g.steens[site].targets \ g.confined

\* Eager although the switch says not to.
EagerRegardless(g, c) == {site \in g.scope \ Pinned(g) : g.steens[site].unknown_callee}

Eager(g, c) ==
  {site \in g.scope \ Pinned(g) :
     ~c.disable_eager_unknown /\ g.steens[site].unknown_callee}

\* activate_target: what binding a function at a site adds.
Binding(g, site, f) ==
  LET parameters == DOMAIN g.args[site] \cap DOMAIN g.params[f]
      arguments == {g.args[site][i] : i \in DOMAIN g.args[site]}
      results == g.result[site] \X {g.returned[site], ResultLabel}
  IN  [ addrs |-> IF f \in g.external /\ g.result[site] # {}
                    THEN results \cup {<<g.returned[site], ResultLabel>>} ELSE {},
        copies |-> {<<g.args[site][i], g.params[f][i]>> : i \in parameters}
                     \cup (g.ret[f] \X g.result[site]),
        joins |-> IF f \in g.external
                    THEN {<<a, Store(g.boundary[site], ArgLabel)>> : a \in arguments}
                    ELSE {},
        memcpys |-> {} ]

UnionOf(systems) ==
  [ addrs |-> UNION {s.addrs : s \in systems}, copies |-> UNION {s.copies : s \in systems},
    joins |-> UNION {s.joins : s \in systems}, memcpys |-> UNION {s.memcpys : s \in systems} ]

BindingsOf(g, pairs) == {Binding(g, p[1], p[2]) : p \in pairs}

\* Sites and functions bound before propagation starts.
Whole(g, sites) == UNION {{site} \X Envelope(g, site) : site \in sites}
Initial(g, c) ==
  (UNION {{site} \X (g.exact[site] \cap Functions) : site \in Pinned(g)})
  \cup Whole(g, Eager(g, c))

\* The same program as the solver sees it.
SolverProgram(g, c) ==
  [ base |-> UnionOf({g.base} \cup BindingsOf(g, Initial(g, c))),
    calls |-> {UnionOf(BindingsOf(g, pairs)) :
                 pairs \in SUBSET Whole(g, g.scope \ Pinned(g))} ]

ASSUME CallGraphAssumption ==
  /\ Functions \subseteq Objects
  /\ CodeRegions \subseteq Regions
  /\ \A g \in CallGraphs :
       /\ IsFiniteSet(SitesOf(g)) /\ g.scope \subseteq SitesOf(g)
       /\ g.operand \in [SitesOf(g) -> Nodes]
       /\ g.steens \in [SitesOf(g) -> [targets : SUBSET Functions, unknown_callee : BOOLEAN]]
       /\ \A site \in DOMAIN g.exact : g.exact[site] \subseteq g.steens[site].targets
       /\ \A c \in Controls : SolverProgram(g, c) \in Programs
  /\ \A c \in Controls :
       /\ c.max_steps \subseteq Nat /\ c.max_resumes \in Nat \ {0}
       /\ c.inject \in {"none", "propagation", "discovery", "activation"}
       /\ c.disable_eager_unknown \in BOOLEAN

VARIABLES
  graph,      \* the program being solved
  controls,   \* the controls it is solved under
  activated,  \* the functions bound so far, by site in scope
  eager,      \* sites whose whole envelope is bound
  rounds,     \* propagation rounds begun (resume_rounds)
  steps,      \* worklist steps, counted under a step budget
  outcome,    \* "running", "complete", or why the pass gave up
  rows        \* the published rows, by site, once it is decided

callVars == <<graph, controls, activated, eager, rounds, steps, outcome, rows>>

(***************************************************************************)
(* Discovery.                                                              *)
(***************************************************************************)
Callable(facts) ==
  Functions \cap (facts \cup {Root(cell) : cell \in facts \cap FieldCells})
OperandFacts(site) == Value(solve)[graph.operand[site]]

\* Any region at all, entry arguments too.
AnyRegion(site) == OperandFacts(site) \cap Regions # {}

OperandUnknown(site) == OperandFacts(site) \cap CodeRegions # {}

Pairs(targets) == UNION {{site} \X targets[site] : site \in DOMAIN targets}

Discovered ==
  UNION {{site} \X (Callable(OperandFacts(site)) \cap Envelope(graph, site))
         : site \in graph.scope \ Pinned(graph)}
NewlyEager ==
  {site \in (graph.scope \ Pinned(graph)) \ eager :
     ~controls.disable_eager_unknown /\ OperandUnknown(site)}

\* Discovery that takes a region in an operand for data.
OnlyDiscovered == Discovered \ Pairs(activated)

KnownUnbound == (Discovered \cup Whole(graph, NewlyEager)) \ Pairs(activated)

(***************************************************************************)
(* Publication (finish_andersen_controlled, emit_indirect_calls and        *)
(* patch_exact_overrides).  A pinned site keeps its exact targets however  *)
(* the pass ended; the other rows come from a complete solve or not at all.*)
(***************************************************************************)
Row(targets, unknown, fallback) ==
  [targets |-> targets, unknown_callee |-> unknown, fallback |-> fallback]

BaseRow(site) ==
  Row(graph.steens[site].targets, graph.steens[site].unknown_callee, TRUE)

RefinedRow(site) ==
  LET pinned == site \in Pinned(graph)
  IN  IF activated[site] = {} /\ ~OperandUnknown(site)
        THEN BaseRow(site)
        ELSE Row(activated[site],
                 graph.steens[site].unknown_callee \/ OperandUnknown(site),
                 ~pinned /\ site \in eager)

Patched(table) ==
  [site \in SitesOf(graph) |->
     IF site \in DOMAIN graph.exact
       THEN Row(graph.exact[site] \cap Functions, table[site].unknown_callee, FALSE)
       ELSE table[site]]

CompleteRows ==
  Patched([site \in SitesOf(graph) |->
             IF site \in graph.scope THEN RefinedRow(site) ELSE BaseRow(site)])

\* What was refined before the pass gave up is kept.
PartialRows ==
  Patched([site \in SitesOf(graph) |->
             IF site \in graph.scope
               THEN Row(activated[site], graph.steens[site].unknown_callee, TRUE)
               ELSE BaseRow(site)])

ExhaustedRows == Patched([site \in SitesOf(graph) |-> BaseRow(site)])

(***************************************************************************)
(* The specification.                                                      *)
(***************************************************************************)
Running == outcome = "running"
Started == installed # {}

Exhaust(reason) ==
  /\ outcome' = reason
  /\ rows' = ExhaustedRows

CallGraphInit ==
  /\ graph \in CallGraphs
  /\ controls \in Controls
  /\ program = SolverProgram(graph, controls) /\ Init
  /\ activated = [site \in graph.scope |-> {}]
  /\ eager = {}
  /\ rounds = 0 /\ steps = 0
  /\ outcome = "running" /\ rows = <<>>

\* build_base_solve and the bindings known from the start.
Start ==
  /\ Running /\ ~Started
  /\ Add(program.base)
  /\ activated' = [site \in graph.scope |-> At(Initial(graph, controls), site)]
  /\ eager' = Eager(graph, controls)
  /\ rounds' = 1
  /\ UNCHANGED <<graph, controls, steps, outcome, rows>>

\* A pop checks the budget before it counts: a limit of n allows n steps.
WithinBudget == \A limit \in controls.max_steps : steps < limit

Propagate(n) ==
  /\ Running /\ Started
  /\ controls.inject # "propagation"
  /\ WithinBudget
  /\ Pop(n)
  /\ steps' = IF controls.max_steps = {} THEN 0 ELSE steps + 1
  /\ UNCHANGED <<graph, controls, activated, eager, rounds, outcome, rows>>

OutOfSteps ==
  /\ Running /\ Started
  /\ controls.inject # "propagation"
  /\ solve.worklist # {} /\ ~WithinBudget
  /\ Exhaust("propagation_step_budget")
  /\ UNCHANGED <<vars, graph, controls, activated, eager, rounds, steps>>

\* The test hook that gives up at the top of the loop.
GiveUpPropagating ==
  /\ Running /\ Started
  /\ controls.inject = "propagation"
  /\ Exhaust("injected_during_propagation")
  /\ UNCHANGED <<vars, graph, controls, activated, eager, rounds, steps>>

\* Discovery while cells are still queued.
AnyTime == Running /\ Started /\ controls.inject # "propagation"

\* Discovery runs on a fixed point only.
AtFixedPoint ==
  /\ Running /\ Started /\ controls.inject # "propagation"
  /\ solve.worklist = {}

Finish ==
  /\ AtFixedPoint
  /\ KnownUnbound = {}
  /\ outcome' = "complete"
  /\ rows' = CompleteRows
  /\ eager' = eager \cup NewlyEager
  /\ UNCHANGED <<vars, graph, controls, activated, rounds, steps>>

GiveUpAfterDiscovery ==
  /\ AtFixedPoint
  /\ KnownUnbound # {}
  /\ \/ controls.inject = "discovery" /\ Exhaust("injected_after_discovery")
     \/ /\ controls.inject # "discovery" /\ rounds >= controls.max_resumes
        /\ Exhaust("resume_round_cap")
  /\ eager' = eager \cup NewlyEager
  /\ UNCHANGED <<vars, graph, controls, activated, rounds, steps>>

ActivateAll ==
  /\ AtFixedPoint
  /\ KnownUnbound # {}
  /\ controls.inject # "discovery" /\ rounds < controls.max_resumes
  /\ Add(UnionOf(BindingsOf(graph, KnownUnbound)))
  /\ activated' = [site \in graph.scope |-> activated[site] \cup At(KnownUnbound, site)]
  /\ eager' = eager \cup NewlyEager
  /\ IF controls.inject = "activation"
       THEN Exhaust("injected_after_activation") /\ UNCHANGED rounds
       ELSE rounds' = rounds + 1 /\ UNCHANGED <<outcome, rows>>
  /\ UNCHANGED <<graph, controls, steps>>

CallGraphNext ==
  \/ Start
  \/ \E n \in solve.worklist : Propagate(n)
  \/ OutOfSteps
  \/ GiveUpPropagating
  \/ Finish
  \/ GiveUpAfterDiscovery
  \/ ActivateAll

CallGraphSpec == CallGraphInit /\ [][CallGraphNext]_<<vars, callVars>>

\* The loop runs until it decides: a step is possible as long as it has not.
CallGraphFairness ==
  []<>(~Running) \/ []<><<(<<vars, callVars>>)' # <<vars, callVars>>>>_<<vars, callVars>>
-----------------------------------------------------------------------------
(***************************************************************************)
(* Properties.                                                             *)
(***************************************************************************)
Outcomes ==
  {"running", "complete", "propagation_step_budget", "injected_during_propagation",
   "injected_after_discovery", "resume_round_cap", "injected_after_activation"}

\* Bindings stay within what is known of their site.
CallGraphTypeOK ==
  /\ graph \in CallGraphs /\ controls \in Controls
  /\ \A site \in graph.scope :
       activated[site] \subseteq IF site \in Pinned(graph) THEN graph.exact[site]
                                 ELSE Envelope(graph, site)
  /\ eager \subseteq graph.scope \ Pinned(graph)
  /\ rounds \in 0 .. controls.max_resumes
  /\ \A limit \in controls.max_steps : steps \in 0 .. limit
  /\ outcome \in Outcomes

(***************************************************************************)
(* A closed call graph: every function an operand can reach inside its     *)
(* envelope is bound, a site whose operand may hold foreign code has its   *)
(* whole envelope bound, pinned sites are bound to their exact targets,    *)
(* and every constraint of the program and of the bindings holds.          *)
(***************************************************************************)
SiteClosed(g, c, site, targets, facts) ==
  IF site \in Pinned(g)
    THEN g.exact[site] \cap Functions \subseteq targets
    ELSE /\ Callable(facts) \cap Envelope(g, site) \subseteq targets
         /\ site \in Eager(g, c) => Envelope(g, site) \subseteq targets
         /\ ~c.disable_eager_unknown /\ facts \cap CodeRegions # {}
              => Envelope(g, site) \subseteq targets

SystemsOf(g, targets) == {g.base} \cup BindingsOf(g, Pairs(targets))

ClosedCallGraph(g, c, targets, value, fields, direct) ==
  /\ \A site \in g.scope :
       SiteClosed(g, c, site, targets[site], value[g.operand[site]])
  /\ IsSolution(SystemsOf(g, targets), value, fields, direct)

(***************************************************************************)
(* A complete pass ends in a closed call graph: no binding was missed      *)
(* because it was discovered early and its effects on other operands came  *)
(* late, or because a site turned eager after its operand was looked at.   *)
(***************************************************************************)
CompleteIsClosed ==
  outcome = "complete" =>
    ClosedCallGraph(graph, controls, activated, Value(solve), solve.fields, solve.direct)

(***************************************************************************)
(* Every round but the first binds something new, so a pass whose round    *)
(* cap exceeds the bindings there are never ends at the cap.               *)
(***************************************************************************)
RoundsProductive == rounds <= Cardinality(Pairs(activated)) + 1

(***************************************************************************)
(* Propagation and binding follow the solver's own specification: a        *)
(* binding is only installed at rest, and nothing else changes the solver. *)
(***************************************************************************)
SolverSpec == Spec

(***************************************************************************)
(* The pass decides.                                                       *)
(***************************************************************************)
Decides == <>(~Running)
=============================================================================
