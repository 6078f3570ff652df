-------------------------- MODULE CallGraphOracles --------------------------
(***************************************************************************)
(* What the on-the-fly call graph is compared with: any closed call graph  *)
(* of the program; the least one, ascending over whole naive solutions;    *)
(* and the descending construction the code keeps as an oracle             *)
(* (Refiner::subtractive_oracle).                                          *)
(***************************************************************************)
EXTENDS OnTheFlyCallGraph, NaiveSolution

(***************************************************************************)
(* The pass binds no more than it has to.  ClosedGraphs are closed call    *)
(* graphs of the programs, each with a solution of its constraints; the    *)
(* pass must stay within each of them at every step.  With                 *)
(* CompleteIsClosed this makes a complete pass end in the least closed     *)
(* call graph, whatever the order of pops and the grouping into rounds.    *)
(*                                                                         *)
(* As for the solver, a closed graph refuses no field and the lane cap has *)
(* room for all of its lanes.                                              *)
(***************************************************************************)
CONSTANT ClosedGraphs   \* programs under their controls, with a closed call graph

ASSUME ClosedGraphAssumption ==
  \A known \in ClosedGraphs :
    /\ known.targets \in [known.graph.scope -> SUBSET Functions]
    /\ known.value \in Tables(Facts)
    /\ known.fields \in SUBSET FieldCells /\ known.direct \in SUBSET Objects
    /\ \A o \in Objects : Cardinality(LanesOf(known.fields, o)) <= LaneCap
    /\ ClosedCallGraph(known.graph, known.controls, known.targets,
                       known.value, known.fields, known.direct)
    /\ \A system \in SystemsOf(known.graph, known.targets) :
         GrantsFields(system, known.value, known.fields)

(***************************************************************************)
(* Nothing is bound that some closed call graph does not bind, at any      *)
(* moment (Refiner::run): not because a batch was found before another     *)
(* one's effects were known, nor because a site was taken for one that may *)
(* call foreign code.                                                      *)
(***************************************************************************)
BoundsLeast ==
  \A known \in ClosedGraphs :
    known.graph = graph /\ known.controls = controls =>
      \A site \in graph.scope : activated[site] \subseteq known.targets[site]

(***************************************************************************)
(* The two constructions.                                                  *)
(***************************************************************************)
Solution(g, targets) == Least(SystemsOf(g, targets))
OperandValue(g, sol, site) == sol.value[g.operand[site]]
Foreign(g, sol, site) == OperandValue(g, sol, site) \cap CodeRegions # {}
Supported(g, sol, site) ==
  Callable(OperandValue(g, sol, site)) \cap Envelope(g, site)

TargetTables(g) == [g.scope -> SUBSET Functions]
Pin(g, site) == g.exact[site] \cap Functions

\* Bind what the solution supports, solve again, until nothing is left to bind.
Bound(g, c, targets) ==
  LET sol == Solution(g, targets)
      whole == Eager(g, c) \cup {site \in g.scope :
                                  ~c.disable_eager_unknown /\ Foreign(g, sol, site)}
  IN  [site \in g.scope |->
         IF site \in Pinned(g) THEN Pin(g, site)
         ELSE targets[site] \cup IF site \in whole THEN Envelope(g, site)
                                ELSE Supported(g, sol, site)]

LeastCallGraph(g, c) ==
  LET ascend[targets \in TargetTables(g)] ==
        IF Bound(g, c, targets) = targets THEN targets ELSE ascend[Bound(g, c, targets)]
  IN  ascend[[site \in g.scope |-> {}]]

\* Each round solves the program under the current targets from nothing and
\* keeps the targets the solution still supports.
StillSupported(g, targets) ==
  LET sol == Solution(g, targets)
  IN  [site \in g.scope |->
         IF site \in Pinned(g) THEN Pin(g, site) ELSE Supported(g, sol, site)]

subtractive_oracle(g) ==
  LET descend[targets \in TargetTables(g)] ==
        IF StillSupported(g, targets) = targets THEN targets
        ELSE descend[StillSupported(g, targets)]
  IN  descend[[site \in g.scope |->
                 IF site \in Pinned(g) THEN Pin(g, site) ELSE Envelope(g, site)]]

\* As for a closed graph, the lane cap has room for all that the two
\* constructions ask for.
ASSUME OracleAssumption ==
  /\ IsFiniteSet(Labels)
  /\ \A g \in CallGraphs, c \in Controls :
       \A targets \in {LeastCallGraph(g, c), subtractive_oracle(g)} : \A o \in Objects :
         Cardinality(LanesOf(Solution(g, targets).fields, o)) <= LaneCap

(***************************************************************************)
(* The pass, with both answers for its program kept beside it.             *)
(***************************************************************************)
VARIABLE reference

OracleInit ==
  /\ CallGraphInit
  /\ LET least == LeastCallGraph(graph, controls)
         sol == Solution(graph, least)
     IN  reference = [ least |-> least, oracle |-> subtractive_oracle(graph),
                       foreign |-> {site \in graph.scope : Foreign(graph, sol, site)} ]

OracleNext == CallGraphNext /\ UNCHANGED reference

OracleSpec ==
  /\ OracleInit /\ [][OracleNext]_<<vars, callVars, reference>>
  /\ CallGraphFairness

(***************************************************************************)
(* The assertion at the end of Refiner::run: in pure least-fixed-point     *)
(* mode the additive targets are within the subtractive ones, and the      *)
(* pinned sites agree.                                                     *)
(***************************************************************************)
SubtractiveDifferential ==
  outcome = "complete" /\ controls.disable_eager_unknown =>
    \A site \in graph.scope :
      /\ activated[site] \subseteq reference.oracle[site]
      /\ site \in Pinned(graph) => activated[site] = reference.oracle[site]

(***************************************************************************)
(* Whatever made the pass stop, a published row has every target of the    *)
(* least closed call graph; and a row that carries neither flag has no     *)
(* other target and an operand that holds no foreign code.                 *)
(***************************************************************************)
PublishedSound ==
  ~Running =>
    \A site \in graph.scope \ Pinned(graph) :
      LET row == rows[site]
      IN  /\ reference.least[site] \subseteq row.targets
          /\ ~row.fallback /\ ~row.unknown_callee =>
               row.targets = reference.least[site] /\ site \notin reference.foreign
=============================================================================
