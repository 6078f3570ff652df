---------------------------- MODULE OfflineQuotient ----------------------------
(***************************************************************************)
(* The constraint graph made smaller before it is solved                   *)
(* (Solve::offline_quotient, opt-in): cells whose equations are the same   *)
(* become one class, and sources that all feed the same destinations feed  *)
(* them through one union cell.  A cell that may be given facts of its own *)
(* later on is left alone.                                                 *)
(***************************************************************************)
EXTENDS RefinedCalls

\* A mutant: formals may be merged.
WithoutFormals(p, g) ==
  {n \in AllNodes(p, g) : IsObject(n)} \cup UNION {site.result : site \in g.calls}
\* What a call that is bound later may seed or feed: allocations, formals and
\* results.
offline_late_generators(p, g) ==
  {n \in AllNodes(p, g) : IsObject(n) \/ n[1] = "param"} \cup UNION {site.result : site \in g.calls}

\* Cells with facts of their own, now or once constraints are followed.
FixedGenerators(u, late) ==
  late \cup {x[1] : x \in u.addrs} \cup {x[2] : x \in u.addrs}
  \cup {x[2] : x \in u.loads} \cup {x[3] : x \in u.geps}

(***************************************************************************)
(* Classes of cells, and the classes a class is fed by.                    *)
(***************************************************************************)
copy_edge_pairs(u, separate) ==
  {a \in u.copies \cup (IF separate THEN {} ELSE Overlap({x \in {y[2] : y \in u.addrs} : IsField(x)}, {})) : a[1] # a[2]}
StaticClasses(arcs) ==
  {Ahead(arcs, {x}) \cap Behind(arcs, {x}) : x \in {a[1] : a \in arcs} \cup {a[2] : a \in arcs}}
ClassOf(classes, x) == CHOOSE k \in classes : x \in k
Incoming(classes, arcs, k) == {ClassOf(classes, a[1]) : a \in {b \in arcs : b[2] \in k}} \ {k}

\* A class without facts of its own that one class feeds is that class.
Substitutions(classes, arcs, fixed) ==
  {<<k, from>> \in classes \X classes : k \cap fixed = {} /\ Incoming(classes, arcs, k) = {from}}
\* Two that the same classes feed are equal.
ValueNumbers(classes, arcs, fixed) ==
  {<<k, like>> \in classes \X classes :
     /\ k # like /\ (k \cup like) \cap fixed = {}
     /\ Incoming(classes, arcs, k) # {} /\ Incoming(classes, arcs, k) = Incoming(classes, arcs, like)}
UnionInto(classes, links) ==
  {UNION Ahead(links \cup Turned(links), {k}) : k \in classes}

RECURSIVE QuotientFrom(_, _, _)
QuotientFrom(classes, arcs, fixed) ==
  LET substitutions == Substitutions(classes, arcs, fixed)
      links == IF substitutions # {} THEN substitutions ELSE ValueNumbers(classes, arcs, fixed)
  IN  IF links = {} THEN classes ELSE QuotientFrom(UnionInto(classes, links), arcs, fixed)

(***************************************************************************)
(* Fanout: where it saves edges, S x D becomes S -> union -> D.            *)
(***************************************************************************)
UnionCell(destinations) == <<"union", destinations>>
FanoutGroups(arcs) ==
  LET Successors(x) == {a[2] : a \in {b \in arcs : b[1] = x}}
      sources == {a[1] : a \in arcs}
  IN  {<<{x \in sources : Successors(x) = d}, d>> : d \in {Successors(x) : x \in sources}}
Profitable(group) ==
  /\ Cardinality(group[1]) >= 2 /\ Cardinality(group[2]) >= 2
  /\ Cardinality(group[1]) * Cardinality(group[2]) > Cardinality(group[1]) + Cardinality(group[2])
Factored(arcs) ==
  LET groups == {x \in FanoutGroups(arcs) : Profitable(x)}
  IN  {a \in arcs : \A x \in groups : a[1] \notin x[1]}
      \cup UNION {(x[1] \X {UnionCell(x[2])}) \cup ({UnionCell(x[2])} \X x[2]) : x \in groups}

\* Members of a class share what they hold; its arcs are those of one of them.
ClassCopies(classes, arcs) ==
  LET Canonical(x) == CHOOSE y \in ClassOf(classes, x) : TRUE
  IN  (UNION {k \X k : k \in classes})
      \cup Factored({a \in {<<Canonical(b[1]), Canonical(b[2])>> : b \in arcs} : a[1] # a[2]})
QuotientOf(u, arcs, fixed) ==
  [u EXCEPT !.copies = ClassCopies(QuotientFrom(StaticClasses(arcs), arcs, fixed), arcs)]
offline_quotient(p, g, u, separate) ==
  QuotientOf(u, copy_edge_pairs(u, separate), FixedGenerators(u, offline_late_generators(p, g)))

\* Constraints as the tier solves them; calls it may bind at once are bound
\* before the quotient is taken.
Prepared(p, g, base, scope, limits, u) ==
  LET bound == All({u} \cup UNION {{activate_target(p, scope, site, f) : f \in Activated(base, {}, site)} : site \in Sites(g, scope)})
  IN  IF limits.quotient THEN offline_quotient(p, g, bound, limits.separate) ELSE u
SolveWithin(p, g, base, addresses, scope, limits, summaries) ==
  SolveFrom(p, g, base, scope, limits.separate,
            Prepared(p, g, base, scope, limits, build_base_solve(p, g, base, addresses, scope, limits.separate, summaries)), {})
=============================================================================
