----------------------------- MODULE CallQueries -----------------------------
(***************************************************************************)
(* The query tier (pangs-solve/src/cfl.rs): which indirect calls does the  *)
(* address of a function reach?  One query per function walks the pointer  *)
(* edges depth first.  A pointer that is stored turns the walk backward    *)
(* from the address, to whatever shares it; any such node may turn it      *)
(* forward again, to the loads.  The finer kernel keeps a stack of the     *)
(* memory levels it is in, with the byte offset in each.                   *)
(*                                                                         *)
(* A target found binds the call, which adds edges: a report runs rounds   *)
(* of queries, each on the graph of the round before, and repeats those    *)
(* that touched a call or a result that was bound.                         *)
(***************************************************************************)
EXTENDS SolverAnswers, SequencesExt

CONSTANTS
  QueryBudgets,    \* CFL_QUERY_STATE_BUDGET, ample and scarce
  MaxRounds        \* CFL_FIXPOINT_MAX_ROUNDS

Ample == CHOOSE b \in QueryBudgets : \A c \in QueryBudgets : c <= b

(***************************************************************************)
(* The graph, with the calls bound so far.                                 *)
(***************************************************************************)
CarriesPointer(p, e) ==
  CASE e.kind = "assign" -> PointerTransfer(p, e.src, e.dst)
    [] e.kind = "load"   -> Pointer(p, e.dst)
    [] e.kind = "store"  -> Pointer(p, e.src)
    [] OTHER             -> TRUE

Imported(p) == SeededIn(p, {"imported"})
Returned(p, call) == p.ret[call[2]] \X p.result[call[1]]

Bindings(p, call) ==
  LET passed == UNION {{p.args[call[1]][i]} \X p.params[call[2]][i]
                       : i \in DOMAIN p.args[call[1]] \cap DOMAIN p.params[call[2]]}
  IN  IF call[2] \in Imported(p) \/ call \notin p.compatible THEN {}
      ELSE {t \in passed \cup Returned(p, call) : PointerTransfer(p, t[1], t[2])}

BindingEdges(p, calls) ==
  SetToSeq({[kind |-> "assign", src |-> t[1], dst |-> t[2]] : t \in UNION {Bindings(p, c) : c \in calls}})

Pag(p) == SelectSeq(p.edges, LAMBDA e : CarriesPointer(p, e))
Graph(p, calls) == Pag(p) \o BindingEdges(p, calls)

QueriedFunctions(p) == {e.src : e \in EdgesIn(p, "addrof")} \cap Functions

(***************************************************************************)
(* Offsets of the active level; Top, beyond all, is any.                   *)
(***************************************************************************)
Top == MaxOffset + 1
Saturated(n) == IF n < MinOffset THEN MinOffset ELSE IF n > MaxOffset THEN MaxOffset ELSE n

Adjusted(offset, delta, sign) ==
  IF offset = Top \/ delta.kind # "exact" THEN Top
  ELSE Saturated(offset + Saturated(sign * delta.offset))

(***************************************************************************)
(* Steps.  Each gives the states to visit next, at most one per edge.      *)
(***************************************************************************)
At(node, phase, stack) == [node |-> node, phase |-> phase, stack |-> stack]

Pushed(x, node) == <<At(node, "backward", Append(x.stack, 0))>>
Popped(x, node, phase) ==
  IF x.stack = <<>> THEN <<At(node, phase, <<>>)>>
  ELSE IF Last(x.stack) \in {0, Top} THEN <<At(node, phase, Front(x.stack))>> ELSE <<>>
Adjust(x, node, phase, delta, sign) ==
  <<At(node, phase, IF x.stack = <<>> THEN <<>>
                    ELSE Append(Front(x.stack), Adjusted(Last(x.stack), delta, sign)))>>

ForwardStep(sensitive, x, e) ==
  CASE ~sensitive        -> <<At(e.dst, IF e.kind = "store" THEN "backward" ELSE "forward", <<>>)>>
    [] e.kind = "store"  -> Pushed(x, e.dst)
    [] e.kind = "load"   -> Popped(x, e.dst, "forward")
    [] e.kind = "gep"    -> Adjust(x, e.dst, "forward", e.delta, -1)
    [] OTHER             -> <<At(e.dst, "forward", x.stack)>>

BackwardStep(sensitive, x, e) ==
  CASE ~sensitive        -> <<At(e.src, "backward", <<>>)>>
    [] e.kind = "load"   -> Pushed(x, e.src)
    [] e.kind = "store"  -> Popped(x, e.src, "backward")
    [] e.kind = "gep"    -> Adjust(x, e.src, "backward", e.delta, 1)
    [] OTHER             -> <<At(e.src, "backward", x.stack)>>

\* A node reached backward may be the turning point.
Steps(graph, sensitive, x) ==
  IF x.phase = "forward"
  THEN LET from == SelectSeq(graph, LAMBDA e : e.src = x.node)
       IN  FlattenSeq([i \in DOMAIN from |-> ForwardStep(sensitive, x, from[i])])
  ELSE LET into == SelectSeq(graph, LAMBDA e : e.dst = x.node)
       IN  <<At(x.node, "forward", x.stack)>>
             \o FlattenSeq([i \in DOMAIN into |-> BackwardStep(sensitive, x, into[i])])

(***************************************************************************)
(* A query.  A state counts as visited by its node, phase and active       *)
(* level: the levels below are those it was first reached with.            *)
(***************************************************************************)
VisitKey(x) == <<x.node, x.phase, IF x.stack = <<>> THEN <<>> ELSE <<Last(x.stack)>>>>

Start(f) == [worklist |-> <<At(f, "forward", <<>>)>>, visited |-> {}, recorded |-> {}, truncated |-> FALSE]

Visit(graph, sensitive, budget, q) ==
  LET x == Last(q.worklist)
      rest == Front(q.worklist)
      seen == q.visited \cup {VisitKey(x)}
  IN  IF VisitKey(x) \in q.visited THEN [q EXCEPT !.worklist = rest]
      ELSE IF Cardinality(seen) >= budget \/ Len(rest) >= budget
      THEN [q EXCEPT !.worklist = <<>>, !.visited = seen, !.truncated = TRUE]
      ELSE [q EXCEPT !.worklist = rest \o Steps(graph, sensitive, x),
                     !.visited = seen, !.recorded = @ \cup {x}]

RECURSIVE Visited(_, _, _, _)
Visited(graph, sensitive, budget, q) ==
  IF q.worklist = <<>> THEN q
  ELSE Visited(graph, sensitive, budget, Visit(graph, sensitive, budget, q))

Touched(nodes, p) ==
  {site \in Listed(p.indirect) : nodes \cap (Listed(p.args[site]) \cup p.result[site]) # {}}

Query(p, calls, sensitive, budget, f) ==
  LET done == Visited(Graph(p, calls), sensitive, budget, Start(f))
      nodes == {x.node : x \in done.recorded}
      sinks == {x.node : x \in {y \in done.recorded : y.phase = "forward" /\ y.stack = <<>>}}
  IN  [ callsites    |-> {site \in Listed(p.indirect) : p.operand[site] \in sinks /\ <<site, f>> \in p.compatible},
        dependencies |-> Touched(nodes, p),
        returns      |-> {g \in Functions : p.ret[g] \cap nodes # {}},
        nodes        |-> nodes,
        truncated    |-> done.truncated ]

(***************************************************************************)
(* Reports: one round for every function, or rounds to a fixpoint.         *)
(***************************************************************************)
Report(p, calls, sensitive, budget) ==
  [f \in QueriedFunctions(p) |-> Query(p, calls, sensitive, budget, f)]

Found(queries) == UNION {queries[f].callsites \X {f} : f \in DOMAIN queries}

\* Queries that touched a call that was bound, or the result of its target.
RerunAtCalls(dependencies, returns, found) ==
  {x[2] : x \in {y \in dependencies : \E call \in found : y[1] = call[1]}}

Rerun(dependencies, returns, found) ==
  {x[2] : x \in {y \in dependencies : \E call \in found : y[1] = call[1]}}
    \cup {x[2] : x \in {y \in returns : \E call \in found : y[1] = call[2]}}

Round(p, budget, x) ==
  LET answers == [f \in x.pending |-> Query(p, x.targets, TRUE, budget, f)]
      found == Found(answers) \ x.targets
      dependencies == x.dependencies \cup UNION {answers[f].dependencies \X {f} : f \in x.pending}
      returns == x.returns \cup UNION {answers[f].returns \X {f} : f \in x.pending}
  IN  [ targets |-> x.targets \cup found, queries |-> answers @@ x.queries,
        dependencies |-> dependencies, returns |-> returns,
        pending |-> Rerun(dependencies, returns, found), rounds |-> x.rounds + 1 ]

RECURSIVE Rounds(_, _, _)
Rounds(p, budget, x) ==
  IF x.pending = {} \/ x.rounds = MaxRounds THEN x ELSE Rounds(p, budget, Round(p, budget, x))

Fixpoint(p, budget) ==
  Rounds(p, budget, [ targets |-> {}, queries |-> [f \in {} |-> {}], dependencies |-> {}, returns |-> {},
                      pending |-> QueriedFunctions(p), rounds |-> 0 ])

\* fallback_for_truncated_queries: at the calls a truncated query touched, the
\* base tier answers.
Truncated(queries) == {f \in DOMAIN queries : queries[f].truncated}
FallbackSites(queries) ==
  UNION {queries[f].callsites \cup queries[f].dependencies : f \in Truncated(queries)}

Answered(queries, site) ==
  IF site \in FallbackSites(queries) THEN CallTargets(site)
  ELSE {f \in DOMAIN queries : site \in queries[f].callsites}

(***************************************************************************)
(* Properties.  The module on its own: no foreign code, and calls bound as *)
(* they are executed.                                                      *)
(***************************************************************************)
Alone(p) == [p EXCEPT !.seeds = <<>>, !.entry = {}, !.external = {}]
AloneExecuted == [p \in Programs |-> Executed(Alone(p))]
Executes(p) == Called(Alone(p), AloneExecuted[p])

Fixpoints == [p \in Programs |-> Fixpoint(p, Ample)]

\* No address is read from memory, nor moved with it.
AddressesInValues(p) ==
  LET loaded == {e.dst : e \in {d \in EdgesIn(p, "load") : Pointer(p, d.dst)}}
      moves == {<<e.src, e.dst>> : e \in EdgesIn(p, "assign") \cup EdgesIn(p, "gep")}
                 \cup UNION {Bindings(p, c) : c \in Executes(p)}
  IN  /\ EdgesIn(p, "memcpy") = {}
      /\ Reach(moves, loaded) \cap ({e.dst : e \in EdgesIn(p, "store")} \cup {e.src : e \in EdgesIn(p, "load")}) = {}

\* No executed call is missed, unless by a truncated query at a call that it
\* did not get to.
CallsFound(p, budget) ==
  LET queries == Report(Alone(p), Executes(p), FALSE, budget)
  IN  \A call \in Executes(p) :
        \/ call[2] \in Answered(queries, call[1]) \/ UnknownCallee(call[1])
        \/ call[2] \in Truncated(queries) /\ call[1] \notin FallbackSites(queries)

Refines(p, calls) ==
  LET fine == Report(p, calls, TRUE, Ample)
      coarse == Report(p, calls, FALSE, Ample)
  IN  Truncated(coarse) = {} => Found(fine) \subseteq Found(coarse)

Settled(p, x) ==
  /\ x.pending = {}
  /\ \A f \in QueriedFunctions(p) :
       x.queries[f].nodes \cap (UNION {ParamsOf(p, call[2]) : call \in x.targets}) = {}
         => Query(p, x.targets, TRUE, Ample, f) = x.queries[f]

\* At rest, for the program being solved: rerunning the queries on the final
\* graph finds nothing, except where a query reached a bound parameter; the
\* finer kernel finds no call the coarser does not; and no call is missed.
QueriesAgree ==
  AtRest => LET recorded == Recorded IN
    /\ Settled(recorded, Fixpoints[recorded])
    /\ Refines(recorded, Fixpoints[recorded].targets)
    /\ AddressesInValues(recorded) => \A budget \in QueryBudgets : CallsFound(recorded, budget)
=============================================================================
