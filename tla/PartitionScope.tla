---------------------------- MODULE PartitionScope ----------------------------
(***************************************************************************)
(* What the inclusion tier takes on (Refiner::build_scope).  The graph is  *)
(* cut into weak components; those that hold nothing of interest, or cost  *)
(* too much, keep the answers of the tier before.  A vertex is a node, a   *)
(* region of an allocation whose address is certified, or a hub between    *)
(* writers and readers that may meet.  Of a component that costs too much, *)
(* what the operands of calls depend on may still be taken.                *)
(***************************************************************************)
EXTENDS ReceiverPayloads

CONSTANTS
  MaxPromoted,  \* nodes, and edges, of a component admitted above the budget
  MaxClosed     \* the same where certificates are wanted

(***************************************************************************)
(* The tier before: what escaped, which nodes may hold what lies outside,  *)
(* what each call may reach and which storage a node's pointers name.  It  *)
(* is sound, and as precise as the graph's facts or as coarse as can be.   *)
(***************************************************************************)
Base(p, g, s, coarse) ==
  LET objects == {n \in AllNodes(p, g) : IsObject(n)}
      taken == {o[2] : o \in {x \in UNION {ObjectsHeld(s, n) : n \in AllNodes(p, g)} : x[1] = "function"}}
      Reaching(site) == {o[2] : o \in {x \in Reached(s, site) : x[1] = "function"}}
      Linked(n) == {<<a, b>> : a \in ObjectsHeld(s, n), b \in ObjectsHeld(s, n)}
  IN  [ coarse |-> coarse, contextual |-> FALSE, functions |-> Functions(p),
        escaped |-> IF coarse THEN objects \cup {Outside} ELSE s.escaped,
        external |-> IF coarse THEN AllNodes(p, g) ELSE {n \in AllNodes(p, g) : Outside \in ObjectsHeld(s, n)},
        targets |-> UNION {{<<site.at, f>> : f \in IF coarse THEN taken ELSE Reaching(site)} : site \in Indirect(g)},
        unknown |-> {site.at : site \in {x \in Indirect(g) : coarse \/ \E o \in Reached(s, x) : Leaves(p, o)}},
        storage |-> IF coarse THEN objects \X objects ELSE UNION {Linked(n) : n \in AllNodes(p, g)},
        holds |-> [n \in AllNodes(p, g) |-> ObjectsHeld(s, n)] ]
UnknownCallers(p, base) == {o[2] : o \in {x \in base.escaped : x[1] = "function" /\ ~External(p, x[2])}}
\* The storage class of what n points to: of no use where it points nowhere.
StorageOf(base, n) == Ahead(base.storage, base.holds[n])

(***************************************************************************)
(* Vertices of storage.  A cell is a byte wide; a block has no known end.  *)
(***************************************************************************)
RegionVertex(root, region) == <<"region", <<root, region>>>>
Byte == {1}
Point == {0}
Block1 == {}
IsRegion(v) == v[1] = "region"

\* otherwise: the vertex where n's address is not certified.
StorageVertex(addresses, n, width, direct, otherwise) ==
  LET known1 == Certified(addresses, n) IN
  IF known1 = {} THEN otherwise
  ELSE LET a == CHOOSE x \in known1 : TRUE
       IN  IF direct /\ a.at = Exact(0) /\ ~a.moved THEN a.root ELSE RegionVertex(a.root, Region(a.at, width))

\* The vertices an edge joins, none where it moves no pointer.
Ends(p, addresses, e) ==
  CASE e.kind = "addrof" -> {<<e.dst, e.src>>}
    [] e.kind = "assign" -> IF Transfers(p, e.src, e.dst) THEN {<<e.src, e.dst>>} ELSE {}
    [] e.kind = "load" -> IF Carries(p, e.dst) THEN {<<StorageVertex(addresses, e.src, Byte, TRUE, e.src), e.dst>>} ELSE {}
    [] e.kind = "store" -> IF Carries(p, e.src) THEN {<<StorageVertex(addresses, e.dst, Byte, TRUE, e.dst), e.src>>} ELSE {}
    [] e.kind = "gep" -> {<<e.dst, StorageVertex(addresses, e.dst, Point, FALSE, e.src)>>}
    [] e.kind = "memcpy" -> {<<StorageVertex(addresses, e.dst, Block1, FALSE, e.dst),
                               StorageVertex(addresses, e.src, Block1, FALSE, e.src)>>}
\* Which way facts flow between them, and from the address.
Flows(e, ends) ==
  (IF e.kind \in {"assign", "load"} THEN ends ELSE Turned(ends))
  \cup UNION {CASE e.kind = "load" /\ x[1] # e.src -> {<<e.src, e.dst>>}
                [] e.kind = "store" /\ x[1] # e.dst -> {<<e.dst, x[1]>>}
                [] e.kind = "memcpy" -> {<<e.src, x[1]>>, <<e.dst, x[1]>>}
                [] OTHER -> {} : x \in ends}
Joined(e, ends) ==
  ends \cup (IF e.kind # "memcpy" THEN {} ELSE UNION {{<<e.src, x[1]>>, <<e.dst, x[1]>>} : x \in ends})

\* Regions of one allocation that may share a byte.
SharedRegions(vertices) ==
  LET regions == {v \in vertices : IsRegion(v)}
  IN  {a \in regions \X regions : a[1] # a[2] /\ a[1][2][1] = a[2][2][1] /\ may_overlap(a[1][2][2], a[2][2][2])}

(***************************************************************************)
(* Memory support: a write may be read where the addresses name storage of *)
(* one class and not both are certified.                                   *)
(***************************************************************************)
Access(address, vertex, writes) == <<address, vertex, writes>>
Accesses(e, ends) ==
  UNION {CASE e.kind = "load" -> {Access(e.src, x[1], FALSE)}
           [] e.kind = "store" -> {Access(e.dst, x[1], TRUE)}
           [] e.kind = "memcpy" -> {Access(e.src, x[2], FALSE), Access(e.dst, x[1], TRUE)}
           [] OTHER -> {} : x \in ends}
Hub(storage, certified) == <<"hub", <<certified, storage>>>>
\* A mutant: uncertified writers reach no certified reader.
SupportOfUncertified(base, addresses, accesses) ==
  UNION {LET storage == StorageOf(base, x[1])
             there == {a \in accesses : StorageOf(base, a[1]) = storage}
             readers == {a \in there : ~a[3] /\ Certified(addresses, a[1]) = {}}
             writers == {a \in there : a[3]}
         IN  IF readers = {} \/ writers = {} THEN {}
             ELSE {<<a[2], Hub(storage, FALSE)>> : a \in writers} \cup {<<Hub(storage, FALSE), a[2]>> : a \in readers}
         : x \in {a \in accesses : ~a[3] /\ base.holds[a[1]] # {}}}
Support(base, addresses, accesses) ==
  UNION {LET storage == StorageOf(base, x[1])
             certified == Certified(addresses, x[1]) # {}
             there == {a \in accesses : StorageOf(base, a[1]) = storage}
             readers == {a \in there : ~a[3] /\ (Certified(addresses, a[1]) # {}) = certified}
             writers == {a \in there : a[3] /\ (certified => Certified(addresses, a[1]) = {})}
         IN  IF writers = {} THEN {}
             ELSE {<<a[2], Hub(storage, certified)>> : a \in writers} \cup {<<Hub(storage, certified), a[2]>> : a \in readers}
         : x \in {a \in accesses : ~a[3] /\ base.holds[a[1]] # {}}}

(***************************************************************************)
(* Calls: what the tier before allows to be bound, and that nothing is     *)
(* bound before the operand is known.                                      *)
(***************************************************************************)
Allowed(base, site) == {x[2] : x \in {y \in base.targets : y[1] = site.at}}
BindingsTo(p, site, f) ==
  {<<site.args[k], Param(f, k)>> : k \in {j \in DOMAIN site.args \cap DOMAIN Params(p, f) : Transfers(p, site.args[j], Param(f, j))}}
  \cup {<<Ret(f), n>> : n \in {r \in site.result : Transfers(p, Ret(f), r)}}
CallFlows(p, base, site) ==
  LET bound == UNION {BindingsTo(p, site, f) : f \in Allowed(base, site)}
  IN  bound \cup (site.operand \X {a[2] : a \in bound})

(***************************************************************************)
(* The partition graph.                                                    *)
(***************************************************************************)
PartitionGraph(p, g, base, addresses, summaries) ==
  LET kept == {e \in g.edges : <<e.src, e.dst>> \notin receiver_payload_binding_edges(p, summaries)}
      ends == {<<e, Ends(p, addresses, e)>> : e \in kept}
      support == Support(base, addresses, UNION {Accesses(x[1], x[2]) : x \in ends})
      calls == UNION {CallFlows(p, base, site) : site \in Indirect(g)}
      flows == UNION {Flows(x[1], x[2]) : x \in ends}
      reads == PayloadReads(summaries)
      vertices == AllNodes(p, g) \cup UNION {{a[1], a[2]} : a \in flows \cup support \cup reads}
      payload == PayloadSupport(g, summaries, vertices)
      shared == SharedRegions(vertices)
  IN  [ vertices |-> vertices \cup {a[2] : a \in payload}, support |-> support, payload |-> payload,
        unions |-> (UNION {Joined(x[1], x[2]) : x \in ends}) \cup support \cup calls \cup shared \cup reads,
        flows |-> flows \cup support \cup calls \cup shared \cup reads \cup payload,
        edges |-> UNION {{<<x[1], y[1]>> : y \in x[2]} : x \in ends} ]

Component(graph1, v) == Ahead(graph1.unions \cup Turned(graph1.unions), {v})
InterestingVertices(p, g, base, graph1) ==
  Operands(g) \cup base.external \cup (base.escaped \ {Outside}) \cup {a[1] : a \in graph1.payload}
  \cup {v \in graph1.vertices : v[1] = "global" \/ (v[1] \in {"region", "payload"} /\ v[2][1][1] = "global")}

(***************************************************************************)
(* What fits.  The limits are the budget, whether it is large enough for   *)
(* sparse components to be promoted, and whether certificates are wanted.  *)
(***************************************************************************)
Cost(nodes, edges) == nodes * (nodes + edges)
EdgesIn(graph1, part) ==
  Cardinality({x \in graph1.edges : x[2] \in part}) + Cardinality({a \in graph1.support : a[1] \in part})
Small(nodes, edges, most) == nodes <= most /\ edges <= most
Oversize(g, graph1, part, limits) ==
  LET nodes == Cardinality(part)
      edges == EdgesIn(graph1, part)
      forged == \E s \in g.seeds : s[1] = "inttoptr" /\ s[2] \in part
  IN  /\ Cost(nodes, edges) > limits.budget
      /\ ~(limits.promotes /\ Small(nodes, edges, MaxPromoted) /\ ~forged)
      /\ limits.certifies => (Operands(g) \cap part = {} \/ forged \/ ~Small(nodes, edges, MaxClosed))

\* The smallest sources that still fit are taken one after the other.
RECURSIVE TakenFrom(_, _, _, _)
TakenFrom(flows, closures, taken, budget) ==
  IF closures = {} THEN taken
  ELSE LET next == CHOOSE x \in closures : \A y \in closures : Cardinality(x) <= Cardinality(y)
           grown == taken \cup next
           fits == Cost(Cardinality(grown), Cardinality({a \in flows : a[2] \in grown})) <= budget
       IN  TakenFrom(flows, closures \ {next}, IF fits THEN grown ELSE taken, budget)
directional_icall_slice(g, graph1, part, budget) ==
  LET flows == {a \in graph1.flows : a[1] \in part /\ a[2] \in part}
  IN  TakenFrom(flows, {Behind(flows, {n}) : n \in Operands(g) \cap part}, {}, budget)

ScopeOf(p, g, base, graph1, limits) ==
  LET parts == {Component(graph1, v) : v \in InterestingVertices(p, g, base, graph1)}
      Admitted(part) == IF Oversize(g, graph1, part, limits)
                          THEN directional_icall_slice(g, graph1, part, limits.budget) ELSE part
  IN  (UNION {Admitted(part) : part \in parts}) \cap AllNodes(p, g)
=============================================================================
