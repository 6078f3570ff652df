----------------------------- MODULE RefinedCalls -----------------------------
(***************************************************************************)
(* What the inclusion tier solves (Refiner::build_base_solve and run): the *)
(* constraints of the graph it takes on, with calls through pointers bound *)
(* as their targets are found.  The solver's own order of work is module   *)
(* AndersenSolve, exhaustion module OnTheFlyCallGraph; here the least      *)
(* solution is taken at once.                                              *)
(***************************************************************************)
EXTENDS PartitionScope

(***************************************************************************)
(* Cells: nodes, fields of objects, and regions of what lies outside.      *)
(***************************************************************************)
FieldCell(o, location) == <<"field", <<o, location>>>>
Extern(kind, name) == <<"extern", <<kind, name>>>>
IsField(x) == x[1] = "field"
IsExtern(x) == x[1] = "extern"
allocation_root(x) == IF IsField(x) THEN x[2][1] ELSE x
may_contain_function_pointer(x) == IsExtern(x) /\ x[2][1] # "arguments"

\* Facts are pairs of a cell and what it may point to.
Pts(s, x) == {y[2] : y \in {z \in s : z[1] = x}}
FunctionsAmong(pointees) == {o[2] : o \in {r \in {allocation_root(x) : x \in pointees} : r[1] = "function"}}

(***************************************************************************)
(* Constraints.  Stores name the address and the cell whose contents, or   *)
(* the region that, is stored.                                             *)
(***************************************************************************)
NoConstraint == [addrs |-> {}, copies |-> {}, loads |-> {}, stores |-> {}, geps |-> {}, memcpys |-> {}, locations |-> {}]
Also(a, b) == [k \in DOMAIN NoConstraint |-> a[k] \cup b[k]]

EdgeConstraints(p, addresses, edges) ==
  LET Of(kind) == {e \in edges : e.kind = kind}
      fixed == {e \in Of("gep") : Certified(addresses, e.dst) # {}}
  IN  [ addrs |-> {<<e.dst, e.src>> : e \in Of("addrof")}
                  \cup UNION {{<<e.dst, FieldCell(a.root, a.at)>> : a \in Certified(addresses, e.dst)} : e \in fixed},
        copies |-> {<<e.src, e.dst>> : e \in {x \in Of("assign") : Transfers(p, x.src, x.dst)}},
        loads |-> {<<e.src, e.dst>> : e \in {x \in Of("load") : Carries(p, x.dst)}},
        stores |-> {<<e.dst, e.src>> : e \in {x \in Of("store") : Carries(p, x.src)}},
        geps |-> {<<e.src, e.delta, e.dst>> : e \in Of("gep") \ fixed},
        memcpys |-> {<<e.dst, e.src>> : e \in Of("memcpy")},
        locations |-> {x[2].at : x \in addresses} \cup {e.delta : e \in Of("gep")} ]

\* Only nodes that are taken on are seeded.
PointsToRegion(scope, nodes, region) == [NoConstraint EXCEPT !.addrs = (nodes \cap scope) \X {region}]
StoredThrough(scope, nodes, region) == [NoConstraint EXCEPT !.stores = (nodes \cap scope) \X {region}]

apply_external_call_effects(scope, site) ==
  Also(StoredThrough(scope, Elements(site.args), Extern("client", site.at)),
       PointsToRegion(scope, site.result, Extern("returned", site.at)))
apply_vararg_call_effects(scope, site) ==
  StoredThrough(scope, {site.args[k] : k \in {j \in DOMAIN site.args : j > site.fixed}}, Extern("client", site.at))

\* A mutant: what escaped functions are called with is left out.
BoundaryOfSeeds(p, g, base, scope) ==
  [NoConstraint EXCEPT
     !.addrs = {<<s[2], Extern("forged", s[2])>> : s \in {x \in g.seeds : x[1] = "inttoptr" /\ x[2] \in scope}}
       \cup {<<s[2], Extern("result", s[2])>> : s \in {x \in g.seeds : x[1] = "result" /\ x[2] \in scope}}]
SeedConstraint(g, scope, s) ==
  CASE s[1] = "inttoptr" -> PointsToRegion(scope, {s[2]}, Extern("forged", s[2]))
    [] s[1] = "result" -> PointsToRegion(scope, {s[2]}, Extern("result", s[2]))
    [] s[1] \in {"ptrtoint", "operand"} -> StoredThrough(scope, {s[2]}, Extern("storage", ""))
    [] s[1] = "exported" -> PointsToRegion(scope, IF s[2][1] = "global" THEN {s[2]} ELSE {}, Extern("storage", ""))
    [] s[1] = "list_payload" -> StoredThrough(scope, {s[2]}, Extern("payload", s[2]))
    [] OTHER -> NoConstraint
SiteConstraint(g, scope, site) ==
  Also(IF Seed("external", site.at) \in g.seeds THEN apply_external_call_effects(scope, site) ELSE NoConstraint,
       IF Seed("vararg", site.at) \in g.seeds THEN apply_vararg_call_effects(scope, site) ELSE NoConstraint)
All(constraints) == [k \in DOMAIN NoConstraint |-> UNION {x[k] : x \in constraints}]

ParamsFrom(p, f, first) == {n \in {Param(f, k) : k \in {j \in DOMAIN Params(p, f) : j >= first}} : Carries(p, n)}
seed_escaped_function_params(p, base, scope) ==
  All({PointsToRegion(scope, {n}, Extern("param", n)) :
         n \in UNION {ParamsFrom(p, o[2], 1) : o \in {x \in base.escaped : x[1] = "function"}}})
seed_main_entry_params(p, scope) ==
  PointsToRegion(scope, IF p.library \/ "main" \notin Functions(p) THEN {} ELSE ParamsFrom(p, "main", 2), Extern("arguments", ""))

apply_boundary_omega_seeds(p, g, base, scope) ==
  Also(Also(All({SeedConstraint(g, scope, s) : s \in g.seeds}), All({SiteConstraint(g, scope, site) : site \in g.calls})),
       Also(seed_escaped_function_params(p, base, scope), seed_main_entry_params(p, scope)))

\* Payloads put into a receiver, and got out of it (opt-in).
PayloadFacts(p, g, complete, x, cell) ==
  IF ~Carries(p, x) THEN NoConstraint
  ELSE [NoConstraint EXCEPT
          !.addrs = {cell} \X (KeptOrigins(g, x) \cup IF x \in complete THEN {} ELSE {Extern("receiver", cell[2])})]
PayloadCopies(p, separate, calls) ==
  LET Created(call) == {x[2] : x \in {y \in PayloadArguments(call) : Carries(p, y[1])}}
                       \cup {x[1] : x \in {y \in PayloadResults(call) : Carries(p, y[2])}}
      created == UNION {{call.root} \X Created(call) : call \in calls}
      Read(call, x) == {c \in created : c[1] = call.root /\ IF separate THEN may_alias(x[1], c[2]) ELSE c[2] = x[1]}
  IN  UNION {UNION {{<<PayloadCell(c[1], c[2]), x[2]>> : c \in Read(call, x)}
                    : x \in {y \in PayloadResults(call) : Carries(p, y[2])}} : call \in calls}
apply_receiver_payload_summaries(p, g, separate, calls) ==
  LET complete == IF calls = {} THEN {} ELSE CompleteOrigins(g, AllNodes(p, g))
  IN  Also([NoConstraint EXCEPT !.copies = PayloadCopies(p, separate, calls)],
           All(UNION {{PayloadFacts(p, g, complete, x[1], PayloadCell(call.root, x[2])) : x \in PayloadArguments(call)} : call \in calls}))

build_base_solve(p, g, base, addresses, scope, separate, summaries) ==
  LET kept == {e \in g.edges : (e.src \in scope \/ e.dst \in scope)
                               /\ <<e.src, e.dst>> \notin receiver_payload_binding_edges(p, summaries)}
  IN  Also(Also(EdgeConstraints(p, addresses, kept), apply_boundary_omega_seeds(p, g, base, scope)),
           apply_receiver_payload_summaries(p, g, separate, summaries))

(***************************************************************************)
(* Targets of calls (discover_targets, activate_target).                   *)
(***************************************************************************)
Sites(g, scope) == {site \in Indirect(g) : site.operand \subseteq scope}
Pointees(s, site) == UNION {Pts(s, n) : n \in site.operand}
OperandUnknown(s, site) == \E x \in Pointees(s, site) : may_contain_function_pointer(x)
\* With payloads told apart an unknown callee is any function, but none is
\* bound before it is found.
Contextual(base) == [base EXCEPT !.contextual = TRUE]
Envelope(base, site) ==
  IF base.contextual /\ site.at \in base.unknown THEN base.functions ELSE Allowed(base, site)
Activated(base, s, site) ==
  IF (site.at \in base.unknown /\ ~base.contextual) \/ OperandUnknown(s, site) THEN Envelope(base, site)
  ELSE FunctionsAmong(Pointees(s, site)) \cap Envelope(base, site)
activate_target(p, scope, site, f) ==
  Also([NoConstraint EXCEPT !.copies = BindingsTo(p, site, f)],
       IF External(p, f) THEN apply_external_call_effects(scope, site) ELSE NoConstraint)

(***************************************************************************)
(* The least solution.                                                     *)
(***************************************************************************)
NestedIn(locations, field, delta) ==
  LET sum == add(field[2][2], delta)
  IN  IF sum = field[2][2] \/ IsLane(sum) \/ sum \in locations THEN sum ELSE Unknown
field_of(locations, o, delta) ==
  IF IsExtern(o) THEN o
  ELSE IF ~IsField(o) THEN FieldCell(o, delta)
  ELSE IF IsUnknown(o[2][2]) THEN o ELSE FieldCell(o[2][1], NestedIn(locations, o, delta))

DirectRoots(u, s) ==
  {o \in (UNION {Pts(s, x[1]) : x \in u.loads \cup u.stores \cup u.memcpys}) \cup UNION {Pts(s, x[2]) : x \in u.memcpys}
     : ~IsField(o) /\ ~IsExtern(o)}
FieldsIn(s, direct) == {y \in {x[2] : x \in s} : IsField(y)} \cup {FieldCell(o, Unknown) : o \in direct}
Overlap(fields, direct) ==
  {a \in fields \X fields : a[1] # a[2] /\ a[1][2][1] = a[2][2][1] /\ may_alias(a[1][2][2], a[2][2][2])}
  \cup {<<o, FieldCell(o, Unknown)>> : o \in direct} \cup {<<FieldCell(o, Unknown), o>> : o \in direct}

FieldCells(s) == {x \in {y[1] : y \in s} \cup {y[2] : y \in s} : IsField(x)}
PayloadCells(s) == {x \in {y[1] : y \in s} : IsPayload(x)}
fields_of(s, root) == {x \in FieldCells(s) : x[2][1] = root}
content_fields(s, root) == {x \in FieldCells(s) \cup PayloadCells(s) : x[2][1] = root}

(***************************************************************************)
(* Overlap on request (opt-in): fields keep what was stored to them, and a *)
(* read takes from all that may overlap.  Bulk copies stay whole.          *)
(***************************************************************************)
location_of(x) == IF IsField(x) THEN x[2][2] ELSE Unknown
overlap_read_cells(s, separate, x) ==
  IF ~separate \/ IsExtern(x) THEN {x}
  ELSE {y \in {allocation_root(x)} \cup fields_of(s, allocation_root(x)) : may_alias(location_of(x), location_of(y))}
ReadFrom(s, separate, objects) == UNION {overlap_read_cells(s, separate, o) : o \in objects}
Whole(separate, objects) == IF separate THEN {allocation_root(o) : o \in objects} ELSE objects

FlowOf(s, arcs) == UNION {{a[2]} \X Pts(s, a[1]) : a \in arcs}
Contents(s, addresses) == UNION {Pts(s, o) : o \in addresses}
Stored(s, v) == IF IsExtern(v) THEN {v} ELSE Pts(s, v)
Required(u, separate, s) ==
  LET direct == DirectRoots(u, s)
  IN  s \cup u.addrs \cup FlowOf(s, u.copies) \cup (IF separate THEN {} ELSE FlowOf(s, Overlap(FieldsIn(s, direct), direct)))
      \cup (UNION {{x[2]} \X Contents(s, ReadFrom(s, separate, Pts(s, x[1]))) : x \in u.loads})
      \cup (UNION {Pts(s, x[1]) \X Stored(s, x[2]) : x \in u.stores})
      \cup (UNION {{<<x[3], field_of(u.locations, o, x[2])>> : o \in Pts(s, x[1])} : x \in u.geps})
      \cup (UNION {Whole(separate, Pts(s, x[1])) \X Contents(s, ReadFrom(s, separate, Whole(separate, Pts(s, x[2])))) : x \in u.memcpys})
      \cup {<<r, r>> : r \in {x \in {y[2] : y \in u.addrs \cup u.stores} : IsExtern(x)}}

RECURSIVE SolveFrom(_, _, _, _, _, _, _)
SolveFrom(p, g, base, scope, separate, fixed, s) ==
  LET bound == All({fixed} \cup UNION {{activate_target(p, scope, site, f) : f \in Activated(base, s, site)} : site \in Sites(g, scope)})
      next == Required(bound, separate, s)
  IN  IF next = s THEN s ELSE SolveFrom(p, g, base, scope, separate, fixed, next)
=============================================================================
