--------------------------- MODULE CallCertificates ---------------------------
(***************************************************************************)
(* What the inclusion tier answers: certificates that the operand of a     *)
(* call has no producer out of sight and that a function has no caller out *)
(* of sight, the rows of calls and of nodes (closed_producer_analysis,     *)
(* closed_consumer_certificates, emit_indirect_calls,                      *)
(* emit_node_resolutions, finish_andersen_controlled).  The answers are    *)
(* given once the graph is finished; then the program runs.                *)
(***************************************************************************)
EXTENDS OfflineQuotient, PointerGraphProperties

CONSTANT Limits(_)   \* the settings the tier is run with on a program

VARIABLE answers  \* one for each setting and each tier before

(***************************************************************************)
(* Closed producers: every cell the operand's contents may come from is    *)
(* accounted for, back to where addresses are taken.                       *)
(***************************************************************************)
Inner(pointees) == {o \in pointees : ~IsExtern(o)}
ProducerArcs(p, g, separate, s) ==
  {<<e.src, e.dst>> : e \in {x \in g.edges : x.kind \in {"assign", "gep"} /\ Transfers(p, x.src, x.dst)}}
  \cup (UNION {{<<o, e.dst>> : o \in {e.src} \cup ReadFrom(s, separate, Inner(Pts(s, e.src)))} : e \in {x \in g.edges : x.kind = "load" /\ Pts(s, x.src) # {}}})
  \cup UNION {{e.src, e.dst} \X Inner(Pts(s, e.dst)) : e \in {x \in g.edges : x.kind = "store"}}

\* Labels that end in a zero: null, and a function's first parameter.
EndsInZero(p, n) ==
  \/ n[1] = "value" /\ n[2][2] = "null"
  \/ n[1] = "param" /\ n[2][2] = 1
Terminals(p, g, addresses) ==
  {n \in AllNodes(p, g) : Certified(addresses, n) # {} \/ EndsInZero(p, n)} \cup {e.dst : e \in {x \in g.edges : x.kind = "addrof"}}

ExplicitlyOpen(p, g, addresses, scope, separate, s) ==
  {n \in AllNodes(p, g) : n \notin scope /\ Certified(addresses, n) = {}}
  \cup {x[1] : x \in {y \in s : IsExtern(y[2])}}
  \cup {e.dst : e \in {x \in g.edges : x.kind = "load" /\ (Pts(s, x.src) = {} \/ Inner(Pts(s, x.src)) # Pts(s, x.src))}}
  \cup UNION {UNION {{o} \cup content_fields(s, o) : o \in Inner(Whole(separate, Pts(s, e.dst)))} : e \in {x \in g.edges : x.kind = "memcpy"}}

\* A cycle that nothing feeds is no evidence of a value.
Unfed(arcs, terminals, cells) ==
  {x \in cells : LET from == Behind(arcs, {x}) IN from \cap terminals = {} /\ from \subseteq Ahead(arcs, {x})}
OpenCells(p, g, addresses, scope, separate, s) ==
  LET arcs == {a \in ProducerArcs(p, g, separate, s) : a[1] # a[2]}
      cells == AllNodes(p, g) \cup FieldCells(s)
      produced == {a[2] : a \in arcs} \cup Terminals(p, g, addresses)
  IN  Ahead(arcs, ExplicitlyOpen(p, g, addresses, scope, separate, s) \cup (cells \ produced) \cup Unfed(arcs, Terminals(p, g, addresses), cells))

IsCode(x) == ~IsExtern(x) /\ allocation_root(x)[1] = "function"
query_closed_producer(open, s, site) ==
  /\ site.operand \cap open = {}
  /\ Pointees(s, site) # {} /\ \A x \in Pointees(s, site) : IsCode(x)

(***************************************************************************)
(* Closed consumers: wherever a function's address goes, it was followed,  *)
(* and none of it is a place that code out of sight can look at.           *)
(***************************************************************************)
Codes(s, x) == FunctionsAmong(Inner(Pts(s, x)))
CodesIn(s, objects) == UNION {Codes(s, o) : o \in objects}
Lost(s, from, objects) ==
  (UNION {IF IsExtern(o) THEN from ELSE from \ Codes(s, o) : o \in objects}) \cup (IF objects = {} THEN from ELSE {})

\* Functions whose address a transfer drops, or uses as no address of code.
DroppedBy(scope, separate, s, e) ==
  CASE e.kind = "addrof" -> IF e.src[1] = "function" THEN {e.src[2]} \ Codes(s, e.dst) ELSE {}
    [] e.kind = "assign" -> Codes(s, e.src) \ Codes(s, e.dst)
    [] e.kind = "gep" -> Codes(s, e.src)
    [] e.kind = "load" -> Codes(s, e.src) \cup (CodesIn(s, ReadFrom(s, separate, Inner(Pts(s, e.src)))) \ Codes(s, e.dst))
    [] e.kind = "store" -> Codes(s, e.dst) \cup Lost(s, Codes(s, e.src), Pts(s, e.dst))
    [] e.kind = "memcpy" ->
         LET copied == CodesIn(s, ReadFrom(s, separate, Whole(separate, Pts(s, e.src))))
         IN  Codes(s, e.src) \cup Codes(s, e.dst)
             \cup (IF e.src \notin scope /\ e.dst \notin scope THEN copied
                   ELSE IF Pts(s, e.dst) = {} THEN {} ELSE Lost(s, copied, Whole(separate, Pts(s, e.dst))))

Exposed(g) == {s[2] : s \in {x \in g.seeds : x[1] \in {"exported", "imported", "ptrtoint", "operand"}}}
ArgumentsOut(g) ==
  UNION {{site.args[k] : k \in {j \in DOMAIN site.args : Seed("external", site.at) \in g.seeds
                                   \/ (Seed("vararg", site.at) \in g.seeds /\ j > site.fixed)}} : site \in g.calls}
\* A mutant: what an exposed function returns is not looked at.
RootsButReturns(p, g, base, s) ==
  {x \in {y[1] : y \in s} \cup {y[2] : y \in s} : IsExtern(x)} \cup Exposed(g) \cup ArgumentsOut(g)
BoundaryRoots(p, g, base, s) ==
  {x \in {y[1] : y \in s} \cup {y[2] : y \in s} : IsExtern(x)} \cup Exposed(g) \cup ArgumentsOut(g)
  \cup {Ret(f) : f \in UnknownCallers(p, base)}

\* What can be looked at from a cell: what it points to, and the fields of
\* what it points to, or of itself where it is an allocation.
LookedAt(s) ==
  (UNION {{<<y[1], y[2]>>} \cup {<<y[1], x>> : x \in content_fields(s, allocation_root(y[2]))} : y \in {z \in s : ~IsExtern(z[2]) /\ ~IsCode(z[2])}})
  \cup {<<x[2][1], x>> : x \in FieldCells(s) \cup PayloadCells(s)}
closed_consumer_certificates(p, g, base, scope, separate, s) ==
  LET seen == Ahead(LookedAt(s), BoundaryRoots(p, g, base, s))
      taken == {e.src[2] : e \in {x \in g.edges : x.kind = "addrof" /\ x.src[1] = "function"}}
      open == (UNION {DroppedBy(scope, separate, s, e) : e \in g.edges}) \cup FunctionsAmong(Exposed(g)) \cup CodesIn(s, seen)
  IN  (taken \ open) \cap UnknownCallers(p, base)

(***************************************************************************)
(* Rows.                                                                   *)
(***************************************************************************)
Row(site, targets, unknown) == [at |-> site.at, targets |-> targets, unknown |-> unknown]
BaseRow(base, site) == Row(site, Allowed(base, site), site.at \in base.unknown)
StaysUnknown(base, s, separate, site) ==
  OperandUnknown(s, site) \/ (site.at \in base.unknown /\ (base.contextual => separate))
RowOf(base, scope, s, open, certifies, separate, site) ==
  LET activated == Activated(base, s, site)
  IN IF ~(site.operand \subseteq scope) THEN BaseRow(base, site)
     ELSE IF certifies /\ query_closed_producer(open, s, site) THEN Row(site, FunctionsAmong(Pointees(s, site)), FALSE)
     ELSE IF activated = {} /\ ~OperandUnknown(s, site) THEN BaseRow(base, site)
     ELSE Row(site, activated, StaysUnknown(base, s, separate, site) \/ activated = {})
NodeRow(s, n) ==
  [ node |-> n, external |-> \E x \in Pts(s, n) : IsExtern(x),
    code |-> \E x \in Pts(s, n) : may_contain_function_pointer(x) \/ IsCode(x),
    globals |-> {o[2] : o \in {r \in {allocation_root(x) : x \in Pts(s, n)} : r[1] = "global"}} ]

\* No certificate is given where payloads and overlap both are told apart.
Certifies(base, limits) == limits.certifies /\ ~(base.contextual /\ limits.separate)
AnswerOf(p, g, base, limits, scope, s, open) ==
  [ limits |-> limits, coarse |-> base.coarse, scope |-> scope,
    calls |-> {RowOf(base, scope, s, open, Certifies(base, limits), limits.separate, site) : site \in Indirect(g)},
    nodes |-> {NodeRow(s, n) : n \in {m \in scope : m[1] \in {"value", "symbol", "param", "return"}}},
    callers |-> UnknownCallers(p, base)
      \ (IF Certifies(base, limits) THEN closed_consumer_certificates(p, g, base, scope, limits.separate, s) ELSE {}) ]
Answered(p, g, base, addresses, limits, scope, s) ==
  AnswerOf(p, g, base, limits, scope, s,
           IF Certifies(base, limits) THEN OpenCells(p, g, addresses, scope, limits.separate, s) ELSE {})
SolvedIn(p, g, base, addresses, limits, scope, summaries) ==
  Answered(p, g, base, addresses, limits, scope, SolveWithin(p, g, base, addresses, scope, limits, summaries))
InScope(p, g, base, addresses, limits, summaries) ==
  SolvedIn(p, g, base, addresses, limits,
           ScopeOf(p, g, base, PartitionGraph(p, g, base, addresses, summaries), limits), summaries)
\* Without an operation among the functions payloads are not told apart.
WithOperations(p, g, base, addresses, limits, operations) ==
  IF DOMAIN operations = {} THEN InScope(p, g, base, addresses, limits, {})
  ELSE InScope(p, g, Contextual(base), addresses, limits, receiver_payload_summary_calls(g, addresses, operations))
finish_andersen(p, g, s, addresses) ==
  {WithOperations(p, g, Base(p, g, s, coarse), addresses, limits,
                  IF limits.receivers THEN infer_receiver_payload_ops(p, g, addresses) ELSE <<>>)
   : limits \in Limits(p), coarse \in BOOLEAN}

Refine ==
  /\ phase = "run" /\ answers = {}
  /\ answers' = finish_andersen(program, graph, solution, ExactAddresses(graph, roots))
  /\ UNCHANGED vars

CertifiedInit == ExecutionInit /\ answers = {}
CertifiedNext ==
  \/ Refine
  \/ (phase = "run" => answers # {}) /\ Next /\ UNCHANGED answers
CertifiedSpec == CertifiedInit /\ [][CertifiedNext]_<<vars, answers>>

(***************************************************************************)
(* What the answers promise of every run of the program, whatever part of  *)
(* the graph the tier took on and however coarse the tier before was.      *)
(***************************************************************************)
\* A call through a pointer that is about to be made reaches a function its
\* row names, or the row says that the callee is unknown: though the tier
\* bound the call only when it saw a target, left out what cost too much, and
\* took the unknown bit away where a certificate says that every producer of
\* the operand is in sight (emit_indirect_calls).
CallsAnswered ==
  \A at \in {x \in Statements(program) : At(program, x).op = "icall" /\ Ready(x) /\ IsPtr(In(x, 1))} :
    LET callee == In(at, 1)[2]
    IN  \A a \in answers : \A row \in {r \in a.calls : r.at = at} :
          /\ callee[1] = "function" => callee[2] \in row.targets \/ row.unknown
          /\ callee = Outside => row.unknown

\* A function that code out of sight knows of, and may so call, is among the
\* unknown callers' functions even where a certificate took some of them away
\* (closed_consumer_certificates).
OutsideCallsListed == \A a \in answers : KnownFunctions \subseteq a.callers

\* What a value points to is named by its refined row: a global by its name
\* or as something external, a function by the code bit, on which the clients'
\* access rows rest (emit_node_resolutions).  A function that puts a payload
\* into its receiver is not told of it where payloads are told apart.
PointeesNamed ==
  \A a \in {x \in answers : ~x.limits.receivers} : \A row \in a.nodes :
    row.node \in DOMAIN env /\ IsPtr(env[row.node]) /\ (row.node[1] = "return" \/ Home(row.node) \notin solution.audited) =>
      LET o == env[row.node][2]
      IN  /\ o[1] = "global" => o[2] \in row.globals \/ row.external
          /\ o[1] = "function" => row.code

\* The smaller constraint graph gives the same answers, though calls that were
\* not bound when it was made feed cells of it later (offline_quotient).
QuotientExact ==
  \A a \in {x \in answers : x.limits.quotient} :
    [a EXCEPT !.limits.quotient = FALSE] \in answers
=============================================================================
