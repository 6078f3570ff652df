---------------------------- MODULE PointerGraph ----------------------------
(***************************************************************************)
(* The pointer assignment graph (pangs-pag): every solver reads it instead *)
(* of the program.  The builder takes the statements one after the other   *)
(* and leaves edges between nodes, and seeds where control or data comes   *)
(* from or goes to code that is not in sight; then constant displacements  *)
(* around a cycle of pointer arithmetic are made lanes, and values are     *)
(* told from which allocation they come.                                   *)
(*                                                                         *)
(* A node is a pair of its kind and its name; names that statements give   *)
(* rise to are statement places <<function, index>>.                       *)
(***************************************************************************)
EXTENDS VariadicTails, IntegerPointers

CONSTANTS
  Programs,
  MinWide, MaxWide     \* i128, in which displacements are summed

VARIABLES
  program, phase,   \* "build", "lanes", "roots" or "run"
  todo,             \* the statements not yet lowered
  graph,            \* what has been built
  drawn,            \* the edges before lanes were inferred
  roots             \* what is proved of where values come from

(***************************************************************************)
(* Nodes.                                                                  *)
(***************************************************************************)
Value(f, v) == <<"value", <<f, v>>>>
Symbol(g) == <<"symbol", g>>
Param(f, k) == <<"param", <<f, k>>>>
Ret(f) == <<"return", f>>
AllocaObject(v) == <<"alloca", v>>
HeapObject(at) == <<"heap", at>>
CopyObject(at, k) == <<"byval", <<at[1], at[2], k>>>>
GlobalObject(g) == <<"global", g>>
FunctionObject(f) == <<"function", f>>
LibraryObject(name) == <<"library", name>>
StateAddress(name) == <<"address", name>>
NoPointer(at) == <<"nopointer", at>>         \* written where no pointer is
AnyPointer(at) == <<"anypointer", at>>       \* what scanf("%p") may write

ObjectKinds == {"alloca", "heap", "byval", "global", "function", "library"}
IsObject(n) == n[1] \in ObjectKinds
Functions(p) == DOMAIN p.params
\* operand_node: a symbol's name is its address.
Operand(p, f, v) == IF v \in p.globals \cup Functions(p) THEN Symbol(v) ELSE Value(f, v)
SymbolObject(p, g) == IF g \in p.globals THEN GlobalObject(g) ELSE FunctionObject(g)

Edge(kind, src, dst, owner) == [kind |-> kind, src |-> src, dst |-> dst, delta |-> Exact(0), owner |-> owner]
GepEdge(delta, src, dst, owner) == [kind |-> "gep", src |-> src, dst |-> dst, delta |-> delta, owner |-> owner]
Seed(kind, target) == <<kind, target>>
CallSite(at, kind, callee, operand, args, result, fixed) ==
  [ at |-> at, kind |-> kind, callee |-> callee, operand |-> operand, args |-> args,
    result |-> result, fixed |-> fixed ]

NoEmission == [edges |-> {}, seeds |-> {}, empties |-> {}, origins |-> {}, calls |-> {}, tags |-> {}]
Both(a, b) == [k \in DOMAIN NoEmission |-> a[k] \cup b[k]]
Edges(edges) == [NoEmission EXCEPT !.edges = edges]
Seeds(seeds) == [NoEmission EXCEPT !.seeds = seeds]

(***************************************************************************)
(* What each statement leaves in the graph (lower_stmt).  at is its place. *)
(***************************************************************************)
Here(p, at, k) == Operand(p, at[1], At(p, at).in[k])
There(at, v) == Value(at[1], v)
ResultNode(p, at) == There(at, At(p, at).dest)

\* Every use of a symbol gives it its address (ensure_symbol_addr_of).
SymbolAddresses(p, at) ==
  LET s == At(p, at)
      named == Inputs(s) \cup (IF s.op = "unknown" THEN Elements(s.x.results) ELSE {})
  IN  {Edge("addrof", SymbolObject(p, g), Symbol(g), "module") : g \in named \cap (p.globals \cup Functions(p))}

MoveEdges(p, at) ==
  LET s == At(p, at) IN
  CASE s.op = "alloca" -> {Edge("addrof", AllocaObject(s.dest), ResultNode(p, at), at[1])}
    [] s.op = "assign" -> {Edge("assign", Here(p, at, k), ResultNode(p, at), at[1]) : k \in DOMAIN s.in}
    [] s.op = "load" -> {Edge("load", Here(p, at, 1), ResultNode(p, at), at[1])}
    [] s.op = "store" -> {Edge("store", Here(p, at, 2), Here(p, at, 1), at[1])}
    [] s.op = "gep" -> {GepEdge(s.x.delta, Here(p, at, 1), ResultNode(p, at), at[1])}
    [] s.op = "memcpy" -> {Edge("memcpy", Here(p, at, 2), Here(p, at, 1), at[1])}
    [] s.op = "memset" -> {Edge("store", NoPointer(at), Here(p, at, 1), at[1])}
    [] s.op = "return" -> {Edge("assign", Here(p, at, 1), Ret(at[1]), at[1])}
    [] OTHER -> {}

PointerToInteger(p, at) ==
  IF At(p, at).x.as = "compared" \/ at[2] \in LosslessPtrToInt(p.body[at[1]]) THEN NoEmission
  ELSE Seeds({Seed("ptrtoint", Here(p, at, 1))})

\* A tag is only assumed where nothing shows the integer's origin and the
\* function itself never uses it as an address.
AssumedTag(p, at) ==
  /\ p.assume_tags
  /\ Origin(p, p.body[at[1]], at[2]) = {}
  /\ ~LocalUses(p.body[at[1]], At(p, at).dest).address

IntegerToPointer(p, at) ==
  LET body == p.body[at[1]]
      s == At(p, at)
      dst == ResultNode(p, at)
  IN IF Restored(body, at[2]) # {}
       THEN LET back == {Operand(p, at[1], v) : v \in Restored(body, at[2])}
            IN  Edges({Edge("assign", src, dst, at[1]) : src \in back})
     ELSE IF is_reserved_non_address_inttoptr(p, s) THEN [NoEmission EXCEPT !.empties = {dst}]
     ELSE IF AssumedTag(p, at)
       THEN [NoEmission EXCEPT !.empties = {dst},
               !.tags = {[at |-> at, uses |-> LocalUses(body, s.dest)]}]
     ELSE [Seeds({Seed("inttoptr", dst)}) EXCEPT
             !.origins = {[dst |-> dst, complete |-> o.complete,
                           sources |-> {Operand(p, at[1], v) : v \in o.sources}] : o \in Origin(p, body, at[2])}]

\* The list's own storage is written; what it lists is not known, unless every
\* va_arg of the function is.
ListEffects(p, at) ==
  LET s == At(p, at)
      list == Here(p, at, 1)
      payload == IF s.op = "vaend" \/ at[1] \in positionally_modeled_vararg_functions(p) THEN {}
                 ELSE {Seed("list_payload", list)}
      read == IF s.op = "vaend" THEN {Edge("load", list, NoPointer(at), at[1])}
              ELSE IF s.op = "vacopy" THEN {Edge("load", Here(p, at, 2), NoPointer(at), at[1])} ELSE {}
  IN  Both(Edges({Edge("store", NoPointer(at), list, at[1])} \cup read), Seeds(payload))

UnknownEffects(p, at) ==
  LET s == At(p, at)
      Concerned(v) == s.x.reason # "inline_asm" \/ MayCarryPointer(p, v)
  IN  Seeds({Seed("operand", Operand(p, at[1], v)) : v \in {w \in Inputs(s) : Concerned(w)}}
            \cup {Seed("result", There(at, v)) : v \in {w \in Elements(s.x.results) : Concerned(w)}})

(***************************************************************************)
(* A library call the table knows (lower_stmt, CallDirect).                *)
(***************************************************************************)
ContractResult(p, at) ==
  LET s == At(p, at)
      kind == Contracts[s.x.callee].result
      dst == ResultNode(p, at)
      Named(object) == Edge("addrof", object, dst, at[1])
      alias == IF kind[1] \in {"alias", "alias_or_fresh"} THEN {Edge("assign", Here(p, at, kind[2]), dst, at[1])} ELSE {}
      fresh == IF kind[1] \in {"fresh", "alias_or_fresh"} THEN {Named(HeapObject(at))} ELSE {}
  IN IF s.dest = NoValue THEN {}
     ELSE IF kind[1] = "object" THEN {Named(LibraryObject(s.x.callee))}
     ELSE IF kind[1] = "ctype"
       THEN {Named(LibraryObject("slot")), Edge("addrof", LibraryObject("table"), LibraryObject("slot"), at[1])}
     ELSE alias \cup fresh

ContractMoves(p, at) ==
  LET s == At(p, at)
      c == Contracts[s.x.callee]
      state == StateAddress(s.x.callee)
      zero == c.copies /\ s.in[3] \in DOMAIN p.literal /\ p.literal[s.in[3]] = 0
      copied == IF c.copies /\ ~zero THEN {Edge("memcpy", Here(p, at, 2), Here(p, at, 1), at[1])} ELSE {}
      stored == IF c.stores THEN {Edge("store", Here(p, at, 1), Here(p, at, 2), at[1])} ELSE {}
      kept == IF ~c.keeps THEN {}
              ELSE {Edge("addrof", LibraryObject(<<"state", s.x.callee>>), state, "module"),
                    Edge("store", Here(p, at, 1), state, at[1])}
                   \cup (IF s.dest = NoValue THEN {} ELSE {Edge("load", state, ResultNode(p, at), at[1])})
  IN  copied \cup stored \cup kept

\* Which arguments the call reads and writes, those of the tail included.
ContractReads(p, s) ==
  LET c == Contracts[s.x.callee]
      tail == {k \in DOMAIN s.in : k > c.fixed}
  IN  c.reads \cup (IF c.policy = "printf" THEN tail ELSE {})
ContractWrites(p, s) ==
  LET c == Contracts[s.x.callee]
      tail == {k \in DOMAIN s.in : k > c.fixed}
  IN  c.writes \cup (IF c.policy = "scanf" \/ (c.policy = "printf" /\ ~SafePrintf(p, s)) THEN tail ELSE {})

ContractEffects(p, at) ==
  LET s == At(p, at)
      Pointing(ks) == {k \in ks \cap DOMAIN s.in : MayCarryPointer(p, s.in[k])}
      scans == Contracts[s.x.callee].policy = "scanf"
      sink == IF scans THEN AnyPointer(at) ELSE NoPointer(at)
  IN  Both(Edges({Edge("load", Here(p, at, k), NoPointer(at), at[1]) : k \in Pointing(ContractReads(p, s))}
                 \cup {Edge("store", sink, Here(p, at, k), at[1]) : k \in Pointing(ContractWrites(p, s))}),
           Seeds(IF scans THEN {Seed("result", sink)} ELSE {}))

(***************************************************************************)
(* A call of a function of the module: its arguments, the tail where it is *)
(* bound slot by slot, and what it returns.                                *)
(***************************************************************************)
Bindings(p, at) ==
  LET s == At(p, at)
      f == s.x.callee
      fixed == Len(Params(p, f))
      Passed(k) == IF <<f, k>> \in p.byval
                     THEN {Edge("addrof", CopyObject(at, k), Param(f, k), at[1]),
                           Edge("memcpy", Here(p, at, k), Param(f, k), at[1])}
                     ELSE {Edge("assign", Here(p, at, k), Param(f, k), at[1])}
      Slots(x) == {k \in DOMAIN s.in : IF x.rest THEN k > fixed + x.index ELSE k = fixed + x.index + 1}
      bound == IF f \notin positionally_modeled_vararg_functions(p) THEN {}
               ELSE UNION {{Edge("assign", Here(p, at, k), Value(f, p.body[f][i].dest), at[1])
                            : k \in Slots(p.body[f][i].x)} : i \in VarArgs(p, f)}
      result == IF s.dest = NoValue THEN {} ELSE {Edge("assign", Ret(f), ResultNode(p, at), at[1])}
  IN  (UNION {Passed(k) : k \in DOMAIN s.in \cap (1 .. fixed)}) \cup bound \cup result

ResultOf(p, at) == IF At(p, at).dest = NoValue THEN {} ELSE {ResultNode(p, at)}
ArgNodes(p, at) == [k \in DOMAIN Args(At(p, at)) |-> Operand(p, at[1], Args(At(p, at))[k])]

DirectSite(p, at) ==
  LET s == At(p, at)
  IN  CallSite(at, "direct", s.x.callee, {}, ArgNodes(p, at), ResultOf(p, at), s.x.sig.fixed)

\* What stays of a variadic call: a boundary, or the reads of its tail.
TailEffects(p, at) ==
  LET s == At(p, at)
      tail == {k \in DOMAIN s.in : k > s.x.sig.fixed /\ MayCarryPointer(p, s.in[k])}
  IN IF ~s.x.sig.vararg THEN NoEmission
     ELSE IF Treatment(p, s) = "boundary" THEN Seeds({Seed("vararg", at)})
     ELSE IF Treatment(p, s) = "read_only"
       THEN Edges({Edge("load", Here(p, at, k), NoPointer(at), at[1]) : k \in tail})
     ELSE NoEmission

DirectCall(p, at) ==
  LET s == At(p, at)
      known == HasContract(p, s)
      outside == External(p, s.x.callee) /\ ~known
      contract == IF known THEN Both(Edges(ContractResult(p, at) \cup ContractMoves(p, at)), ContractEffects(p, at))
                  ELSE NoEmission
      inside == IF External(p, s.x.callee) THEN NoEmission ELSE Edges(Bindings(p, at))
      boundary == Seeds(IF outside THEN {Seed("external", at)} ELSE {})
  IN  [Both(Both(contract, inside), Both(boundary, TailEffects(p, at))) EXCEPT !.calls = {DirectSite(p, at)}]

IndirectCall(p, at) ==
  LET s == At(p, at)
      site == CallSite(at, "indirect", NoValue, {Here(p, at, 1)}, ArgNodes(p, at), ResultOf(p, at), s.x.sig.fixed)
  IN  [Seeds(IF s.x.sig.vararg THEN {Seed("vararg", at)} ELSE {}) EXCEPT !.calls = {site}]

(***************************************************************************)
(* The builder (Builder::build): symbols first, then the bodies.           *)
(***************************************************************************)
Bodies(p) ==
  LET Of(f) == [i \in DOMAIN p.body[f] |-> <<f, i>>]
      joined[n \in 0 .. Len(p.order)] == IF n = 0 THEN <<>> ELSE joined[n - 1] \o Of(p.order[n])
  IN  joined[Len(p.order)]

SymbolSeeds(p) ==
  {Seed("exported", GlobalObject(g)) : g \in {h \in p.globals : h \in p.exports \/ (p.library /\ h \in p.marked)}}
  \cup {Seed("exported", FunctionObject(f)) : f \in {g \in Functions(p) : Exported(p, g)}}
  \cup {Seed("imported", FunctionObject(f)) : f \in {g \in Functions(p) : External(p, g)}}

ParamEdges(p) ==
  UNION {{Edge("assign", Param(f, k), Value(f, Params(p, f)[k]), f) : k \in DOMAIN Params(p, f)} : f \in Functions(p)}

NoDomain == [n \in {} |-> 0]

Init ==
  /\ program \in Programs
  /\ phase = "build" /\ todo = Bodies(program)
  /\ graph = Both(Edges(ParamEdges(program)), Seeds(SymbolSeeds(program)))
  /\ drawn = {} /\ roots = {}

Lower(ops, Emitted(_, _)) ==
  /\ phase = "build" /\ todo # <<>>
  /\ At(program, Head(todo)).op \in ops
  /\ graph' = Both(graph, Both(Edges(SymbolAddresses(program, Head(todo))), Emitted(program, Head(todo))))
  /\ todo' = Tail(todo)
  /\ UNCHANGED <<program, phase, drawn, roots>>

Moved(p, at) == Edges(MoveEdges(p, at))
LowerMove ==
  Lower({"alloca", "assign", "load", "store", "gep", "memcpy", "memset", "return", "scalar", "vaarg"}, Moved)
LowerPtrToInt == Lower({"ptrtoint"}, PointerToInteger)
LowerIntToPtr == Lower({"inttoptr"}, IntegerToPointer)
LowerList == Lower({"vastart", "vaend", "vacopy"}, ListEffects)
LowerUnknown == Lower({"unknown"}, UnknownEffects)
LowerCall == Lower({"call"}, DirectCall)
LowerIndirectCall == Lower({"icall"}, IndirectCall)

FinishBuild ==
  /\ phase = "build" /\ todo = <<>>
  /\ phase' = "lanes" /\ drawn' = graph.edges
  /\ UNCHANGED <<program, todo, graph, roots>>

(***************************************************************************)
(* Lanes (infer_pwc_lanes).  Around a cycle of copies and displacements a  *)
(* pointer moves by the cycle's sum each time: offsets are only known      *)
(* modulo the greatest common divisor of those sums.  It is found from     *)
(* potentials along a spanning tree, in wide arithmetic.                   *)
(***************************************************************************)
Arcs(edges) == {e \in edges : e.kind \in {"assign", "gep"}}
Reach(edges, n) ==
  LET Grow(known) == known \cup {e.dst : e \in {d \in edges : d.src \in known}}
  IN  Fixpoint(Grow, {n}, {n} \cup {e.dst : e \in edges})
Components(edges) ==
  {{m \in Reach(edges, n) : n \in Reach(edges, m)} : n \in {e.src : e \in edges}}
Internal(edges, component) == {e \in edges : e.src \in component /\ e.dst \in component}

Wide(n) == n \in MinWide .. MaxWide
AbsOf(n) == IF n < 0 THEN -n ELSE n
Gcd(numbers) ==
  LET g[s \in SUBSET numbers] ==
        IF s = {} THEN 0 ELSE LET n == CHOOSE x \in s : TRUE IN gcd_u64[<<n, g[s \ {n}]>>]
  IN  g[numbers]

\* The potentials the spanning trees may give, whatever order the arcs are
\* taken in; one of a tree whose sums do not fit is cut off there.
RECURSIVE Potentials(_, _)
Potentials(arcs, found) ==
  LET open == {<<e.src, e.dst, e.delta.offset>> : e \in {a \in arcs : a.src \in DOMAIN found /\ a.dst \notin DOMAIN found}}
              \cup {<<e.dst, e.src, -e.delta.offset>> : e \in {a \in arcs : a.dst \in DOMAIN found /\ a.src \notin DOMAIN found}}
      Extended(o) == [n \in DOMAIN found \cup {o[2]} |-> IF n = o[2] THEN found[o[1]] + o[3] ELSE found[n]]
  IN  IF open = {} THEN {found}
      ELSE UNION {IF Wide(found[o[1]] + o[3]) THEN Potentials(arcs, Extended(o)) ELSE {NoDomain} : o \in open}

\* A mutant: the divisor of the displacements, not of the cycles' sums.
ModuliOfArcs(arcs) == {Gcd({AbsOf(e.delta.offset) : e \in arcs})}
\* 0 where the component is left alone.
ConstantModuli(arcs) ==
  LET start == CHOOSE n \in {e.src : e \in arcs} : TRUE
      Residual(h, e) == h[e.src] + e.delta.offset - h[e.dst]
      Fits(h) == /\ h # NoDomain
                 /\ \A e \in arcs : Wide(h[e.src] + e.delta.offset) /\ Wide(Residual(h, e))
  IN  {IF Fits(h) THEN Gcd({AbsOf(Residual(h, e)) : e \in arcs}) ELSE 0
       : h \in Potentials(arcs, [n \in {start} |-> 0])}
LaneModuli(arcs) ==
  {Gcd({IF IsLane(e.delta) THEN gcd_u64[<<e.delta.modulus, AbsOf(e.delta.residue)>>] ELSE AbsOf(e.delta.offset) : e \in arcs})}

Moduli(arcs) ==
  IF (\A e \in arcs : e.kind # "gep") \/ (\E e \in arcs : IsUnknown(e.delta)) THEN {0}
  ELSE LET found == IF \E e \in arcs : IsLane(e.delta) THEN LaneModuli(arcs) ELSE ConstantModuli(arcs)
       IN  {IF m > MaxOffset THEN 0 ELSE m : m \in found}

WithLane(e, modulus) ==
  IF modulus = 0 \/ e.delta = Exact(0) THEN e
  ELSE [e EXCEPT !.delta = Lane(modulus, IF IsLane(e.delta) THEN e.delta.residue ELSE e.delta.offset)]

CyclicComponents(edges) == {c \in Components(Arcs(edges)) : \E e \in Internal(Arcs(edges), c) : e.kind = "gep"}
InferLanes ==
  /\ phase = "lanes" /\ program.lanes
  /\ \E modulus \in [CyclicComponents(graph.edges) -> 0 .. MaxOffset] :
       /\ \A c \in DOMAIN modulus : modulus[c] \in Moduli(Internal(Arcs(graph.edges), c))
       /\ graph' = [graph EXCEPT !.edges =
            {LET home == {c \in DOMAIN modulus : e \in Internal(Arcs(graph.edges), c)}
             IN  IF home = {} THEN e ELSE WithLane(e, modulus[CHOOSE c \in home : TRUE]) : e \in @}]
  /\ phase' = "roots"
  /\ UNCHANGED <<program, todo, drawn, roots>>

KeepConstants ==
  /\ phase = "lanes" /\ ~program.lanes /\ phase' = "roots"
  /\ UNCHANGED <<program, todo, graph, drawn, roots>>

(***************************************************************************)
(* Storage roots (allocation_storage_roots): the one allocation a value    *)
(* can point into, or that it points to none.                              *)
(***************************************************************************)
NodesOf(g) ==
  {e.src : e \in g.edges} \cup {e.dst : e \in g.edges} \cup g.empties
  \cup {o.dst : o \in g.origins} \cup (UNION {o.sources : o \in g.origins})
  \cup {s[2] : s \in {t \in g.seeds : t[1] \notin {"external", "vararg"}}}
Empty == <<"empty">>
RootedAt(o) == <<"root", o>>

Producers(g, n) == {e \in g.edges : e.dst = n /\ e.kind \in {"addrof", "assign", "load", "gep"}}
RootObject(o) == o[1] \in {"global", "alloca", "heap", "byval"}

\* The home of a node: its function, "module" or "global_init".
Home(n) ==
  CASE n[1] \in {"value", "param", "heap", "byval", "nopointer", "anypointer"} -> n[2][1]
    [] n[1] = "return" -> n[2]
    [] OTHER -> "module"

\* What is found out of a node is a pair with it.  All sources agree on one
\* allocation, or none names any.
Found(known, n) == {x[2] : x \in {y \in known : y[1] = n}}
\* A mutant: sources of which nothing was found do not count.
MergedOfFound(known, sources) ==
  LET rooted == (UNION {Found(known, n) : n \in sources}) \ {Empty}
  IN  IF Cardinality(rooted) > 1 THEN {} ELSE rooted
Merged(known, sources) ==
  LET rooted == (UNION {Found(known, n) : n \in sources}) \ {Empty}
  IN  IF (\E n \in sources : Found(known, n) = {}) \/ Cardinality(rooted) > 1 THEN {}
      ELSE IF rooted = {} THEN {Empty} ELSE rooted

FirstRoots(g) ==
  LET Named(n) == {e.src : e \in {d \in Producers(g, n) : d.kind = "addrof"}}
      Sole(n) == Cardinality(Producers(g, n)) = 1
  IN  {<<n, RootedAt(CHOOSE o \in Named(n) : TRUE)>> :
         n \in {m \in NodesOf(g) : Named(m) # {} /\ Sole(m) /\ \A o \in Named(m) : RootObject(o)}}
      \cup {<<n, Empty>> : n \in {m \in g.empties : Named(m) = {} \/ (Sole(m) /\ \A o \in Named(m) : ~RootObject(o))}}
RootsFrom(g) ==
  LET Candidates(known, n) ==
        LET from == Producers(g, n)
            copied == from # {} /\ \A e \in from : e.kind = "assign" /\ Home(e.src) = Home(n)
            moved == /\ Cardinality(from) = 1
                     /\ \A e \in from : e.kind = "gep" /\ Found(known, e.src) \notin {{}, {Empty}}
            traced == {o \in g.origins : o.dst = n /\ o.complete /\ o.sources # {}}
        IN  (IF copied \/ moved THEN Merged(known, {e.src : e \in from}) ELSE {})
            \cup UNION {Merged(known, o.sources) : o \in traced}
      Grow(known) == known \cup
        {<<n, CHOOSE c \in Candidates(known, n) : TRUE>> :
           n \in {m \in NodesOf(g) : Found(known, m) = {} /\ Candidates(known, m) # {}}}
  IN  Fixpoint(Grow, FirstRoots(g), NodesOf(g) \X ({Empty} \cup {RootedAt(o) : o \in {e.src : e \in g.edges}}))

ProveRoots ==
  /\ phase = "roots" /\ phase' = "run"
  /\ roots' = RootsFrom(graph)
  /\ UNCHANGED <<program, todo, graph, drawn>>

Build ==
  \/ LowerMove \/ LowerPtrToInt \/ LowerIntToPtr \/ LowerList \/ LowerUnknown
  \/ LowerCall \/ LowerIndirectCall \/ FinishBuild \/ InferLanes \/ KeepConstants \/ ProveRoots
=============================================================================
