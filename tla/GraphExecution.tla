--------------------------- MODULE GraphExecution ---------------------------
(***************************************************************************)
(* What the pointer graph must cover.  The program runs: any statement of  *)
(* any function may be next, so that every control flow and every order of *)
(* calls is among the behaviours, or, where a program asks for it, its     *)
(* statements one after the other; and code that is not in sight does what *)
(* it can with what it was given.  The graph is read as its solvers read   *)
(* it, by the least set of facts its edges and seeds ask for.              *)
(***************************************************************************)
EXTENDS PointerGraph

VARIABLES
  solution,  \* the graph's least facts, what escaped, what was audited
  env,       \* what each value holds
  memory,    \* what the places of each object hold, where anything
  known,     \* the objects code that is not in sight knows of
  stack      \* of a program in order: what runs next, and the calls that wait

vars == <<program, phase, todo, graph, drawn, roots, solution, env, memory, known, stack>>

(***************************************************************************)
(* The graph's facts.  A fact is an object and a location in it; Foreign   *)
(* stands for every object that escaped, and for what lies outside.        *)
(***************************************************************************)
Outside == <<"outside", "">>
Foreign == <<Outside, Unknown>>

Held(s, n) == {x[2] : x \in {y \in s.facts : y[1] = n}}
ObjectsHeld(s, n) == {x[1] : x \in Held(s, n)}
Shifted(x, delta) == IF x = Foreign THEN x ELSE <<x[1], add(x[2], delta)>>

EdgeFacts(s, e) ==
  CASE e.kind = "addrof" -> {<<e.dst, <<e.src, Exact(0)>>>>}
    [] e.kind = "assign" -> {e.dst} \X Held(s, e.src)
    [] e.kind = "gep" -> {<<e.dst, Shifted(x, e.delta)>> : x \in Held(s, e.src)}
    [] e.kind = "load" -> {e.dst} \X UNION {Held(s, o) : o \in ObjectsHeld(s, e.src)}
    [] e.kind = "store" -> ObjectsHeld(s, e.dst) \X Held(s, e.src)
    [] e.kind = "memcpy" -> ObjectsHeld(s, e.dst) \X UNION {Held(s, o) : o \in ObjectsHeld(s, e.src)}

\* Calls through pointers: what each site may reach.
Reached(s, c) == UNION {ObjectsHeld(s, n) : n \in c.operand}
Leaves(p, o) == o = Outside \/ (o[1] = "function" /\ External(p, o[2]))
CallFacts(p, s, c) ==
  (UNION {LET f == o[2] IN
            (UNION {{Param(f, k)} \X Held(s, c.args[k]) : k \in DOMAIN c.args \cap DOMAIN Params(p, f)})
            \cup UNION {{n} \X Held(s, Ret(f)) : n \in c.result}
          : o \in {x \in Reached(s, c) : x[1] = "function" /\ ~External(p, x[2])}})
  \cup (IF \E o \in Reached(s, c) : Leaves(p, o) THEN c.result \X {Foreign} ELSE {})

SeedFacts(s, g) ==
  {<<x[2], Foreign>> : x \in {y \in g.seeds : y[1] \in {"inttoptr", "result"}}}
  \cup (UNION {ObjectsHeld(s, x[2]) \X {Foreign} : x \in {y \in g.seeds : y[1] = "list_payload"}})
  \cup UNION {c.result \X {Foreign} : c \in {d \in g.calls : Seed("external", d.at) \in g.seeds}}

EscapeFacts(p, s) ==
  (s.escaped \X {Foreign})
  \cup UNION {{Param(o[2], k) : k \in DOMAIN Params(p, o[2])} \X {Foreign}
              : o \in {x \in s.escaped : x[1] = "function"}}

Escaping(p, s, g) ==
  LET through == {e.src : e \in {d \in g.edges : d.kind = "store" /\ Outside \in ObjectsHeld(s, d.dst)}}
      copied == UNION {ObjectsHeld(s, e.src) : e \in {d \in g.edges : d.kind = "memcpy" /\ Outside \in ObjectsHeld(s, d.dst)}}
      named == {x[2] : x \in {y \in g.seeds : y[1] \in {"ptrtoint", "operand"}}}
      gone(c) == \/ Seed("external", c.at) \in g.seeds
                 \/ \E o \in Reached(s, c) : Leaves(p, o)
      tail(c) == {k \in DOMAIN c.args : Seed("vararg", c.at) \in g.seeds /\ k > c.fixed}
      passed == UNION {{c.args[k] : k \in IF gone(c) THEN DOMAIN c.args ELSE tail(c)} : c \in g.calls}
      returned == {Ret(o[2]) : o \in {x \in s.escaped : x[1] = "function"}}
  IN  {x[2] : x \in {y \in g.seeds : y[1] \in {"exported", "imported"}}}
      \cup UNION {ObjectsHeld(s, n) : n \in through \cup named \cup passed \cup returned \cup s.escaped \cup copied}

Asked(p, s, g) ==
  [ facts |-> s.facts \cup (UNION {EdgeFacts(s, e) : e \in g.edges}) \cup (UNION {CallFacts(p, s, c) : c \in g.calls})
                \cup SeedFacts(s, g) \cup EscapeFacts(p, s),
    escaped |-> s.escaped \cup Escaping(p, s, g) ]
RECURSIVE LeastFrom(_, _, _)
LeastFrom(p, g, s) == LET next == Asked(p, s, g) IN IF next = s THEN s ELSE LeastFrom(p, g, next)
LeastFacts(p, g) == LeastFrom(p, g, [facts |-> {<<Outside, Foreign>>}, escaped |-> {Outside}])

\* Functions that see a tail proved to be only read.
Audited(p) ==
  LET first == {At(p, at).x.callee : at \in {x \in Statements(p) :
                 At(p, x).op = "call" /\ At(p, x).x.sig.vararg /\ Treatment(p, At(p, x)) = "read_only"}}
      Grow(known1) == known1 \cup {At(p, at).x.callee : at \in {x \in Statements(p) : x[1] \in known1 /\ At(p, x).op = "call"}}
  IN  Fixpoint(Grow, first, first \cup {At(p, at).x.callee : at \in {x \in Statements(p) : At(p, x).op = "call"}})

Solved(p, g) ==
  LET s == LeastFacts(p, g) IN [facts |-> s.facts, escaped |-> s.escaped, audited |-> Audited(p)]

(***************************************************************************)
(* Cells: what a value or a place may hold.                                *)
(***************************************************************************)
Nothing == <<"none">>
Ptr(o, offset) == <<"ptr", o, offset>>
Num(n) == <<"num", n>>
Addr(o, offset) == <<"addr", o, offset>>   \* an integer that names storage
Tag(at, crossed) == <<"tag", at, crossed>> \* a pointer assumed to name none
IsPtr(c) == c[1] = "ptr"
IsTag(c) == c[1] = "tag"

Window == 0 .. MaxOffset
TailArea(f) == <<"tail", f>>
NoPlaces == [x \in {} |-> Nothing]
Place(c) == <<c[2], c[3]>>
HoldsData(o) == o[1] \notin {"function", "outside"}
Reachable(c) == IsPtr(c) /\ HoldsData(c[2])

KnownCells == {Ptr(o, 0) : o \in known}
With(places) ==  \* memory, where the given places have new cells
  [x \in DOMAIN memory \cup DOMAIN places |-> IF x \in DOMAIN places THEN places[x] ELSE memory[x]]
Put(address, c) == IF Reachable(address) /\ c # Nothing THEN [x \in {Place(address)} |-> c] ELSE NoPlaces

\* What is known once cells got out, memory being as it then is.
Naming(cells) == {c[2] : c \in {x \in cells : x[1] \in {"ptr", "addr"}}}
KnownWith(cells, mem) ==
  LET Grow(o) == o \cup Naming({mem[x] : x \in {y \in DOMAIN mem : y[1] \in o}})
      all == known \cup Naming(cells) \cup Naming({mem[x] : x \in DOMAIN mem})
  IN  Fixpoint(Grow, known \cup Naming(cells), all)

CellOf(f, v) ==
  IF v \in program.globals \cup Functions(program) THEN Ptr(SymbolObject(program, v), 0)
  ELSE IF v = "null" THEN Num(0)
  ELSE IF v \in DOMAIN program.literal THEN Num(program.literal[v])
  ELSE IF Value(f, v) \in DOMAIN env THEN env[Value(f, v)] ELSE Nothing
In(at, k) == CellOf(at[1], At(program, at).in[k])
Ready(at) ==
  LET s == At(program, at)
      held == {k \in DOMAIN s.in : In(at, k) # Nothing}
  IN  IF s.op = "assign" THEN held # {} ELSE held = DOMAIN s.in
Typed(f, v, c) == ~MayCarryPointer(program, v) => ~IsPtr(c)

\* A tag remembers the first way it left its function.
Crossing(c, way) == IF IsTag(c) /\ c[3] = "local" THEN Tag(c[2], way) ELSE c

(***************************************************************************)
(* Steps of a statement.                                                   *)
(***************************************************************************)
Frame(at, called) == <<at, called>>
Turn(at, called) == program.inorder => stack # <<>> /\ Head(stack) = Frame(at, called)
Following(at) == Frame(<<at[1], at[2] + 1>>, FALSE)
Advanced(at) == <<Following(at)>> \o Tail(stack)
Callees(at) ==
  IF At(program, at).op = "call" THEN {At(program, at).x.callee}
  ELSE {c[2][2] : c \in {x \in {In(at, 1)} : IsPtr(x) /\ x[2][1] = "function"}}
Entered(at) ==
  LET inside == {f \in Callees(at) : ~External(program, f)}
  IN  IF inside = {} THEN Advanced(at)
      ELSE <<Frame(<<CHOOSE f \in inside : TRUE, 1>>, FALSE), Frame(at, TRUE)>> \o Tail(stack)
\* A call without a result is over once its callee returns.
BackToCall(at) ==
  LET calls == Tail(stack)
  IN  IF calls = <<>> \/ At(program, Head(calls)[1]).dest # NoValue THEN calls
      ELSE <<Following(Head(calls)[1])>> \o Tail(calls)

RunThen(ops, called, Stack(_), Step(_)) ==
  /\ phase = "run"
  /\ \E at \in {x \in Statements(program) : At(program, x).op \in ops /\ Ready(x) /\ Turn(x, called)} :
       Step(at) /\ stack' = IF program.inorder THEN Stack(at) ELSE stack
  /\ UNCHANGED <<program, phase, todo, graph, drawn, roots, solution>>
Run(ops, Step(_)) == RunThen(ops, FALSE, Advanced, Step)

Bind(f, v, c) == [n \in DOMAIN env \cup {Value(f, v)} |-> IF n = Value(f, v) THEN c ELSE env[n]]
\* at's result is the cell c, and nothing else changes.
Gives(at, c) ==
  /\ c # Nothing /\ Typed(at[1], At(program, at).dest, c)
  /\ env' = Bind(at[1], At(program, at).dest, c)
  /\ UNCHANGED <<memory, known>>
\* Places are written and cells get out.
Writes(places, out) ==
  /\ memory' = With(places)
  /\ known' = KnownWith(out, memory')
  /\ UNCHANGED env
\* What is stored outside got out.
Through(address, cells) == IF IsPtr(address) /\ address[2] = Outside THEN cells ELSE {}

Loaded(address) ==
  IF Reachable(address) THEN IF Place(address) \in DOMAIN memory THEN {memory[Place(address)]} ELSE {}
  ELSE IF IsPtr(address) /\ address[2] = Outside THEN KnownCells ELSE {}

Compute(at) ==
  LET s == At(program, at) IN
  CASE s.op = "alloca" -> Gives(at, Ptr(AllocaObject(s.dest), 0))
    [] s.op = "load" -> \E c \in Loaded(In(at, 1)) : Gives(at, c)
    [] s.op = "vaarg" -> \E x \in DOMAIN memory :
         /\ x[1] = TailArea(at[1]) /\ IF s.x.rest THEN x[2] >= s.x.index ELSE x[2] = s.x.index
         /\ Gives(at, memory[x])
    [] OTHER -> \E k \in DOMAIN s.in : Gives(at, In(at, k))
RunMove == Run({"alloca", "assign", "load", "vaarg"}, Compute)

\* Arithmetic on an address leads anywhere in its storage.
Arithmetic(at) ==
  LET s == At(program, at)
      addresses == {k \in DOMAIN s.in : In(at, k)[1] = "addr"}
  IN  \/ \E k \in addresses, offset \in Window : Gives(at, Addr(In(at, k)[2], offset))
      \/ addresses = {} /\ \E k \in DOMAIN s.in : Gives(at, In(at, k))
Displace(at) ==
  LET s == At(program, at) base == In(at, 1) IN
  IF ~Reachable(base) THEN Gives(at, base)
  ELSE \E d \in Offsets(s.x.delta, I64) :
         base[3] + d \in Window /\ Gives(at, Ptr(base[2], base[3] + d))
RunArithmetic == Run({"scalar"}, Arithmetic)
RunGep == Run({"gep"}, Displace)

ToInteger(at) ==
  LET c == In(at, 1) IN
  Gives(at, IF ~IsPtr(c) THEN c ELSE IF At(program, at).x.as = "compared" THEN Num(0) ELSE Addr(c[2], c[3]))
\* A number that names no storage of its own may still be the address of
\* storage that others know of.
ToPointer(at) ==
  LET c == In(at, 1) IN
  IF AssumedTag(program, at) THEN Gives(at, Tag(at, "local"))
  ELSE IF c[1] = "addr" THEN Gives(at, Ptr(c[2], c[3]))
  ELSE IF c[1] = "num" /\ ~(At(program, at).x.as = "exact" /\ IsReserved(c[2]))
    THEN \E known1 \in KnownCells : Gives(at, known1)
  ELSE Gives(at, c)
RunConversion ==
  \/ Run({"ptrtoint"}, ToInteger)
  \/ Run({"inttoptr"}, ToPointer)

StoreCell(at) ==
  LET c == Crossing(In(at, 2), "memory")
  IN  Writes(Put(In(at, 1), c), Through(In(at, 1), {c}))
\* The block from one address on is copied to the other.
Block(from, to) ==
  IF Reachable(from) /\ Reachable(to)
    THEN [x \in {<<to[2], to[3] + d>> : d \in {w \in Window : <<from[2], from[3] + w>> \in DOMAIN memory
                                                             /\ to[3] + w \in Window}}
          |-> memory[<<from[2], from[3] + (x[2] - to[3])>>]]
  ELSE NoPlaces
Copy(at) ==
  LET from == In(at, 2) to == In(at, 1) IN
  IF IsPtr(from) /\ from[2] = Outside THEN \E c \in KnownCells : Writes(Put(to, c), {})
  ELSE Writes(Block(from, to), Through(to, {memory[x] : x \in {y \in DOMAIN memory : IsPtr(from) /\ y[1] = from[2]}}))
RunStore == Run({"store"}, StoreCell)
RunMemcpy == Run({"memcpy"}, Copy)

\* A list that is opened holds the address of its function's tail.
ListStep(at) ==
  LET s == At(program, at) IN
  CASE s.op = "vastart" -> Writes(Put(In(at, 1), Ptr(TailArea(at[1]), 0)), {})
    [] s.op = "vacopy" -> Writes(Block(In(at, 2), In(at, 1)), {})
RunList == Run({"vastart", "vacopy"}, ListStep)

Leaking(at) ==
  /\ known' = KnownWith({In(at, k) : k \in DOMAIN At(program, at).in}, memory)
  /\ UNCHANGED memory
OpaqueStep(at) ==
  LET s == At(program, at) IN
  /\ Leaking(at)
  /\ \/ UNCHANGED env
     \/ \E v \in Elements(s.x.results), c \in KnownCells : Typed(at[1], v, c) /\ env' = Bind(at[1], v, c)
RunUnknown == Run({"unknown"}, OpaqueStep)

ReturnCell(at) ==
  /\ env' = [n \in DOMAIN env \cup {Ret(at[1])} |-> IF n = Ret(at[1]) THEN Crossing(In(at, 1), "returned") ELSE env[n]]
  /\ UNCHANGED <<memory, known>>
RunReturn == RunThen({"return"}, FALSE, BackToCall, ReturnCell)

(***************************************************************************)
(* Calls.  The arguments of a call arrive in one step, the result in one   *)
(* of its own; the tail's cells are laid out one after the other.          *)
(***************************************************************************)
Enter(f, cells, copies) ==
  LET fixed == DOMAIN cells \cap DOMAIN Params(program, f)
      Arriving(k) == IF k \in DOMAIN copies THEN Ptr(copies[k], 0) ELSE Crossing(cells[k], "call")
      named == {Value(f, Params(program, f)[k]) : k \in fixed} \cup {Param(f, k) : k \in fixed}
      Index(n) == CHOOSE k \in fixed : n \in {Value(f, Params(program, f)[k]), Param(f, k)}
      tail == {k \in DOMAIN cells : k > Len(Params(program, f)) /\ f \in program.variadic}
      base == Len(Params(program, f)) + 1
      copied == {<<copies[k], x[2]>> : k \in DOMAIN copies, x \in {y \in DOMAIN memory : y[1] \in Naming(Elements(cells))}}
      Source(x) == CHOOSE k \in DOMAIN copies : copies[k] = x[1]
      From(x) == <<cells[Source(x)][2], x[2]>>
      byvalue == {x \in copied : IsPtr(cells[Source(x)]) /\ From(x) \in DOMAIN memory}
  IN  /\ env' = [n \in DOMAIN env \cup named |-> IF n \in named THEN Arriving(Index(n)) ELSE env[n]]
      /\ memory' = With([x \in {<<TailArea(f), k - base>> : k \in tail} \cup byvalue |->
                          IF x \in byvalue THEN memory[From(x)] ELSE Crossing(cells[x[2] + base], "call")])
      /\ known' = KnownWith({}, memory')

ArgCells(at) == LET args == Args(At(program, at)) IN [k \in DOMAIN args |-> CellOf(at[1], args[k])]
ByValue(at, f) == LET ks == {k \in DOMAIN ArgCells(at) : <<f, k>> \in program.byval}
                  IN  [k \in ks |-> CopyObject(at, k)]
Result(at, c) == IF At(program, at).dest = NoValue THEN UNCHANGED env
                 ELSE Typed(at[1], At(program, at).dest, c) /\ env' = Bind(at[1], At(program, at).dest, c)

Inside(at) == ~External(program, At(program, at).x.callee)
IsSink(s) == s.x.callee \in DOMAIN VaListSinks
CallInside(at) == Inside(at) /\ LET f == At(program, at).x.callee IN Enter(f, ArgCells(at), ByValue(at, f))
CallOutside(at) ==
  /\ ~Inside(at) /\ ~HasContract(program, At(program, at)) /\ ~IsSink(At(program, at))
  /\ Leaking(at) /\ \E c \in KnownCells : Result(at, c)
CallPointer(at) ==
  LET c == In(at, 1) IN
  /\ IsPtr(c)
  /\ IF c[2][1] = "function" /\ ~External(program, c[2][2]) THEN Enter(c[2][2], ArgCells(at), NoPlaces)
     ELSE IF Leaves(program, c[2]) THEN Leaking(at) /\ \E r \in KnownCells : Result(at, r)
     ELSE FALSE
RunCall == RunThen({"call"}, FALSE, Entered, CallInside)
RunExternal == Run({"call"}, CallOutside)
RunIndirect == RunThen({"icall"}, FALSE, Entered, CallPointer)

Receive(at) ==
  /\ At(program, at).dest # NoValue
  /\ \E f \in Callees(at) : Ret(f) \in DOMAIN env /\ Gives(at, env[Ret(f)])
RunReceive == RunThen({"call", "icall"}, TRUE, Advanced, Receive)

\* What a library function of the table does.
LibraryStep(at) ==
  LET s == At(program, at)
      c == Contracts[s.x.callee]
      state == LibraryObject(<<"state", s.x.callee>>)
      kind == c.result
      given == IF kind[1] \in {"alias", "alias_or_fresh"} THEN {In(at, kind[2])} ELSE {}
      fresh == IF kind[1] \in {"fresh", "alias_or_fresh"} THEN {Ptr(HeapObject(at), 0)}
               ELSE IF kind[1] = "object" THEN {Ptr(LibraryObject(s.x.callee), 0)}
               ELSE IF kind[1] = "ctype" THEN {Ptr(LibraryObject("slot"), 0)} ELSE {}
      kept == IF c.keeps /\ <<state, 0>> \in DOMAIN memory THEN {memory[<<state, 0>>]} ELSE {}
  IN  /\ ~Inside(at) /\ HasContract(program, s)
      /\ \/ s.dest # NoValue /\ \E r \in given \cup fresh \cup kept : Gives(at, r)
         \/ c.copies /\ In(at, 3) # Num(0) /\ Copy(at)
         \/ c.stores /\ Writes(Put(In(at, 2), In(at, 1)), Through(In(at, 2), {In(at, 1)}))
         \/ c.keeps /\ Writes([x \in {<<state, 0>>} |-> In(at, 1)], {})
         \/ kind = <<"ctype">> /\ Writes([x \in {<<LibraryObject("slot"), 0>>} |-> Ptr(LibraryObject("table"), 0)], {})
         \/ /\ c.policy = "scanf"
            /\ \E k \in {i \in DOMAIN s.in : i > c.fixed}, r \in KnownCells : Writes(Put(In(at, k), r), {})
RunLibrary == Run({"call"}, LibraryStep)

(***************************************************************************)
(* Code that is not in sight.                                              *)
(***************************************************************************)
Abroad(Step) ==
  /\ phase = "run" /\ Step
  /\ UNCHANGED <<program, phase, todo, graph, drawn, roots, solution, stack>>
OutsideStores ==
  Abroad(\E o \in {x \in known : HoldsData(x) /\ x[1] # "tail"}, c \in KnownCells : Writes(Put(Ptr(o, 0), c), {}))
KnownFunctions == {o[2] : o \in {x \in known : x[1] = "function" /\ ~External(program, x[2])}}
OutsideCalls ==
  Abroad(\E f \in KnownFunctions : \E c \in KnownCells :
           Enter(f, [k \in 1 .. Len(Params(program, f)) + (IF f \in program.variadic THEN 1 ELSE 0) |-> c], NoPlaces))
OutsideReceives ==
  Abroad(/\ \E f \in KnownFunctions : Ret(f) \in DOMAIN env /\ known' = KnownWith({env[Ret(f)]}, memory)
         /\ UNCHANGED <<env, memory>>)

(***************************************************************************)
(* Build, then run.                                                        *)
(***************************************************************************)
InitialKnown(p) ==
  {Outside} \cup {GlobalObject(g) : g \in {h \in p.globals : h \in p.exports \/ (p.library /\ h \in p.marked)}}
  \cup {FunctionObject(f) : f \in {g \in Functions(p) : Exported(p, g) \/ External(p, g)}}

ExecutionInit ==
  /\ Init
  /\ solution = [facts |-> {}, escaped |-> {}, audited |-> {}]
  /\ env = NoDomain /\ memory = NoPlaces /\ known = InitialKnown(program) /\ stack = <<>>
BuildGraph ==
  /\ Build
  /\ solution' = IF phase' = "run" THEN Solved(program, graph) ELSE solution
  /\ stack' = IF phase' = "run" /\ program.inorder THEN <<Frame(<<"main", 1>>, FALSE)>> ELSE stack
  /\ UNCHANGED <<env, memory, known>>

Next ==
  \/ BuildGraph \/ RunMove \/ RunArithmetic \/ RunGep \/ RunConversion \/ RunStore \/ RunMemcpy
  \/ RunList \/ RunUnknown \/ RunReturn \/ RunCall \/ RunExternal \/ RunIndirect \/ RunReceive
  \/ RunLibrary \/ OutsideStores \/ OutsideCalls \/ OutsideReceives
Spec == ExecutionInit /\ [][Next]_vars
=============================================================================
