---------------------------- MODULE SolverAnswers ----------------------------
(***************************************************************************)
(* What the base tier answers when it is at rest (finish in                *)
(* pangs-solve/src/lib.rs): rows for indirect calls, functions, globals    *)
(* and values, and what pointers reach through memory.  Two syntactic      *)
(* proofs over the program narrow the rows: which globals have an address  *)
(* that never leaves its value (global_address_exposure), and which have   *)
(* one that never leaves the module (allocation_isolation).                *)
(*                                                                         *)
(* Every allocation of the small programs is a global.                     *)
(***************************************************************************)
EXTENDS SteensgaardProperties

(***************************************************************************)
(* Classes.                                                                *)
(***************************************************************************)
IsExternal(v) == "ext" \in facts[rep[v]]
Global(c) == {g[1] : g \in regions[c]}

\* global_storage_roots_index
StorageRoots(o) == {c \in Roots : o \in Global(c)}

EdgesOf(kinds) == {i \in DOMAIN program.edges : program.edges[i].kind \in kinds}
EdgeAt(i) == program.edges[i]
AtRuntime(i) == i \notin program.startup

SeedsOf(kinds) == {s.at : s \in {x \in Listed(program.seeds) : x.kind \in kinds}}

(***************************************************************************)
(* Indirect calls.  No target at all is no answer: the callee is unknown.  *)
(***************************************************************************)
AddressTaken == {EdgeAt(i).src : i \in EdgesOf({"addrof"})} \cap Functions

CallTargets(site) ==
  IF IsEmpty(program.operand[site]) THEN {}
  ELSE {f \in UNION {fns[c] : c \in TargetsOf(program.operand[site])} :
          f \in AddressTaken /\ <<site, f>> \in program.compatible}

UnknownCallee(site) ==
  \/ CallTargets(site) = {}
  \/ \E c \in TargetsOf(program.operand[site]) : "ext" \in facts[c]

\* The rest of a row that is known in part.
UnknownIfEmpty(site) == CallTargets(site) = {}

(***************************************************************************)
(* Variadic calls through pointers (safe_indirect_vararg_callsites in      *)
(* pangs-api/src/lib.rs).  The graph first gives the tail of each to       *)
(* foreign code.  If every function such a call reaches leaves its tail    *)
(* alone, the graph is built again without that, and solved again.         *)
(***************************************************************************)
TailOf(p, site) ==
  {p.args[site][i] : i \in {j \in DOMAIN p.args[site] : site \in p.variadic /\ j > p.fixed[site]}}

VariadicIndirect == program.variadic \cap Listed(program.indirect)
SafeSites ==
  {site \in VariadicIndirect :
     ~UnknownCallee(site) /\ CallTargets(site) \subseteq program.unread \ program.external}

Recorded == [x \in DOMAIN program \ {"exact"} |-> program[x]]
Rebuilt ==
  [Recorded EXCEPT !.seeds =
     SelectSeq(@, LAMBDA seed : ~(seed.kind = "vararg-call" /\ seed.at \in SafeSites))]

(***************************************************************************)
(* Functions.  Being exported is not an escape of the address.             *)
(***************************************************************************)
UnknownCallers == {f \in Functions : "esc" \in facts[rep[f]]}
OwnExport(o) == Label("exported", o)
escape_sources(o) == UNION {sources[c] : c \in {rep[o]} \cup StorageRoots(o)}
AddressEscape(o) == escape_sources(o) \ {OwnExport(o)} # {}

(***************************************************************************)
(* The call graph that is exported (run_internal in pangs-api/src/lib.rs), *)
(* without the calls resolved before solving.                              *)
(***************************************************************************)
UnknownCalleeEdge(site) == <<site, "omega_fnptr">>
UnknownCallerEdge(f) == <<"address_escapes_to_external", f>>

CallEdges ==
  (UNION {{site} \X CallTargets(site) : site \in Listed(program.indirect)})
    \cup {UnknownCalleeEdge(site) : site \in {x \in Listed(program.indirect) : UnknownCallee(x)}}
    \cup {UnknownCallerEdge(f) : f \in UnknownCallers}

(***************************************************************************)
(* global_address_exposure: a global is unexposed if every use of its      *)
(* address is the address of a load or a store, or the argument of free.   *)
(***************************************************************************)
RootState(v) == IF IsEmpty(v) THEN {"empty"} ELSE program.root[v]

\* Values belong to the function whose parameter or result they are.
Scope(v) ==
  {f \in Functions : v \in program.ret[f] \/ \E i \in DOMAIN Params(f) : v \in Params(f)[i]}

SameRoot(e) ==
  \/ RootState(e.src) = RootState(e.dst)
  \/ IsEmpty(e.src) /\ RootState(e.dst) # {}

ExposingEnds(e) ==
  CASE e.kind = "addrof" -> {}
    [] e.kind = "gep"    -> IF RootState(e.src) = RootState(e.dst) THEN {} ELSE {e.src}
    [] e.kind = "assign" -> IF SameRoot(e) /\ Scope(e.src) = Scope(e.dst) THEN {} ELSE {e.src, e.dst}
    [] e.kind = "load"   -> {e.dst}
    [] e.kind = "store"  -> {e.src}
    [] e.kind = "memcpy" -> {e.src, e.dst}

Operands(site) == IF site \in Listed(program.indirect) THEN {program.operand[site]} ELSE {}
CallValues(site) == Listed(Args(site)) \cup Operands(site)

ExposingValues ==
  (UNION {ExposingEnds(EdgeAt(i)) : i \in DOMAIN program.edges})
    \cup (UNION {CallValues(site) : site \in Sites \ program.freed})
    \cup (SeedsOf(ValueSeeds))
    \cup (UNION {program.ret[f] : f \in Functions})
    \cup program.cleared

global_address_exposed ==
  (UNION {program.root[v] : v \in ExposingValues \ program.empty})
    \cup (SeedsOf(OwnerSeeds) \cap Allocations)
    \cup program.captured

\* violation_exposure: assembly without operands may touch anything.
ModuleWide == {} \in program.asm

(***************************************************************************)
(* allocation_isolation: how the address of an allocation flows, syntax    *)
(* only.  A stored pointer flows to the loads from the same component of   *)
(* addresses, and to the address itself, so that an escaped container      *)
(* takes along what it holds.                                              *)
(***************************************************************************)
Reach(flow, from) ==
  LET reached[n \in Nat] ==
        IF n = 0 THEN from
        ELSE LET before == reached[n - 1]
             IN before \cup {x[2] : x \in {y \in flow : y[1] \in before}}
  IN  reached[Cardinality(Nodes)]

Reversed(flow) == {<<x[2], x[1]>> : x \in flow}

Ends(indices) == {<<EdgeAt(i).src, EdgeAt(i).dst>> : i \in indices}

PointerEnds(kinds) ==
  {x \in Ends(EdgesOf(kinds)) : PointerTransfer(program, x[1], x[2])}

AddressAliases == LET moves == PointerEnds({"assign", "gep"}) IN moves \cup Reversed(moves)
Component(v) == Reach(AddressAliases, {v})

PointerLoads == {x \in Ends(EdgesOf({"load"})) : Pointer(program, x[2])}
PointerStores == {x \in Ends(EdgesOf({"store"})) : Pointer(program, x[1])}

StoredPointerFlow ==
  PointerStores
    \cup UNION {{x[1]} \X {y[2] : y \in {z \in PointerLoads : z[1] \in Component(x[2])}}
                : x \in PointerStores}

Internal(f) == f \notin program.external

BoundFlow(site, f) ==
  (UNION {{Args(site)[i]} \X Params(f)[i] : i \in DOMAIN Args(site) \cap DOMAIN Params(f)})
    \cup (program.ret[f] \X program.result[site])

IndirectFlow ==
  {x \in UNION {UNION {BoundFlow(site, f) : f \in CallTargets(site) \cap (Functions \ program.external)}
                : site \in Listed(program.indirect)}
   : PointerTransfer(program, x[1], x[2])}

UnsafeSites ==
  {site \in Listed(program.indirect) :
     UnknownCallee(site) \/ \E f \in CallTargets(site) : ~Internal(f)}

AddressFlow ==
  Ends(EdgesOf({"addrof", "gep"})) \cup PointerEnds({"assign"}) \cup StoredPointerFlow \cup IndirectFlow

Forged == Reach(AddressFlow, SeedsOf({"int_to_ptr"}))

BoundarySites == UnsafeSites \cup SeedsOf(SiteSeeds)

ParametersOfUnknown ==
  UNION {UNION {Params(f)[i] : i \in DOMAIN Params(f)} : f \in UnknownCallers}

\* What is published, then the address values of published objects.
AddressBlockers ==
  LET blocked == Forged
                   \cup SeedsOf({"exported", "ptr_to_int", "unknown_operand_escape", "unknown_result"})
                   \cup (UNION {CallValues(site) : site \in BoundarySites})
                   \cup (UNION {program.ret[f] : f \in UnknownCallers})
                   \cup Reach(AddressFlow, ParametersOfUnknown)
  IN  blocked \cup {x[2] : x \in {y \in Ends(EdgesOf({"addrof"})) : y[1] \in blocked}}

WriteBlockers ==
  AddressBlockers
    \cup {EdgeAt(i).dst : i \in {j \in EdgesOf({"store", "memcpy"}) : AtRuntime(j)}}

AddressIsolated ==
  Allocations \ Reach(Reversed(AddressFlow), AddressBlockers)
WriteIsolated ==
  AddressIsolated \ Reach(Reversed(AddressFlow), WriteBlockers)

(***************************************************************************)
(* Globals.                                                                *)
(***************************************************************************)
StoredClasses(indices) ==
  UNION {TargetsOf(EdgeAt(i).dst) : i \in {j \in indices : ~IsEmpty(EdgeAt(j).dst)}}

Defined(o) == o \notin SeedsOf({"imported"})

ClassEscape(o) == \E c \in StorageRoots(o) : "esc" \in facts[c]
EscapeExternal(o) == ClassEscape(o) /\ ~(Defined(o) /\ o \in AddressIsolated)

NeverWritten(o) ==
  /\ Defined(o) /\ ~ClassEscape(o)
  /\ StorageRoots(o) \cap StoredClasses(EdgesOf({"store", "memcpy"})) = {}

RuntimeWritten(o) ==
  /\ StorageRoots(o) \cap StoredClasses({i \in EdgesOf({"store", "memcpy"}) : AtRuntime(i)}) # {}
  /\ ~(Defined(o) /\ o \in WriteIsolated)

(***************************************************************************)
(* Values.                                                                 *)
(***************************************************************************)
NodeCount(c) == Cardinality({n \in Nodes : rep[n] = c})

PointsToNothing(c) ==
  NodeCount(c) = 0 /\ facts[c] \cap {"ext", "esc"} = {} /\ fns[c] = {} /\ Global(c) = {}

ProvenEmpty(v) ==
  /\ "empty" \in facts[rep[v]] /\ ~IsExternal(v)
  /\ \A c \in TargetsOf(v) : PointsToNothing(c)
  /\ fns[rep[v]] = {} /\ Global(rep[v]) = {}

ReachesFunctionPointer(v) ==
  \E c \in TargetsOf(v) : fns[c] # {} \/ "ext" \in facts[c] \/ sites[c] # {}

PointeeGlobals(v) ==
  {o \in UNION {Global(c) : c \in TargetsOf(v)} : ModuleWide \/ o \in global_address_exposed}

(***************************************************************************)
(* Points-to sets (materialize_points_to).  An allocation is read with all *)
(* its fields, a field of it alone.                                        *)
(***************************************************************************)
FieldsAt(c) == {c} \cup UNION {FieldsOf({o}) : o \in {a \in Allocations : rep[a] = c}}

Contents(v) ==
  UNION {{rep[pointee[f]] : f \in {d \in FieldsAt(c) : pointee[d] # NoClass}} : c \in TargetsOf(v)}

ThroughMemory(v) == UNION {Global(c) \cup fns[c] : c \in Contents(v)}

ThroughMemoryExternal(v) ==
  \/ \E c \in TargetsOf(v) : facts[c] \cap {"ext", "esc"} # {}
  \/ \E c \in Contents(v) : "ext" \in facts[c]

(***************************************************************************)
(* Audits (emit_deferred_steens_audits in pangs-api/src/lib.rs): where the *)
(* address of a function turns into an integer, comes out of one or goes   *)
(* in a variadic tail, with the globals such a value may lead to.          *)
(***************************************************************************)
AuditedTails == (SeedsOf({"vararg-call"}) \ Listed(program.indirect)) \cup (VariadicIndirect \ SafeSites)
AuditCandidates ==
  SeedsOf({"ptr_to_int", "int_to_ptr"}) \cup (UNION {TailOf(program, site) : site \in AuditedTails})
Audited == {v \in AuditCandidates : ReachesFunctionPointer(v)}

audit_global_flow(v) ==
  PointeeGlobals(v) \cup (IF "union" \in facts[rep[v]] THEN {o \in Allocations : EscapeExternal(o)} ELSE {})

(***************************************************************************)
(* What pointers hold if the program is followed byte by byte, with        *)
(* foreign code that does all it can: held is a set of pairs of a value    *)
(* and an address, stored a set of triples of an address, a width and an   *)
(* address stored there, known the objects foreign code has the address    *)
(* of.  It calls the functions it knows, fills the allocations it knows,   *)
(* and hands over what it knows or an address of its own.                  *)
(***************************************************************************)
Elsewhere == <<NoClass, 0>>
\* Of what it knows, the start: it fills and reads all of it anyway.
HandedOver(x) == {Elsewhere} \cup (x.known \X {0})

BytesAt(address, width) ==
  {<<address[1], k>> : k \in IF width = {} THEN address[2] .. MaxOffset
                             ELSE address[2] .. address[2] + Bytes(width) - 1}
Displaced(address, delta) ==
  IF address = Elsewhere THEN {Elsewhere}
  ELSE {<<address[1], address[2] + d>> : d \in Offsets(delta, I64)} \cap (Owners \X I64)

HeldBy(x, v) == {h[2] : h \in {y \in x.held : y[1] = v}}
StoredAt(x, address, width) ==
  IF address = Elsewhere THEN HandedOver(x)
  ELSE {s[3] : s \in {y \in x.stored : BytesAt(y[1], y[2]) \cap BytesAt(address, width) # {}}}

EdgesIn(p, kind) == {e \in Listed(p.edges) : e.kind = kind}
SeededIn(p, kinds) == {s.at : s \in {y \in Listed(p.seeds) : y.kind \in kinds}}

Called(p, x) ==
  {y \in Listed(p.indirect) \X Functions :
     y \in p.compatible /\ <<y[2], 0>> \in HeldBy(x, p.operand[y[1]])}
ForeignCalls(p, x) ==
  SeededIn(p, {"external-call"})
    \cup {y[1] : y \in {z \in Called(p, x) : z[2] \in p.external}}
    \cup {site \in Listed(p.indirect) : Elsewhere \in HeldBy(x, p.operand[site])}

ParamsOf(p, f) == UNION {p.params[f][i] : i \in DOMAIN p.params[f]}

Assigned(p, x) ==
  LET passed == {<<e.src, e.dst>> : e \in EdgesIn(p, "assign")}
                \cup (UNION {UNION {{p.args[y[1]][i]} \X p.params[y[2]][i]
                                     : i \in DOMAIN p.args[y[1]] \cap DOMAIN p.params[y[2]]}
                              : y \in Called(p, x)})
                \cup UNION {p.ret[y[2]] \X p.result[y[1]] : y \in Called(p, x)}
  IN  {t \in passed : PointerTransfer(p, t[1], t[2])}

Received(p, x) ==
  {v \in p.entry \cup SeededIn(p, {"int_to_ptr", "unknown_result"})
           \cup (UNION {p.result[site] : site \in ForeignCalls(p, x)})
           \cup (UNION {ParamsOf(p, f) : f \in x.known \cap Functions})
     : Pointer(p, v)}

HoldNext(p, x) ==
  {<<e.dst, <<e.src, 0>>>> : e \in EdgesIn(p, "addrof")}
    \cup (UNION {{t[2]} \X HeldBy(x, t[1]) : t \in Assigned(p, x)})
    \cup (UNION {UNION {{e.dst} \X Displaced(a, e.delta) : a \in HeldBy(x, e.src)} : e \in EdgesIn(p, "gep")})
    \cup (UNION {UNION {{e.dst} \X StoredAt(x, a, e.width) : a \in HeldBy(x, e.src)}
                 : e \in {d \in EdgesIn(p, "load") : Pointer(p, d.dst)}})
    \cup (Received(p, x) \X HandedOver(x))

\* What is written where, by the module.
Writes(p, x, edges) ==
  (UNION {HeldBy(x, e.dst) \X {e.width} \X HeldBy(x, e.src)
          : e \in {d \in edges : d.kind = "store" /\ Pointer(p, d.src)}})
    \cup UNION {UNION {HeldBy(x, e.dst) \X {e.width} \X StoredAt(x, a, e.width) : a \in HeldBy(x, e.src)}
                : e \in {d \in edges : d.kind = "memcpy"}}

StoreNext(p, x) ==
  Writes(p, x, Listed(p.edges))
    \cup (((x.known \cap Allocations) \X {MinOffset}) \X {{}} \X HandedOver(x))
    \cup ((UNION {HeldBy(x, v) : v \in SeededIn(p, {"vararg_list"})}) \X {{}} \X HandedOver(x))

\* Who reads a tail takes it out of a list, which may hold anything foreign
\* code knows.
TailsRead(p, x) ==
  (SeededIn(p, {"vararg-call"}) \ Listed(p.indirect))
    \cup {y[1] : y \in {call \in Called(p, x) : call[2] \notin p.unread}}

\* What is handed to foreign code, directly or in memory it knows.
Given(p, x) ==
  SeededIn(p, {"ptr_to_int", "unknown_operand_escape"})
    \cup (UNION {Listed(p.args[site]) : site \in ForeignCalls(p, x)})
    \cup (UNION {TailOf(p, site) : site \in TailsRead(p, x)})
    \cup (UNION {p.ret[f] : f \in x.known \cap Functions})

GivenAway(p, x) == {a[1] : a \in UNION {HeldBy(x, v) : v \in Given(p, x)}}

KnowNext(p, x) ==
  Owners \cap
    (SeededIn(p, OwnerSeeds) \cup GivenAway(p, x)
       \cup {s[3][1] : s \in {y \in x.stored : y[1] = Elsewhere \/ y[1][1] \in x.known}})

Executed(p) ==
  LET after[n \in Nat] ==
        IF n = 0 THEN [held |-> {}, stored |-> {}, known |-> {}]
        ELSE LET x == after[n - 1]
             IN [held   |-> x.held \cup HoldNext(p, x),
                 stored |-> x.stored \cup StoreNext(p, x),
                 known  |-> x.known \cup KnowNext(p, x)]
  IN  after[CHOOSE n \in 0 .. 50 : after[n] = after[n + 1]]

Executions == [p \in Programs |-> Executed(p)]
Execution == Executions[Recorded]

(***************************************************************************)
(* Whatever a value holds is in the class it points to, as a function or   *)
(* in one of the class's regions, and the row of the value names it; a     *)
(* value that holds something foreign is external.                         *)
(***************************************************************************)
Covers(c, address) ==
  \/ address[1] \in fns[c]
  \/ \E g \in regions[c] : g[1] = address[1] /\ address[2] \in Offsets(g[2].location, I64)

Named(v, o) == o \in PointeeGlobals(v) \cup program.root[v] \/ ReachesFunctionPointer(v)

ValuesCovered(x) ==
  \A h \in x.held :
    /\ ~ProvenEmpty(h[1])
    /\ \/ IsExternal(h[1])
       \/ (\E c \in TargetsOf(h[1]) : Covers(c, h[2])) /\ Named(h[1], h[2][1])

MemoryCovered(x) ==
  \A h \in x.held : \A a \in StoredAt(x, h[2], {1}) :
    \/ IsExternal(h[1]) \/ ThroughMemoryExternal(h[1])
    \/ a[1] \in ThroughMemory(h[1])

CallsCovered(x) ==
  /\ \A y \in Called(program, x) : CallEdges \cap {y, UnknownCalleeEdge(y[1])} # {}
  /\ \A site \in ForeignCalls(program, x) \cap Listed(program.indirect) :
       CallEdges \cap ({UnknownCalleeEdge(site)} \cup ({site} \X program.external)) # {}

\* A call whose tail is kept from foreign code does not let anybody read it,
\* and the program that is solved again runs like this one.
TailsKept(x) ==
  /\ SafeSites \cap (TailsRead(program, x) \cup ForeignCalls(program, x)) = {}
  /\ Executions[Rebuilt] = x

EscapesCovered(x) ==
  /\ \A f \in x.known \cap Functions : UnknownCallerEdge(f) \in CallEdges
  /\ \A o \in x.known \cap Allocations : ClassEscape(o)
  /\ \A o \in Owners \cap GivenAway(program, x) : AddressEscape(o)

Written(x, indices) ==
  {w[1][1] : w \in Writes(program, x, {EdgeAt(i) : i \in indices})}

WritesCovered(x) ==
  \A o \in Allocations :
    /\ NeverWritten(o) => o \notin x.known \cup Written(x, DOMAIN program.edges)
    /\ ~RuntimeWritten(o) /\ ~ClassEscape(o) => o \notin Written(x, {i \in DOMAIN program.edges : AtRuntime(i)})

\* A function's address is audited, and an audit names the globals.
AuditsCovered(x) ==
  \A h \in {y \in x.held : y[1] \in AuditCandidates} :
    /\ h[2][1] \in Functions => h[1] \in Audited
    /\ h[2][1] \in Allocations /\ h[1] \in Audited => h[2][1] \in audit_global_flow(h[1])

\* What the certificates rely on: a pointer is only stored at an address as it
\* was taken, and read through an alias the proof knows of.
FollowedThroughMemory(x) ==
  /\ EdgesOf({"memcpy"}) = {}
  /\ \A s \in PointerStores : HeldBy(x, s[2]) # {} =>
       /\ \E i \in EdgesOf({"addrof"}) : EdgeAt(i).dst = s[2]
       /\ \A l \in PointerLoads :
            HeldBy(x, s[2]) \cap HeldBy(x, l[1]) # {} => l[1] \in Component(s[2])

EscapesReported(x) == \A o \in x.known \cap Allocations : Defined(o) => EscapeExternal(o)

IsolationSound(x) ==
  FollowedThroughMemory(x) =>
    /\ EscapesReported(x)
    /\ WriteIsolated \cap Written(x, {i \in DOMAIN program.edges : AtRuntime(i)}) = {}

(***************************************************************************)
(* At rest, the answers hold of every execution of the program, byte by    *)
(* byte and with foreign code that does all it can: what a value holds and *)
(* what is read through it is in its row, every call and every caller has  *)
(* an edge, what foreign code learns has escaped, what is written is not   *)
(* called unwritten, function addresses that turn into integers or go in a *)
(* tail are audited, and an allocation that is certified stays in the      *)
(* module as long as pointers in memory are followed (finish,              *)
(* allocation_isolation).                                                  *)
(***************************************************************************)
AnswersCoverExecutions ==
  AtRest => LET x == Execution IN
    /\ ValuesCovered(x) /\ MemoryCovered(x) /\ CallsCovered(x) /\ TailsKept(x) /\ EscapesCovered(x)
    /\ WritesCovered(x) /\ AuditsCovered(x) /\ IsolationSound(x)

(***************************************************************************)
(* At rest, a global defined here whose address foreign code can get has a *)
(* row that says so, however the address travels (allocation_isolation:    *)
(* "If a containing address reaches an unknown boundary, so does every     *)
(* pointer stored in it.").                                                *)
(***************************************************************************)
KnownAddressesReported == AtRest => EscapesReported(Execution)
=============================================================================
