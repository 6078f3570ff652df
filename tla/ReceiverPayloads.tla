--------------------------- MODULE ReceiverPayloads ---------------------------
(***************************************************************************)
(* What the inclusion tier reads off the finished graph before it decides  *)
(* what to take on: which nodes carry pointers, the calls through          *)
(* pointers, what lies ahead of a node, and addresses that are certain;    *)
(* then functions that put a pointer into their receiver, or get one out   *)
(* of it (opt-in).  Their calls on receivers that are certain bind no      *)
(* payload: it goes to and comes from a cell of that receiver's own.       *)
(***************************************************************************)
EXTENDS GraphExecution

CONSTANTS
  MaxContexts,  \* receivers that are told apart
  MaxOrigins    \* allocations a payload is traced to

Carries(p, n) ==
  CASE n[1] = "value" -> MayCarryPointer(p, n[2][2])
    [] n[1] = "param" -> MayCarryPointer(p, Params(p, n[2][1])[n[2][2]])
    [] OTHER -> n[1] # "nopointer"
Transfers(p, from, to) == Carries(p, from) /\ Carries(p, to)

Indirect(g) == {site \in g.calls : site.kind = "indirect"}
Operands(g) == UNION {site.operand : site \in Indirect(g)}
AllNodes(p, g) ==
  NodesOf(g) \cup (UNION {Elements(site.args) \cup site.operand \cup site.result : site \in g.calls})
  \cup {GlobalObject(v) : v \in p.globals} \cup {FunctionObject(f) : f \in Functions(p)}
  \cup {Ret(f) : f \in Functions(p)} \cup UNION {{Param(f, k) : k \in DOMAIN Params(p, f)} : f \in Functions(p)}

RECURSIVE Ahead(_, _)
Ahead(arcs, from) ==
  LET next == from \cup {a[2] : a \in {b \in arcs : b[1] \in from}}
  IN  IF next = from THEN from ELSE Ahead(arcs, next)
Turned(arcs) == {<<a[2], a[1]>> : a \in arcs}
Behind(arcs, from) == Ahead(Turned(arcs), from)

(***************************************************************************)
(* Certified addresses (exact_allocation_addresses): the one allocation,   *)
(* and where in it, that a node's pointers name, whatever runs.            *)
(***************************************************************************)
Address(root, location, moved) == [root |-> root, at |-> location, moved |-> moved]
Certified(addresses, n) == {x[2] : x \in {y \in addresses : y[1] = n}}

FirstAddresses(g, rooted) ==
  {<<r[1], Address(r[2][2], Exact(0), FALSE)>> :
     r \in {x \in rooted : x[2] # Empty /\ Cardinality(Producers(g, x[1])) = 1
                           /\ \A e \in Producers(g, x[1]) : e.kind = "addrof"}}

MovedAddress(addresses, e) ==
  {Address(a.root, add(a.at, e.delta), TRUE) : a \in Certified(addresses, e.src)}
OneAddress(found) ==
  IF Cardinality({a.root : a \in found}) # 1 THEN {}
  ELSE IF Cardinality(found) = 1 THEN found
  ELSE {Address((CHOOSE a \in found : TRUE).root, Unknown, FALSE)}
CopiedAddress(addresses, rooted, sources) ==
  LET pointing == {n \in sources : Found(rooted, n) # {Empty}}
  IN  IF \E n \in pointing : Certified(addresses, n) = {} THEN {}
      ELSE OneAddress(UNION {Certified(addresses, n) : n \in pointing})
NextAddresses(g, rooted, addresses, n) ==
  LET from == Producers(g, n)
      moved == {e \in from : e.kind = "gep"}
      candidate == IF Cardinality(from) = 1 /\ moved = from THEN UNION {MovedAddress(addresses, e) : e \in from}
                   ELSE IF from # {} /\ \A e \in from : e.kind = "assign"
                     THEN CopiedAddress(addresses, rooted, {e.src : e \in from})
                   ELSE {}
  IN  {<<n, a>> : a \in {x \in candidate : <<n, RootedAt(x.root)>> \in rooted}}
RECURSIVE AddressesFrom(_, _, _)
AddressesFrom(g, rooted, addresses) ==
  LET open == {r[1] : r \in {x \in rooted : Certified(addresses, x[1]) = {}}}
      more == UNION {NextAddresses(g, rooted, addresses, n) : n \in open}
  IN  IF more = {} THEN addresses ELSE AddressesFrom(g, rooted, addresses \cup more)
ExactAddresses(g, rooted) == AddressesFrom(g, rooted, FirstAddresses(g, rooted))

(***************************************************************************)
(* Which functions are such operations (infer_receiver_payload_ops): the   *)
(* parameters they store, and where; and where what they return lies.      *)
(***************************************************************************)
NoOperation == [stored |-> {}, returned |-> {}]
Directly(g) == {site \in g.calls : site.kind = "direct"}
Edges1(g, f, kind) == {e \in g.edges : e.owner = f /\ e.kind = kind}
local_copy_adjacency(p, g, f) == {<<e.src, e.dst>> : e \in {x \in Edges1(g, f, "assign") : Transfers(p, x.src, x.dst)}}
local_adjacency(p, g, f) ==
  local_copy_adjacency(p, g, f)
  \cup {<<e.src, e.dst>> : e \in {x \in Edges1(g, f, "load") \cup Edges1(g, f, "gep") : Transfers(p, x.src, x.dst)}}

HasReceiver(p, f) == ~External(p, f) /\ 1 \in DOMAIN Params(p, f) /\ Carries(p, Param(f, 1))
\* The parameters, but for the receiver, that come to a node.
PayloadsAt(p, f, arcs, n) ==
  {k \in 2 .. Len(Params(p, f)) : Carries(p, Param(f, k)) /\ n \in Ahead(arcs, {Param(f, k)})}

receiver_payload_location(g, addresses, n) ==
  LET certain == {a.at : a \in Certified(addresses, n)}
      moved == {e.delta : e \in {x \in g.edges : x.kind = "gep" /\ x.dst = n}}
  IN  CASE certain # {} -> CHOOSE at \in certain : TRUE
        [] certain = {} /\ moved # {} -> CHOOSE at \in moved : TRUE
        [] OTHER -> Unknown

LocalOperation(p, g, addresses, f) ==
  LET arcs == local_adjacency(p, g, f)
      received == Ahead(arcs, {Param(f, 1)})
  IN  [ stored |-> UNION {PayloadsAt(p, f, arcs, e.src) \X {receiver_payload_location(g, addresses, e.dst)}
                          : e \in {x \in Edges1(g, f, "store") : x.dst \in received}},
        returned |-> {receiver_payload_location(g, addresses, e.src)
                      : e \in {x \in Edges1(g, f, "load") : x.src \in received /\ Ret(f) \in Ahead(arcs, {x.dst})}} ]

\* A function that hands its receiver on does what it calls does, or returns
\* what it loads from what it was given.
LiftedReturns(p, g, addresses, returned, site) ==
  LET caller == site.at[1]
      copies == local_copy_adjacency(p, g, caller)
      derived == Ahead(local_adjacency(p, g, caller), site.result)
      nested == {e \in Edges1(g, caller, "load") : e.src \in derived /\ Ret(caller) \in Ahead(copies, {e.dst})}
  IN  CASE returned = {} \/ site.result = {} -> {}
        [] returned # {} /\ Ret(caller) \in Ahead(copies, site.result) -> returned
        [] OTHER -> {receiver_payload_location(g, addresses, e.src) : e \in nested}
LiftedFrom(p, g, addresses, operation, site) ==
  LET caller == site.at[1]
      copies == local_copy_adjacency(p, g, caller)
  IN  [ stored |-> UNION {PayloadsAt(p, caller, copies, site.args[x[1]]) \X {x[2]}
                          : x \in {y \in operation.stored : y[1] \in DOMAIN site.args}},
        returned |-> LiftedReturns(p, g, addresses, operation.returned, site) ]
HandsOn(p, g, operations, site) ==
  /\ site.callee \in DOMAIN operations /\ site.at[1] \in DOMAIN operations
  /\ 1 \in DOMAIN site.args
  /\ site.args[1] \in Ahead(local_copy_adjacency(p, g, site.at[1]), {Param(site.at[1], 1)})
Lift(p, g, addresses, operations) ==
  LET from == [f \in DOMAIN operations |->
                {LiftedFrom(p, g, addresses, operations[site.callee], site)
                 : site \in {x \in Directly(g) : x.at[1] = f /\ HandsOn(p, g, operations, x)}}]
  IN  [f \in DOMAIN operations |->
         [part \in DOMAIN NoOperation |-> operations[f][part] \cup UNION {o[part] : o \in from[f]}]]
RECURSIVE LiftAll(_, _, _, _)
LiftAll(p, g, addresses, operations) ==
  LET next == Lift(p, g, addresses, operations)
  IN  IF next = operations THEN operations ELSE LiftAll(p, g, addresses, next)

\* Only families with a member that is called on two receivers are worth it.
ReceiversOf(g, addresses, f) ==
  {a.root : a \in UNION {Certified(addresses, site.args[1]) : site \in {x \in Directly(g) : x.callee = f /\ 1 \in DOMAIN x.args}}}
infer_receiver_payload_ops(p, g, addresses) ==
  LET found == LiftAll(p, g, addresses,
                 [f \in {x \in Functions(p) : HasReceiver(p, x)} |-> LocalOperation(p, g, addresses, f)])
      inferred == {f \in DOMAIN found : found[f] # NoOperation}
      family == {<<site.at[1], site.callee>> : site \in {x \in Directly(g) : {x.at[1], x.callee} \subseteq inferred}}
      enabled == Ahead(family \cup Turned(family), {f \in inferred : Cardinality(ReceiversOf(g, addresses, f)) >= 2})
  IN  [f \in enabled |-> found[f]]

(***************************************************************************)
(* Calls that are summarised: those on the receivers that are used most.   *)
(***************************************************************************)
Candidates(g, addresses, operations) ==
  {<<site, root>> \in {x \in Directly(g) : x.callee \in DOMAIN operations /\ x.at[1] \notin DOMAIN operations /\ 1 \in DOMAIN x.args}
                      \X {a[2].root : a \in addresses} :
     \E a \in Certified(addresses, site.args[1]) : a.root = root}
Used(candidates, operations, root) ==
  LET there == {c[1] : c \in {x \in candidates : x[2] = root}}
      both == (\E s \in there : operations[s.callee].stored # {}) /\ (\E s \in there : operations[s.callee].returned # {})
  IN  <<IF both THEN 1 ELSE 0, Cardinality(there)>>
Before(a, b) == a[1] > b[1] \/ (a[1] = b[1] /\ a[2] > b[2])
receiver_payload_context_roots(candidates, operations) ==
  LET roots1 == {c[2] : c \in candidates}
      Kept(chosen) ==
        /\ Cardinality(chosen) <= MaxContexts /\ (chosen # roots1 => Cardinality(chosen) = MaxContexts)
        /\ \A r \in chosen, other \in roots1 \ chosen :
             ~Before(Used(candidates, operations, other), Used(candidates, operations, r))
  IN  CHOOSE chosen \in SUBSET roots1 : Kept(chosen)
receiver_payload_summary_calls(g, addresses, operations) ==
  LET candidates == Candidates(g, addresses, operations)
      selected == receiver_payload_context_roots(candidates, operations)
  IN  {[site |-> c[1], root |-> c[2], operation |-> operations[c[1].callee]] : c \in {x \in candidates : x[2] \in selected}}

PayloadArguments(call) ==
  {<<call.site.args[x[1]], x[2]>> : x \in {y \in call.operation.stored : y[1] \in DOMAIN call.site.args}}
PayloadResults(call) == call.operation.returned \X call.site.result
\* What these calls no longer bind: pairs of nodes, whichever call binds them.
receiver_payload_binding_edges(p, calls) ==
  UNION {{<<call.site.args[x[1]], Param(call.site.callee, x[1])>>
          : x \in {y \in call.operation.stored : y[1] \in DOMAIN call.site.args \cap DOMAIN Params(p, call.site.callee)}}
         \cup {<<Ret(call.site.callee), x[2]>> : x \in PayloadResults(call)} : call \in calls}

(***************************************************************************)
(* Where a payload comes from (bounded_allocation_origins).                *)
(***************************************************************************)
OriginArcs(g) ==
  {<<e.src, e.dst>> : e \in {x \in g.edges : x.kind \in {"assign", "gep"}}}
  \cup UNION {o.sources \X {o.dst} : o \in g.origins}
OriginsOf(g, n) ==
  LET from == Behind(OriginArcs(g), {n}) IN {e.src : e \in {x \in g.edges : x.kind = "addrof" /\ x.dst \in from}}
KeptOrigins(g, n) ==
  LET all == OriginsOf(g, n)
  IN  IF Cardinality(all) <= MaxOrigins THEN all ELSE CHOOSE s \in SUBSET all : Cardinality(s) = MaxOrigins

CompleteProducer(complete, e) == e.kind = "addrof" \/ (e.kind \in {"assign", "gep"} /\ e.src \in complete)
CompleteNext(g, nodes, complete) ==
  complete \cup {n \in nodes :
    /\ Cardinality(OriginsOf(g, n)) <= MaxOrigins
    /\ \/ Producers(g, n) # {} /\ \A e \in Producers(g, n) : CompleteProducer(complete, e)
       \/ \E o \in g.origins : o.dst = n /\ o.complete /\ o.sources \subseteq complete}
RECURSIVE CompleteFrom(_, _, _)
CompleteFrom(g, nodes, complete) ==
  LET next == CompleteNext(g, nodes, complete)
  IN  IF next = complete THEN complete ELSE CompleteFrom(g, nodes, next)
\* Nodes all of whose values are traced to allocations, or are null.
CompleteOrigins(g, nodes) == CompleteFrom(g, nodes, {n \in nodes : n[1] = "value" /\ n[2][2] = "null"})

(***************************************************************************)
(* In the partition graph a payload depends on the allocations it may be,  *)
(* and what is got out of the receiver is joined with it.                  *)
(***************************************************************************)
PayloadCell(root, location) == <<"payload", <<root, location>>>>
IsPayload(v) == v[1] = "payload"
VerticesOf(vertices, root) == {root} \cup {v \in vertices : v[1] \in {"region", "payload"} /\ v[2][1] = root}
PayloadSupport(g, calls, vertices) ==
  UNION {UNION {UNION {VerticesOf(vertices, o) \X {PayloadCell(call.root, x[2])} : o \in KeptOrigins(g, x[1])}
                : x \in PayloadArguments(call)} : call \in calls}
PayloadReads(calls) ==
  UNION {{<<PayloadCell(call.root, x[1]), x[2]>> : x \in PayloadResults(call)} : call \in calls}
=============================================================================
