---------------------------- MODULE Steensgaard ----------------------------
(***************************************************************************)
(* The base tier: unification over the PAG (struct Solver in               *)
(* pangs-solve/src/lib.rs).  Nodes and the locations pointers designate    *)
(* are put into classes; a class points to at most one class.  Constraints *)
(* unify classes, and what a class is found to be (external, escaped, a    *)
(* call operand's target, a region of an allocation) is worked off by a    *)
(* worklist that binds indirect calls, publishes allocations and shifts    *)
(* addresses, which unifies further classes.                               *)
(*                                                                         *)
(*   rep, pointee   representative of a class; the class it points to      *)
(*   size           how many classes it has joined; the larger survives    *)
(*   facts          what is known of the class and its contents            *)
(*   sources        why it escapes                                         *)
(*   content        classes its contents flow to; delivered says which     *)
(*                  facts were already pushed to which of them             *)
(*   sites, fns     calls whose operand points here, functions that are    *)
(*                  here; swept is the rectangle of pairs already tried,   *)
(*                  opened the calls already treated as external           *)
(*   regions        byte regions of allocations that are here              *)
(*   shifts         address arithmetic on pointers to here; replayed is    *)
(*                  what it was last done for                              *)
(*   spread         the regions whose owners were published from here      *)
(*   cells          the class of an allocation's region, once it is made   *)
(*   escaped        why an allocation escapes with all its regions         *)
(*   lanes          lanes derived for an allocation                        *)
(*   pairs, externals, published   site and function pairs considered,     *)
(*                  sites and functions given external effects             *)
(*                                                                         *)
(* The program is sequential: one handler runs to its end before the next  *)
(* starts.  A handler unifies classes halfway and goes on with what it     *)
(* finds afterwards, so each function it calls is a step of its own, in    *)
(* the order of the code: agenda is what the running handler has still to  *)
(* call, and nothing else happens until it is empty.                       *)
(*                                                                         *)
(* The worklist is a queue, filled by loops in hash order: here any class  *)
(* of it is next.  Provenance bits and metrics are left out.               *)
(***************************************************************************)
EXTENDS FieldLocations, Sequences

CONSTANTS
  Values,           \* value, parameter and return nodes
  Allocations,      \* objects that hold data
  Functions,        \* function objects
  Spare,            \* names for the classes made while solving
  NoClass,          \* a class that points nowhere
  Sites,            \* call sites, direct and indirect
  DerivedLaneCap,   \* STEENS_ONE_HOP_DERIVED_LANE_CAP
  Programs

ASSUME SteensgaardAssumption ==
  /\ DerivedLaneCap \in Nat
  /\ NoClass \notin Values \cup Allocations \cup Functions \cup Spare
  /\ (Values \cup Allocations \cup Functions) \cap Spare = {}
  /\ Values \cap (Allocations \cup Functions) = {}

Owners == Allocations \cup Functions
Nodes == Values \cup Owners
Class == Nodes \cup Spare

(***************************************************************************)
(* What may be known of a class.  ext: its contents come from outside;     *)
(* union: an integer was forged into it; esc: foreign code can reach it;   *)
(* alloc: so can the whole allocation; written: a pointer is stored here;  *)
(* empty: its contents may be null.                                        *)
(***************************************************************************)
FactNames == {"ext", "union", "esc", "alloc", "written", "empty"}
External == {"ext"}
ForgedUnion == {"ext", "union"}
Escape == {"esc", "alloc"}

Label(kind, of) == <<kind, of>>
DerivedPointee == Label("derived:external-pointee", NoClass)
DerivedField == Label("derived:allocation-field-escape", NoClass)
LabelKinds == {"exported", "imported", "ptr_to_int", "unknown_operand_escape", "external-call",
               "vararg-call", "derived:external-pointee", "derived:allocation-field-escape"}
\* ProvenanceInterner::first_lexicographic: one of them, always the same one.
First(labels) == CHOOSE l \in labels : TRUE

(***************************************************************************)
(* Programs.  Widths and addresses are those of FieldLocations: a width {} *)
(* is unknown.  Of a value the storage roots know whether it is proven     *)
(* empty, or the one allocation it points into (root).  startup: edges of  *)
(* the global initializer; freed: calls of the trusted free; captured:     *)
(* allocations initializers mention; cleared: destinations of memset; asm: *)
(* values of the inline assembly, {} if it has none or names a symbol;     *)
(* variadic: calls with a tail, all behind the fixed arguments; unread:    *)
(* functions that make no use of theirs, or only read through it.          *)
(***************************************************************************)
FlowKinds == {"assign", "load", "store", "gep", "memcpy"}
OwnerSeeds == {"exported", "imported"}
ValueSeeds == {"ptr_to_int", "unknown_operand_escape", "int_to_ptr", "unknown_result", "vararg_list"}
SiteSeeds == {"external-call", "vararg-call"}

AtMostOne(set) == \A x, y \in set : x = y

EdgeShapes ==
  [kind : {"addrof"}, src : Owners, dst : Values, width : SUBSET Nat, delta : FieldLocationValues]
  \cup [kind : FlowKinds, src : Values, dst : Values, width : SUBSET Nat, delta : FieldLocationValues]
SeedShapes ==
  [kind : OwnerSeeds, at : Owners] \cup [kind : ValueSeeds, at : Values] \cup [kind : SiteSeeds, at : Sites]

ProgramShapes ==
  [ edges    : Seq(EdgeShapes),
    seeds    : Seq(SeedShapes),
    indirect : Seq(Sites),
    entry    : SUBSET Values,
    pointers : SUBSET Values,
    empty    : SUBSET Values,
    root     : [Values -> SUBSET Allocations],
    operand  : [Sites -> Values],
    args     : [Sites -> Seq(Values)],
    result   : [Sites -> SUBSET Values],
    fixed    : [Sites -> Nat],
    params   : [Functions -> Seq(SUBSET Values)],
    ret      : [Functions -> SUBSET Values],
    external : SUBSET Functions,
    variadic : SUBSET Sites,
    unread   : SUBSET Functions,
    compatible : SUBSET (Sites \X Functions),
    startup  : SUBSET Nat,
    freed    : SUBSET Sites,
    captured : SUBSET Allocations,
    cleared  : SUBSET Values,
    asm      : SUBSET (SUBSET Values) ]

ASSUME ProgramAssumption ==
  /\ Programs \subseteq ProgramShapes
  /\ \A p \in Programs :
       /\ \A site \in Sites : AtMostOne(p.result[site])
       /\ \A f \in Functions :
            AtMostOne(p.ret[f]) /\ \A i \in DOMAIN p.params[f] : AtMostOne(p.params[f][i])

Pointer(p, v) == v \in p.pointers
PointerTransfer(p, src, dst) == Pointer(p, src) /\ Pointer(p, dst)

(***************************************************************************)
(* exact_allocation_addresses: values whose every producer names one       *)
(* place in one allocation.                                                *)
(***************************************************************************)
Address(o, location, via_gep) == [root |-> o, location |-> location, via_gep |-> via_gep]

Listed(list) == {list[i] : i \in DOMAIN list}

Producers(p, v) ==
  {e \in Listed(p.edges) : e.dst = v /\ e.kind \in {"addrof", "assign", "load", "gep"}}

OnlyProducer(p, v, kind) ==
  {e \in Producers(p, v) : e.kind = kind /\ Producers(p, v) = {e}}

AddressesTaken(p) ==
  [v \in Values |-> IF OnlyProducer(p, v, "addrof") = {} THEN {}
                    ELSE {Address(o, Exact(0), FALSE) : o \in p.root[v]}]

SumOfGep(p, known, v) ==
  UNION {{Address(base.root, add(base.location, e.delta), TRUE) : base \in known[e.src]}
         : e \in OnlyProducer(p, v, "gep")}

\* The sources agree on the allocation; if they do not agree on the place in
\* it, the place is unknown.
MeetOfSources(p, known, v) ==
  LET producers == Producers(p, v)
      alternatives == UNION {known[e.src] : e \in {d \in producers : d.src \notin p.empty}}
  IN  IF \/ \E e \in producers :
              \/ e.kind # "assign"
              \/ e.src \notin p.empty /\ (p.root[e.src] = {} \/ known[e.src] = {})
         \/ \E a, b \in alternatives : a.root # b.root
      THEN {}
      ELSE IF \A a, b \in alternatives : a = b THEN alternatives
      ELSE {Address(a.root, Unknown, FALSE) : a \in alternatives}

Within(p, known) ==
  [v \in Values |-> {a \in known[v] : a.root \in p.root[v]}]

ExactAddresses(p) ==
  LET known[rounds \in Nat] ==
        IF rounds = 0 THEN AddressesTaken(p)
        ELSE LET before == Within(p, known[rounds - 1])
             IN [v \in Values |->
                   IF before[v] # {} THEN before[v]
                   ELSE SumOfGep(p, before, v) \cup MeetOfSources(p, before, v)]
  IN  Within(p, known[Cardinality(Values)])

VARIABLES
  program,    \* the program being solved, with its exact addresses
  todo,       \* its edges, calls, seeds and entry parameters not yet read
  agenda,     \* calls the running handler has still to make
  worklist, rep, size, pointee, facts, sources, content, delivered, sites, fns, swept, opened,
  regions, shifts, replayed, spread, cells, escaped, lanes,
  pairs, externals, published,
  spare       \* class names not yet used

readVars == <<program, todo>>
graphVars == <<rep, size, pointee, spare>>
factVars == <<facts, sources>>
contentVars == <<content, delivered>>
callVars == <<sites, fns, swept, opened>>
shiftVars == <<regions, shifts, replayed, spread>>
fieldVars == <<cells, escaped, lanes>>
onceVars == <<pairs, externals, published>>
knownVars == <<graphVars, factVars, contentVars, callVars, shiftVars, fieldVars, onceVars>>
classVars == <<worklist, knownVars>>
vars == <<readVars, agenda, classVars>>

(***************************************************************************)
(* Calls.  The class a call is about is named by the expression the code   *)
(* has for it, evaluated when the call is made.                            *)
(***************************************************************************)
Of(c) == <<"class", c>>
PointeeOf(c) == <<"pointee", c>>
CellOf(o, region) == <<"cell", o, region>>

Find(term) ==
  CASE term[1] = "class"   -> rep[term[2]]
    [] term[1] = "pointee" -> rep[pointee[rep[term[2]]]]
    [] term[1] = "cell"    -> rep[cells[<<term[2], term[3]>>]]

Need(c) == [call |-> "pointee_of", of |-> c]
NeedCell(o, region) == [call |-> "field_class", root |-> o, region |-> region]
Join(left, right) == [call |-> "join", left |-> left, right |-> right]
Unify(left, right) == [call |-> "unify_pointees", left |-> left, right |-> right]
Content(src, dst) == [call |-> "add_content_edge", src |-> src, dst |-> dst]
AddShift(src, dst, delta) ==
  [call |-> "add_gep_transfer", src |-> src, dst |-> dst, delta |-> delta]
Give(of, names, labels) ==
  [call |-> "set_facts", of |-> of, names |-> names, labels |-> labels]
EscapeFields(o, labels) == [call |-> "escape_allocation_fields", root |-> o, labels |-> labels]
ApplyExternal(site) == [call |-> "apply_external_call", site |-> site]
PublishFrom(site, i) == [call |-> "publish_arguments", site |-> site, from |-> i]
PublishTail(site, i) == [call |-> "apply_vararg_call", site |-> site, from |-> i]
Bind(site, f) == [call |-> "bind_indirect_call", site |-> site, function |-> f]
Register(site) == [call |-> "register", site |-> site]
BindFrom(site, f, i) ==
  [call |-> "bind_arguments", site |-> site, function |-> f, from |-> i]
Replay(c) == [call |-> "replay_gep_transfers", of |-> c]
Process(c) == [call |-> "process_class", of |-> c]
Shift(c, transfer, given) ==
  [call |-> "shift", of |-> c, transfer |-> transfer, given |-> given]
ShiftedField(o, region, dst) ==
  [call |-> "shifted_field_class", root |-> o, region |-> region, dst |-> dst]
Widen(c, given) == [call |-> "widen", of |-> c, given |-> given]

\* Several sequences of calls made in hash order.
AnyOrder(batches) ==
  IF batches = {} THEN <<>> ELSE <<[call |-> "in_any_order", batches |-> batches]>>

Calling(name) == agenda # <<>> /\ Head(agenda).call = name
Then(calls) == agenda' = calls \o Tail(agenda)
Return == agenda' = Tail(agenda)

(***************************************************************************)
(* Facts are given to several classes at once; a class that gains one is   *)
(* queued.  given and labels are pairs of a class and a fact or label.     *)
(***************************************************************************)
GainedFacts(given, c) == {f \in FactNames : <<c, f>> \in given}
GainedLabels(labels, c) == {l[2] : l \in {m \in labels : m[1] = c}}

Gaining(given, labels) ==
  {c \in Class : \/ ~(GainedFacts(given, c) \subseteq facts[c])
                 \/ ~(GainedLabels(labels, c) \subseteq sources[c])}

Grant(given, labels) ==
  /\ facts' = [c \in Class |-> facts[c] \cup GainedFacts(given, c)]
  /\ sources' = [c \in Class |-> sources[c] \cup GainedLabels(labels, c)]
  /\ worklist' = worklist \cup Gaining(given, labels)

\* set_ext, set_external_escaped_union, set_empty_witness, set_esc_with_id and
\* set_esc_sources.
SetFacts ==
  /\ Calling("set_facts")
  /\ LET call == Head(agenda) IN
       Grant({Find(call.of)} \X call.names, {Find(call.of)} \X call.labels)
  /\ Return
  /\ UNCHANGED <<readVars, graphVars, contentVars, callVars, shiftVars, fieldVars, onceVars>>

(***************************************************************************)
(* Pointees.                                                               *)
(***************************************************************************)
NewClass == CHOOSE c \in spare : TRUE

\* pointee_of: the class a class points to, made if it points nowhere.
PointeeKnown ==
  /\ Calling("pointee_of")
  /\ pointee[rep[Head(agenda).of]] # NoClass
  /\ Return
  /\ UNCHANGED <<readVars, classVars>>

PointeeMade ==
  /\ Calling("pointee_of")
  /\ spare # {}
  /\ LET root == rep[Head(agenda).of] IN
       /\ pointee[root] = NoClass
       /\ pointee' = [pointee EXCEPT ![root] = NewClass]
       /\ worklist' = worklist \cup {root}
  /\ spare' = spare \ {NewClass}
  /\ Return
  /\ UNCHANGED <<readVars, rep, size, factVars, contentVars, callVars, shiftVars, fieldVars, onceVars>>

\* unify_pointees: two classes will point to one class.
UnifyPointees ==
  /\ Calling("unify_pointees")
  /\ LET a == Find(Head(agenda).left)
         b == Find(Head(agenda).right)
         pa == pointee[a]
         pb == pointee[b]
     IN  \/ /\ a = b
            /\ Then(<<Need(a)>>)
            /\ UNCHANGED <<worklist, pointee>>
         \/ /\ a # b /\ pa # NoClass /\ pb # NoClass
            /\ Then(<<Join(Of(pa), Of(pb))>>)
            /\ UNCHANGED <<worklist, pointee>>
         \/ /\ a # b /\ pa # NoClass /\ pb = NoClass
            /\ pointee' = [pointee EXCEPT ![b] = rep[pa]]
            /\ worklist' = worklist \cup {b}
            /\ Return
         \/ /\ a # b /\ pa = NoClass /\ pb # NoClass
            /\ pointee' = [pointee EXCEPT ![a] = rep[pb]]
            /\ worklist' = worklist \cup {a}
            /\ Return
         \/ /\ a # b /\ pa = NoClass /\ pb = NoClass
            /\ Then(<<Need(a), Unify(Of(a), Of(b))>>)
            /\ UNCHANGED <<worklist, pointee>>
  /\ UNCHANGED <<readVars, rep, size, spare, factVars, contentVars, callVars, shiftVars, fieldVars,
                 onceVars>>

AddContentEdge ==
  /\ Calling("add_content_edge")
  /\ LET src == Find(Head(agenda).src) IN
       /\ content' = [content EXCEPT ![src] = @ \cup {Find(Head(agenda).dst)}]
       /\ worklist' = worklist \cup {src}
  /\ Return
  /\ UNCHANGED <<readVars, graphVars, factVars, delivered, callVars, shiftVars, fieldVars,
                 onceVars>>

\* add_gep_transfer, after the pointee of its source was made.
AddGepTransfer ==
  /\ Calling("add_gep_transfer")
  /\ LET call == Head(agenda)
         target == Find(PointeeOf(call.src))
         transfer == [dst |-> call.dst, delta |-> call.delta]
     IN  /\ shifts' = [shifts EXCEPT ![target] = Append(@, transfer)]
         /\ worklist' = worklist \cup {target}
  /\ Return
  /\ UNCHANGED <<readVars, graphVars, factVars, contentVars, callVars, regions, replayed, spread,
                 fieldVars, onceVars>>

(***************************************************************************)
(* join: two classes become one.  What they point to becomes one next.     *)
(***************************************************************************)
Moved(table, from, to) ==
  [table EXCEPT ![to] = @ \cup table[from], ![from] = {}]

\* One rectangle of pairs is known to be done: the larger one.
Rectangle(c) == Cardinality(swept[c].sites) * Cardinality(swept[c].fns)
Nothing == [sites |-> {}, fns |-> {}]
\* The sites of both, and the functions of both.
SweptTogether(from, to) ==
  [swept EXCEPT ![to] = [sites |-> @.sites \cup swept[from].sites,
                         fns |-> @.fns \cup swept[from].fns],
                ![from] = Nothing]
SweptAfter(from, to) ==
  [swept EXCEPT ![to] = IF Rectangle(from) > Rectangle(to) THEN swept[from] ELSE @,
                ![from] = Nothing]

\* Content is offered anew to both successor lists.
Undelivered == [to |-> {}, names |-> {}]
DeliveredAfter(from, to) == [delivered EXCEPT ![to] = Undelivered]

\* Arithmetic is done again only if there is something new to do it for.
Unreplayed == [shifts |-> 0, regions |-> {}, summary |-> FALSE]
Transfers(c) == {shifts[c][i] : i \in DOMAIN shifts[c]}
ShiftsGrow(from, to) ==
  \/ ~(fns[from] \subseteq fns[to])
  \/ ~(regions[from] \subseteq regions[to])
  \/ ~(Transfers(from) \subseteq Transfers(to))
ReplayedAfter(from, to) ==
  IF ShiftsGrow(from, to) THEN [replayed EXCEPT ![to] = Unreplayed] ELSE replayed

\* The pointees of the two are joined if there are two of them.
JoinPointees(from, to) ==
  /\ pointee' = [pointee EXCEPT ![to] = IF @ = NoClass THEN pointee[from] ELSE @,
                                ![from] = NoClass]
  /\ IF pointee[from] # NoClass /\ pointee[to] # NoClass
       THEN Then(<<Join(Of(pointee[to]), Of(pointee[from]))>>)
       ELSE Return

Merge(from, to) ==
  /\ rep' = [c \in Class |-> IF rep[c] = from THEN to ELSE rep[c]]
  /\ size' = [size EXCEPT ![to] = @ + size[from]]
  /\ facts' = Moved(facts, from, to)
  /\ sources' = Moved(sources, from, to)
  /\ content' = Moved(content, from, to)
  /\ sites' = Moved(sites, from, to)
  /\ fns' = Moved(fns, from, to)
  /\ opened' = Moved(opened, from, to)
  /\ regions' = Moved(regions, from, to)
  /\ shifts' = [shifts EXCEPT ![to] = @ \o shifts[from], ![from] = <<>>]
  /\ delivered' = DeliveredAfter(from, to)
  /\ swept' = SweptAfter(from, to)
  /\ replayed' = ReplayedAfter(from, to)
  /\ JoinPointees(from, to)
  /\ worklist' = worklist \cup {to}
  /\ UNCHANGED <<readVars, spread, spare, fieldVars, onceVars>>

JoinClasses ==
  /\ Calling("join")
  /\ LET a == Find(Head(agenda).left)
         b == Find(Head(agenda).right)
     IN  /\ a # b
         /\ IF size[a] < size[b] THEN Merge(a, b) ELSE Merge(b, a)

JoinedAlready ==
  /\ Calling("join")
  /\ Find(Head(agenda).left) = Find(Head(agenda).right)
  /\ Return
  /\ UNCHANGED <<readVars, classVars>>

(***************************************************************************)
(* field_class: the class of a region of an allocation.  A new one is      *)
(* joined with every region of the allocation that may overlap it, and     *)
(* escapes if the allocation did.                                          *)
(***************************************************************************)
Overlapped(o, region) ==
  {cells[k] : k \in {j \in DOMAIN cells : /\ j[1] = o /\ j[2] # region
                                          /\ may_overlap(region, j[2])}}

\* A field made after the escape does not hear of it.
NoEscapeOfField(o) == {}

EscapeOfField(o) == IF o \in DOMAIN escaped THEN Escape ELSE {}

FieldKnown ==
  /\ Calling("field_class")
  /\ <<Head(agenda).root, Head(agenda).region>> \in DOMAIN cells
  /\ Return
  /\ UNCHANGED <<readVars, classVars>>

FieldMade ==
  /\ Calling("field_class")
  /\ spare # {}
  /\ LET o == Head(agenda).root
         region == Head(agenda).region
     IN  /\ <<o, region>> \notin DOMAIN cells
         /\ cells' = [k \in DOMAIN cells \cup {<<o, region>>} |->
                        IF k = <<o, region>> THEN NewClass ELSE cells[k]]
         /\ regions' = [regions EXCEPT ![NewClass] = {<<o, region>>}]
         /\ facts' = [facts EXCEPT ![NewClass] = EscapeOfField(o)]
         /\ sources' = [sources EXCEPT ![NewClass] =
                          IF o \in DOMAIN escaped THEN {First(escaped[o])} ELSE {}]
         /\ Then(AnyOrder({<<Join(Of(NewClass), Of(c))>> : c \in Overlapped(o, region)}))
  /\ spare' = spare \ {NewClass}
  /\ UNCHANGED <<readVars, worklist, rep, size, pointee, contentVars, callVars, shifts, replayed,
                 spread, escaped, lanes, onceVars>>

(***************************************************************************)
(* Address arithmetic (replay_gep_transfers).  A class with a function in  *)
(* it is a whole-object summary: arithmetic stays in the class.  Otherwise *)
(* every region is shifted, except that the unknown region of an           *)
(* allocation stands for all of its regions.                               *)
(***************************************************************************)
IsSummary(c) == fns[c] # {}
Frontier(c) ==
  [shifts |-> Len(shifts[c]), regions |-> regions[c], summary |-> IsSummary(c)]

\* An unknown region stands for those of other allocations too.
StandForAll(given) ==
  {g \in given : IsUnknown(g[2].location) \/ ~\E h \in given : IsUnknown(h[2].location)}

StandFor(given) ==
  {g \in given : IsUnknown(g[2].location)
                 \/ ~\E h \in given : h[1] = g[1] /\ IsUnknown(h[2].location)}

StayIn(c) ==
  AnyOrder({<<Need(t.dst), Join(PointeeOf(t.dst), Of(c))>> : t \in Transfers(c)})

ReplayCalls(c) ==
  LET given == StandFor(regions[c])
  IN  IF IsSummary(c)
        THEN StayIn(c) \o (IF \A t \in Transfers(c) : t.delta = Exact(0) THEN <<>>
                           ELSE <<Widen(c, regions[c])>>)
        ELSE IF given # {} /\ \A g \in given : IsUnknown(g[2].location)
        THEN StayIn(c)
        ELSE AnyOrder({<<Need(t.dst), Shift(c, t, given)>> : t \in Transfers(c)})

ReplayTransfers ==
  /\ Calling("replay_gep_transfers")
  /\ LET c == rep[Head(agenda).of] IN
       /\ shifts[c] # <<>>
       /\ replayed[c] # Frontier(c)
       /\ replayed' = [replayed EXCEPT ![c] = Frontier(c)]
       /\ Then(ReplayCalls(c))
  /\ UNCHANGED <<readVars, worklist, graphVars, factVars, contentVars, callVars, regions, shifts,
                 spread, fieldVars, onceVars>>

NothingToReplay ==
  /\ Calling("replay_gep_transfers")
  /\ LET c == rep[Head(agenda).of] IN shifts[c] = <<>> \/ replayed[c] = Frontier(c)
  /\ Return
  /\ UNCHANGED <<readVars, classVars>>

\* A displaced summary: every allocation it stands for brings its unknown region.
WidenSummary ==
  /\ Calling("widen")
  /\ LET call == Head(agenda)
         owners == fns[rep[call.of]] \cup {g[1] : g \in call.given}
         unknown == Region(Unknown, {0})
     IN Then(AnyOrder({<<NeedCell(o, unknown), Join(Of(call.of), CellOf(o, unknown))>>
                       : o \in owners}))
  /\ UNCHANGED <<readVars, classVars>>

\* One transfer.  p = p + constant would visit every multiple of it: the
\* exact regions go to the unknown one at once.
ShiftCalls(c, transfer, given) ==
  LET dst == transfer.dst
      circular == /\ IsExact(transfer.delta)
                  /\ Find(PointeeOf(dst)) = rep[c]
      Shifted(o, region) ==
        IF circular /\ IsExact(region.location)
          THEN LET unknown == Region(Unknown, region.width)
               IN <<NeedCell(o, unknown), Join(PointeeOf(dst), CellOf(o, unknown))>>
          ELSE <<ShiftedField(o, Region(add(region.location, transfer.delta), region.width), dst)>>
  IN  IF transfer.delta = Exact(0) THEN <<Join(PointeeOf(dst), Of(c))>>
      ELSE AnyOrder({Shifted(g[1], g[2]) : g \in given})

ShiftTransfer ==
  /\ Calling("shift")
  /\ LET call == Head(agenda) IN Then(ShiftCalls(call.of, call.transfer, call.given))
  /\ UNCHANGED <<readVars, classVars>>

\* The fixed vocabulary of address arithmetic.
ExactFieldLocations(o) ==
  {x.location : x \in {y \in UNION {program.exact[v] : v \in Values} : y.root = o}}
  \cup (IF o \in Allocations THEN {Exact(0)} ELSE {})
DirectGepOffsets ==
  {e.delta : e \in {d \in Listed(program.edges) : d.kind = "gep" /\ IsExact(d.delta)}}

\* shifted_field_class: exact locations come from the fixed vocabulary, lanes
\* are admitted up to the cap, everything else is the unknown region.
InVocabulary(o, location) ==
  \/ location \in ExactFieldLocations(o) /\ ~IsUnknown(location)
  \/ location \in DirectGepOffsets
Admissible(o, location) ==
  /\ IsLane(location)
  /\ location \in lanes[o] \/ Cardinality(lanes[o]) < DerivedLaneCap

ShiftedFieldClass ==
  /\ Calling("shifted_field_class")
  /\ LET call == Head(agenda)
         o == call.root
         location == call.region.location
         admitted == Admissible(o, location) /\ ~InVocabulary(o, location)
         region == IF InVocabulary(o, location) \/ admitted THEN call.region
                   ELSE Region(Unknown, call.region.width)
     IN  /\ lanes' = IF admitted THEN [lanes EXCEPT ![o] = @ \cup {location}] ELSE lanes
         /\ Then(<<NeedCell(o, region), Join(PointeeOf(call.dst), CellOf(o, region))>>)
  /\ UNCHANGED <<readVars, worklist, graphVars, factVars, contentVars, callVars, shiftVars,
                 cells, escaped, onceVars>>

(***************************************************************************)
(* Escape of whole allocations.                                            *)
(***************************************************************************)
FieldsOf(owners) ==
  {rep[cells[k]] : k \in {j \in DOMAIN cells : j[1] \in owners}}

EscapedWith(owners, labels) ==
  [o \in DOMAIN escaped \cup owners |->
     (IF o \in DOMAIN escaped THEN escaped[o] ELSE {}) \cup (IF o \in owners THEN labels ELSE {})]

FieldLabel(labels) == IF labels = {} THEN DerivedField ELSE First(labels)

\* escape_allocation_fields: only the first reason reaches the fields.
EscapeAllocationFields ==
  /\ Calling("escape_allocation_fields")
  /\ LET call == Head(agenda)
         already == call.root \in DOMAIN escaped /\ escaped[call.root] # {}
         reached == IF already THEN {} ELSE FieldsOf({call.root})
     IN  /\ escaped' = EscapedWith({call.root}, call.labels)
         /\ Grant(reached \X Escape, reached \X {FieldLabel(call.labels)})
  /\ Return
  /\ UNCHANGED <<readVars, graphVars, contentVars, callVars, shiftVars, cells, lanes, onceVars>>

\* escape_exact_address_fields
EscapeExact(v, labels) ==
  LET exact == program.exact[v]
  IN  IF exact = {} THEN <<>>
      ELSE <<EscapeFields((CHOOSE a \in exact : TRUE).root, labels)>>

\* What a pointer designates escapes.
Publish(v, labels) ==
  EscapeExact(v, labels) \o <<Need(v), Give(PointeeOf(v), Escape, labels)>>

(***************************************************************************)
(* Calls.                                                                  *)
(***************************************************************************)
Args(site) == program.args[site]
Params(f) == program.params[f]

\* What is assigned when a value flows across a call.
Transfer(src, dst) ==
  IF ~PointerTransfer(program, src, dst) THEN <<>>
  ELSE IF src \in program.empty THEN <<Give(Of(dst), {"empty"}, {})>>
  ELSE <<Join(Of(src), Of(dst))>>

\* Transfers between two sets with at most one member each.
TransferAny(srcs, dsts) ==
  IF srcs = {} \/ dsts = {} THEN <<>>
  ELSE Transfer(CHOOSE v \in srcs : TRUE, CHOOSE v \in dsts : TRUE)

BindIndirectCall ==
  /\ Calling("bind_indirect_call")
  /\ LET site == Head(agenda).site
         f == Head(agenda).function
     IN Then((IF f \in program.external THEN <<ApplyExternal(site)>> ELSE <<>>)
              \o <<BindFrom(site, f, 1)>>)
  /\ UNCHANGED <<readVars, classVars>>

\* The arguments in order, then the result.
BindArguments ==
  /\ Calling("bind_arguments")
  /\ LET site == Head(agenda).site
         f == Head(agenda).function
         i == Head(agenda).from
     IN  Then(IF i \in DOMAIN Args(site) /\ i \in DOMAIN Params(f)
                THEN TransferAny({Args(site)[i]}, Params(f)[i]) \o <<BindFrom(site, f, i + 1)>>
                ELSE TransferAny(program.ret[f], program.result[site]))
  /\ UNCHANGED <<readVars, classVars>>

\* apply_external_call: once per site.  Its arguments are published in order,
\* its result is external.
ApplyExternalCall ==
  /\ Calling("apply_external_call")
  /\ LET site == Head(agenda).site IN
       /\ externals' = externals \cup {site}
       /\ Then(IF site \in externals THEN <<>> ELSE <<PublishFrom(site, 1)>>)
  /\ UNCHANGED <<readVars, worklist, graphVars, factVars, contentVars, callVars, shiftVars,
                 fieldVars, pairs, published>>

\* Mutant: an argument that may be null is published like the others.
PublishAnyArgument(site, v) == Publish(v, {Label("external-call", site)})

PublishArgument(site, v) ==
  IF v \in program.empty THEN <<>> ELSE Publish(v, {Label("external-call", site)})

PublishArguments ==
  /\ Calling("publish_arguments")
  /\ LET site == Head(agenda).site
         i == Head(agenda).from
         result == program.result[site]
     IN  Then(IF i \in DOMAIN Args(site)
                THEN PublishArgument(site, Args(site)[i]) \o <<PublishFrom(site, i + 1)>>
                ELSE IF result = {} THEN <<>>
                ELSE <<Give(Of(CHOOSE v \in result : TRUE), External, {})>>)
  /\ UNCHANGED <<readVars, classVars>>

\* apply_vararg_call: the arguments behind the fixed ones, as far as they
\* point anywhere when the seed is read.
TailCalls(site, v) ==
  LET label == {Label("vararg-call", site)}
  IN  EscapeExact(v, label)
        \o (IF pointee[rep[v]] = NoClass THEN <<>> ELSE <<Give(PointeeOf(v), Escape, label)>>)

ApplyVarargCall ==
  /\ Calling("apply_vararg_call")
  /\ LET site == Head(agenda).site
         i == Head(agenda).from
     IN  Then(IF i \in DOMAIN Args(site)
                THEN TailCalls(site, Args(site)[i]) \o <<PublishTail(site, i + 1)>>
                ELSE <<>>)
  /\ UNCHANGED <<readVars, classVars>>

(***************************************************************************)
(* process_class, after the arithmetic was replayed.                       *)
(***************************************************************************)
Reached(c) == facts[c] \cap {"ext", "esc"} # {}
PublishesStored(c) == {"esc", "written"} \subseteq facts[c]

\* Owners of the regions here whose escape nobody spread yet.
OwnersToEscape(c) ==
  IF "alloc" \in facts[c] /\ spread[c] # regions[c]
    THEN {g[1] : g \in regions[c]} \ DOMAIN escaped
    ELSE {}

\* What a class that is external or escaped makes of what it points to.
PushedDown(c) ==
  {"ext", "esc"} \cup (facts[c] \cap {"union", "alloc"})
    \cup (IF PublishesStored(c) THEN {"alloc"} ELSE {})

PointeeLabels(c, target) ==
  IF sources[c] # {} THEN sources[c]
  ELSE IF \/ "esc" \notin facts[target]
          \/ (PushedDown(c) \cap {"alloc"}) \ facts[target] # {}
    THEN {DerivedPointee} ELSE {}

Targets(c) ==
  IF Reached(c) /\ pointee[c] # NoClass THEN {rep[pointee[c]]} ELSE {}

\* What flows along content edges.
Carried(c) ==
  (IF Reached(c) THEN {"ext"} ELSE {})
    \cup (IF "union" \in facts[c] THEN ForgedUnion ELSE {}) \cup (facts[c] \cap {"empty"})

Successors(c) ==
  LET waiting == IF Carried(c) \subseteq delivered[c].names
                   THEN content[c] \ delivered[c].to ELSE content[c]
  IN  IF Carried(c) = {} THEN {} ELSE {rep[d] : d \in waiting} \ {c}

NowDelivered(c) ==
  IF Carried(c) = {} THEN delivered[c]
  ELSE [to |-> content[c], names |-> delivered[c].names \cup Carried(c)]

\* Functions that escape for the first time: anybody may call them.
NowPublished(c) == IF "esc" \in facts[c] THEN fns[c] \ published ELSE {}
ParametersOf(functions) ==
  {rep[v] : v \in UNION {UNION {Params(f)[i] : i \in DOMAIN Params(f)} : f \in functions}}
ReturnedBy(functions) == (UNION {program.ret[f] : f \in functions}) \ program.empty

\* Calls not yet treated as external.
NowOpened(c) == IF "ext" \in facts[c] THEN sites[c] \ opened[c] ELSE {}

\* Pairs of a call and a function outside the rectangle already done.
NewPairs(c) ==
  LET new == (sites[c] \ swept[c].sites) \X fns[c]
      old == (sites[c] \cap swept[c].sites) \X (fns[c] \ swept[c].fns)
  IN  new \cup old
NowSwept(c) ==
  IF sites[c] = {} \/ fns[c] = {} THEN swept[c] ELSE [sites |-> sites[c], fns |-> fns[c]]

ProcessClass ==
  /\ Calling("process_class")
  /\ LET c == rep[Head(agenda).of]
         owners == OwnersToEscape(c)
         fields == FieldsOf(owners)
         carried == Carried(c)
         bindings == (NewPairs(c) \ pairs) \cap program.compatible
     IN  /\ spread' = IF "alloc" \in facts[c] THEN [spread EXCEPT ![c] = regions[c]] ELSE spread
         /\ escaped' = EscapedWith(owners, sources[c])
         /\ Grant((fields \X Escape) \cup (Targets(c) \X PushedDown(c))
                    \cup (Successors(c) \X carried)
                    \cup (ParametersOf(NowPublished(c)) \X External),
                  (fields \X {FieldLabel(sources[c])})
                    \cup UNION {{t} \X PointeeLabels(c, t) : t \in Targets(c)})
         /\ delivered' = [delivered EXCEPT ![c] = NowDelivered(c)]
         /\ published' = published \cup NowPublished(c)
         /\ opened' = [opened EXCEPT ![c] = @ \cup NowOpened(c)]
         /\ swept' = [swept EXCEPT ![c] = NowSwept(c)]
         /\ pairs' = pairs \cup NewPairs(c)
         /\ Then(AnyOrder({Publish(v, sources[c]) : v \in ReturnedBy(NowPublished(c))})
                   \o AnyOrder({<<ApplyExternal(s)>> : s \in NowOpened(c)})
                   \o AnyOrder({<<Bind(b[1], b[2])>> : b \in bindings}))
  /\ UNCHANGED <<readVars, graphVars, content, sites, fns, regions, shifts, replayed, cells, lanes,
                 externals>>

\* The next of the calls made in any order.
NextInAnyOrder ==
  /\ Calling("in_any_order")
  /\ \E batch \in Head(agenda).batches :
       Then(batch \o AnyOrder(Head(agenda).batches \ {batch}))
  /\ UNCHANGED <<readVars, classVars>>

(***************************************************************************)
(* Reading the program: edges, then calls, then seeds, then main's         *)
(* parameters (run).                                                       *)
(***************************************************************************)
IsEmpty(v) == v \in program.empty

\* storage_class_for_address: the calls that make a memory access's storage,
\* and what it is called afterwards.
DirectRoot(a, direct) == direct /\ a.location = Exact(0) /\ ~a.via_gep
ExactStorage(a, width, direct) ==
  LET cell == Region(a.location, width)
  IN  IF ~DirectRoot(a, direct) THEN <<NeedCell(a.root, cell)>>
      ELSE IF width = {0} THEN <<>>
      ELSE <<NeedCell(a.root, cell), Join(Of(a.root), CellOf(a.root, cell))>>
ExactStorageTerm(a, width, direct) ==
  IF DirectRoot(a, direct) THEN Of(a.root) ELSE CellOf(a.root, Region(a.location, width))

TheExact(v) == CHOOSE a \in program.exact[v] : TRUE
Storage(v, width, direct) ==
  IF program.exact[v] = {} THEN <<Need(v)>> ELSE ExactStorage(TheExact(v), width, direct)
StorageTerm(v, width, direct) ==
  IF program.exact[v] = {} THEN PointeeOf(v) ELSE ExactStorageTerm(TheExact(v), width, direct)

AddrOfCalls(e) == <<Need(e.dst), Join(PointeeOf(e.dst), Of(e.src))>>

AssignCalls(e) ==
  IF program.exact[e.dst] = {} \/ IsEmpty(e.src) \/ ~PointerTransfer(program, e.src, e.dst)
    THEN Transfer(e.src, e.dst)
    ELSE Storage(e.dst, {0}, TRUE)
           \o <<Need(e.dst), Join(PointeeOf(e.dst), StorageTerm(e.dst, {0}, TRUE))>>

LoadCalls(e) ==
  LET storage == StorageTerm(e.src, e.width, TRUE)
  IN  IF ~Pointer(program, e.dst) THEN <<>>
      ELSE IF IsEmpty(e.src) THEN <<Give(Of(e.dst), ForgedUnion, {})>>
      ELSE Storage(e.src, e.width, TRUE) \o <<Unify(storage, Of(e.dst)), Content(storage, Of(e.dst))>>

StoreCalls(e) ==
  LET storage == StorageTerm(e.dst, e.width, TRUE)
  IN  IF IsEmpty(e.dst) \/ ~Pointer(program, e.src) THEN <<>>
      ELSE Storage(e.dst, e.width, TRUE)
             \o (IF IsEmpty(e.src) THEN <<Give(storage, {"empty"}, {})>>
                 ELSE <<Unify(storage, Of(e.src)), Give(storage, {"written"}, {}),
                        Content(Of(e.src), storage)>>)

GepCalls(e) ==
  LET cell == Region(TheExact(e.dst).location, {0})
  IN  IF IsEmpty(e.src) THEN <<Give(Of(e.dst), ForgedUnion, {})>>
      ELSE IF program.exact[e.dst] = {}
        THEN <<Need(e.src), AddShift(e.src, e.dst, e.delta), Content(Of(e.src), Of(e.dst))>>
      ELSE <<Need(e.dst), NeedCell(TheExact(e.dst).root, cell),
             Join(PointeeOf(e.dst), CellOf(TheExact(e.dst).root, cell))>>

MemcpyCalls(e) ==
  LET to == StorageTerm(e.dst, e.width, FALSE)
      from == StorageTerm(e.src, e.width, FALSE)
  IN  IF IsEmpty(e.dst) THEN <<>>
      ELSE Storage(e.dst, e.width, FALSE)
             \o (IF IsEmpty(e.src) THEN <<Give(to, ForgedUnion, {})>>
                 ELSE Storage(e.src, e.width, FALSE)
                        \o <<Unify(to, from), Give(to, {"written"}, {}), Content(from, to)>>)

EdgeCalls(e) ==
  CASE e.kind = "addrof" -> AddrOfCalls(e)
    [] e.kind = "assign" -> AssignCalls(e)
    [] e.kind = "load"   -> LoadCalls(e)
    [] e.kind = "store"  -> StoreCalls(e)
    [] e.kind = "gep"    -> GepCalls(e)
    [] e.kind = "memcpy" -> MemcpyCalls(e)

ReadEdge ==
  /\ agenda = <<>> /\ todo.edges # <<>>
  /\ todo' = [todo EXCEPT !.edges = Tail(@)]
  /\ agenda' = EdgeCalls(Head(todo.edges))
  /\ UNCHANGED <<program, classVars>>

\* register_indirect_calls: at what the operand points to.
RegisterCall ==
  /\ agenda = <<>> /\ todo.edges = <<>> /\ todo.calls # <<>>
  /\ LET site == Head(todo.calls)
         operand == program.operand[site]
     IN  agenda' = IF IsEmpty(operand) THEN <<>> ELSE <<Need(operand), Register(site)>>
  /\ todo' = [todo EXCEPT !.calls = Tail(@)]
  /\ UNCHANGED <<program, classVars>>

RegisterSite ==
  /\ Calling("register")
  /\ LET site == Head(agenda).site
         target == Find(PointeeOf(program.operand[site]))
     IN  /\ sites' = [sites EXCEPT ![target] = @ \cup {site}]
         /\ worklist' = worklist \cup {target}
  /\ Return
  /\ UNCHANGED <<readVars, graphVars, factVars, contentVars, fns, swept, opened, shiftVars,
                 fieldVars, onceVars>>

\* apply_seeds.
SeedCalls(seed) ==
  LET label == {Label(seed.kind, seed.at)}
  IN  CASE seed.kind = "exported" -> <<Give(Of(seed.at), Escape, label), EscapeFields(seed.at, label)>>
        [] seed.kind = "imported" -> <<Give(Of(seed.at), Escape, label)>>
        [] seed.kind \in {"ptr_to_int", "unknown_operand_escape"} ->
             IF IsEmpty(seed.at) THEN <<>> ELSE Publish(seed.at, label)
        [] seed.kind = "int_to_ptr" -> <<Give(Of(seed.at), ForgedUnion, {})>>
        [] seed.kind = "unknown_result" -> <<Give(Of(seed.at), External, {})>>
        [] seed.kind = "external-call" -> <<ApplyExternal(seed.at)>>
        [] seed.kind = "vararg-call" -> <<PublishTail(seed.at, program.fixed[seed.at] + 1)>>
        [] seed.kind = "vararg_list" -> <<Need(seed.at), Give(PointeeOf(seed.at), External, {})>>

ReadSeed ==
  /\ agenda = <<>> /\ todo.edges = <<>> /\ todo.calls = <<>> /\ todo.seeds # <<>>
  /\ todo' = [todo EXCEPT !.seeds = Tail(@)]
  /\ agenda' = SeedCalls(Head(todo.seeds))
  /\ UNCHANGED <<program, classVars>>

\* seed_main_entry_params
ReadEntry ==
  /\ agenda = <<>> /\ todo.edges = <<>> /\ todo.calls = <<>> /\ todo.seeds = <<>>
  /\ todo.entry # {}
  /\ todo' = [todo EXCEPT !.entry = {}]
  /\ Grant({rep[v] : v \in todo.entry} \X External, {})
  /\ UNCHANGED <<program, agenda, graphVars, contentVars, callVars, shiftVars, fieldVars, onceVars>>

AllRead == todo.edges = <<>> /\ todo.calls = <<>> /\ todo.seeds = <<>> /\ todo.entry = {}

PopClass ==
  /\ agenda = <<>> /\ AllRead
  /\ \E c \in worklist :
       /\ worklist' = worklist \ {c}
       /\ agenda' = <<Replay(rep[c]), Process(rep[c])>>
  /\ UNCHANGED <<readVars, knownVars>>

AtRest == agenda = <<>> /\ AllRead /\ worklist = {}

(***************************************************************************)
(* The solver before it starts (Solver::new).                              *)
(***************************************************************************)
Home == Region(Exact(0), {0})

Init ==
  /\ \E p \in Programs :
       /\ program = [x \in DOMAIN p \cup {"exact"} |-> IF x = "exact" THEN ExactAddresses(p) ELSE p[x]]
       /\ todo = [edges |-> p.edges, calls |-> p.indirect, seeds |-> p.seeds, entry |-> p.entry]
       /\ facts = [c \in Class |-> IF c \in p.empty THEN {"empty"} ELSE {}]
  /\ agenda = <<>> /\ worklist = {}
  /\ rep = [c \in Class |-> c]
  /\ size = [c \in Class |-> 1]
  /\ pointee = [c \in Class |-> NoClass]
  /\ spare = Spare
  /\ sources = [c \in Class |-> {}]
  /\ content = [c \in Class |-> {}]
  /\ delivered = [c \in Class |-> Undelivered]
  /\ sites = [c \in Class |-> {}]
  /\ fns = [c \in Class |-> IF c \in Functions THEN {c} ELSE {}]
  /\ swept = [c \in Class |-> Nothing]
  /\ opened = [c \in Class |-> {}]
  /\ regions = [c \in Class |-> IF c \in Allocations THEN {<<c, Home>>} ELSE {}]
  /\ shifts = [c \in Class |-> <<>>]
  /\ replayed = [c \in Class |-> Unreplayed]
  /\ spread = [c \in Class |-> {}]
  /\ cells = [k \in Allocations \X {Home} |-> k[1]]
  /\ escaped = [o \in {} |-> {}]
  /\ lanes = [o \in Owners |-> {}]
  /\ pairs = {} /\ externals = {} /\ published = {}

Step ==
  \/ SetFacts \/ PointeeKnown \/ PointeeMade \/ UnifyPointees
  \/ AddContentEdge \/ AddGepTransfer
  \/ JoinClasses \/ JoinedAlready
  \/ FieldKnown \/ FieldMade
  \/ ReplayTransfers \/ NothingToReplay \/ WidenSummary \/ ShiftTransfer \/ ShiftedFieldClass
  \/ EscapeAllocationFields
  \/ BindIndirectCall \/ BindArguments
  \/ ApplyExternalCall \/ PublishArguments \/ ApplyVarargCall
  \/ RegisterSite \/ ProcessClass
  \/ NextInAnyOrder

Next == ReadEdge \/ RegisterCall \/ ReadSeed \/ ReadEntry \/ PopClass \/ Step

\* The process runs until it is done.
Spec == Init /\ [][Next]_vars /\ WF_vars(Next)
=============================================================================
