------------------------------ MODULE Clients ------------------------------
(***************************************************************************)
(* The facts a disposition is decided on (pangs-clients/src/lib.rs).  What *)
(* CallEffects published becomes one record per named global: the storage  *)
(* of unnamed literals is folded into the global that owns it, code run by *)
(* a thread or a signal handler marks what it touches, globals published   *)
(* at the same point form groups, and a mutex is certified for a global or *)
(* a group when no function that takes the lock can be called by another.  *)
(*                                                                         *)
(* The execution goes on: a registered function may now start at any time. *)
(* A lock is held by every frame of an accessor, for the whole frame.      *)
(*                                                                         *)
(* Further fields of a program:                                            *)
(*   literal  the unnamed literals;  refs: global -> what its initializer  *)
(*            refers to;  atomic: globals declared atomic;  library: its   *)
(*            exported globals are written by clients nobody sees          *)
(*   registry call site -> sequence of [kind, precise, open, runs]: the    *)
(*            registration APIs it may reach, in the solver's order        *)
(*   taken    defined functions whose address is taken                     *)
(*   finding  set of [func, affects, flow, known, line]: audit findings;   *)
(*            flow is {Anywhere} when it was not computed                  *)
(*   publish  global -> phase certificate: [status, at, path, first, last, *)
(*            init] when the status is "certified", else [status]          *)
(***************************************************************************)
EXTENDS CallEffects

CONSTANTS Spawn, Signal, Anywhere
VARIABLE manifest

(***************************************************************************)
(* Storage of unnamed literals                                             *)
(***************************************************************************)

Subjects(p) == p.defined \ p.literal

Backing(p, g) ==
    Closure(p.literal, p.refs[g] \cap p.literal,
            {q \in p.literal \X p.literal : q[2] \in p.refs[q[1]]})

CompoundLiteralOwners(p, l) == {g \in Subjects(p) : l \in Backing(p, g)}

StorageMembers(p, g) == {l \in p.literal \cap p.defined : CompoundLiteralOwners(p, l) = {g}}
StorageClosure(p, g) == {g} \cup StorageMembers(p, g)

(***************************************************************************)
(* Threads and signal handlers                                             *)
(***************************************************************************)

\* Mutant: an operand that is not resolved is not widened.
PreciseEntries(p, r) == r.precise

RegistryEntries(p, r) == r.precise \cup IF r.open THEN p.taken ELSE {}

\* What is registered was resolved or has its address taken, and its address reaches the runtime.
RegistrationSound(p, r) ==
    r.runs \subseteq p.entered \cap (r.precise \cup IF r.open THEN p.taken ELSE {})

ClientSound(p) ==
    /\ {"registry", "taken", "literal", "refs", "defined", "written"} \subseteq DOMAIN p
    /\ p.literal \subseteq Globals
    /\ Spawn \notin DOMAIN p.site /\ Signal \notin DOMAIN p.site
    /\ \A s \in DOMAIN p.registry :
          /\ Len(p.registry[s]) \in Nat /\ DOMAIN p.registry[s] = 1..Len(p.registry[s])
          /\ \A i \in DOMAIN p.registry[s] : RegistrationSound(p, p.registry[s][i])

ASSUME ClientAssumption ==
    /\ IsFiniteSet(Globals)
    /\ Omega # Spawn /\ Omega # Signal
    /\ \A p \in Programs : ClientSound(p)

\* Of the APIs one call site may reach the last one resolved is kept.
Resolved(p, s) == IF p.registry[s] = <<>> THEN {} ELSE {p.registry[s][Len(p.registry[s])]}

TransitiveAccesses(f) ==
    UNION {CandidateUnion(memo[Component(analysis.edges, f)].rows, access) : access \in Accesses}

RegistryAccess(p, kind) ==
    UNION {TransitiveAccesses(f) : f \in UNION {RegistryEntries(p, r) :
              r \in {x \in UNION {Resolved(p, s) : s \in DOMAIN p.registry} : x.kind = kind}}}

(***************************************************************************)
(* Audit findings                                                          *)
(***************************************************************************)

RowsFor(p, f, g) == {r \in LocalRows(p, f) : g \in r.scope}
IndirectRow(r) == r.target = Omega \/ r.from # <<"direct">>
AddressNodes(p, f, g) ==
    {s.at : s \in {x \in p.body[f] : g \in NodeIds(p, x.at)}}

AddressRelevant(p, d, g) ==
    \/ g \in d.affects
    \/ AddressNodes(p, d.func, g) \cap d.affects # {}
    \/ g \in d.flow

AccessShapeRelevant(p, d, g) ==
    /\ \E r \in RowsFor(p, d.func, g) : IndirectRow(r)
    /\ \E e \in Ledger(p, d.func) : e.via # "direct" /\ g \in e.targets /\ e.line = d.line

ViolationRelevance(p, d, g) ==
    CASE AddressRelevant(p, d, g) -> "address"
      [] ~AddressRelevant(p, d, g) /\ AccessShapeRelevant(p, d, g) -> "access-shape"
      [] OTHER -> IF d.known /\ (Anywhere \notin d.flow \/ \A r \in RowsFor(p, d.func, g) : ~IndirectRow(r))
                    THEN "unrelated" ELSE "unresolved"

ViolationTaint(p, g) ==
    \E d \in p.finding : RowsFor(p, d.func, g) # {} /\ ViolationRelevance(p, d, g) # "unrelated"

(***************************************************************************)
(* One record per global, and the folding of its storage                   *)
(***************************************************************************)

AccessSetComplete(p, g) == g \notin p.escaped /\ ~(p.library /\ g \in p.exported)

Localization(p, g) ==
    LET fields == {c \in plan'.fields : c.global = g}
    IN  IF fields = {} THEN "none"
        ELSE IF (\A c \in fields : ~c.blocked) /\ AccessSetComplete(p, g) THEN "ok" ELSE "blocked"

GlobalFacts(p, g) ==
    [written  |-> g \in Written(p) \cup p.exported,
     escaped  |-> g \in p.escaped,
     taint    |-> ViolationTaint(p, g),
     thread   |-> g \in RegistryAccess(p, Spawn),
     signal   |-> g \in RegistryAccess(p, Signal),
     complete |-> AccessSetComplete(p, g),
     phase    |-> p.publish[g],
     local    |-> Localization(p, g)]

FoldCertificate(owner, member) ==
    LET statuses == {owner.status, member.status}
    IN  IF "failed" \in statuses \/ (statuses = {"certified"} /\ owner # member) THEN [status |-> "failed"]
        ELSE IF "none" \in statuses THEN [status |-> "none"] ELSE owner

FoldLocalization(owner, member) ==
    IF "none" \in {owner, member} THEN "none"
    ELSE IF "blocked" \in {owner, member} THEN "blocked" ELSE "ok"

\* Mutant: the owner keeps its own written fact.
FoldOwnWrites(owner, member) ==
    [written  |-> owner.written, escaped  |-> owner.escaped \/ member.escaped,
     taint    |-> owner.taint \/ member.taint, thread   |-> owner.thread \/ member.thread,
     signal   |-> owner.signal \/ member.signal, complete |-> owner.complete /\ member.complete,
     phase    |-> FoldCertificate(owner.phase, member.phase),
     local    |-> FoldLocalization(owner.local, member.local)]

FoldStorageMember(owner, member) ==
    [written  |-> owner.written \/ member.written,
     escaped  |-> owner.escaped \/ member.escaped,
     taint    |-> owner.taint \/ member.taint,
     thread   |-> owner.thread \/ member.thread,
     signal   |-> owner.signal \/ member.signal,
     complete |-> owner.complete /\ member.complete,
     phase    |-> FoldCertificate(owner.phase, member.phase),
     local    |-> FoldLocalization(owner.local, member.local)]

FoldedFacts(p, g, members) ==
    LET folded[i \in 0..Len(members)] ==
          IF i = 0 THEN GlobalFacts(p, g) ELSE FoldStorageMember(folded[i - 1], GlobalFacts(p, members[i]))
    IN  folded[Len(members)]

Facts(p) == [g \in Subjects(p) |-> FoldedFacts(p, g, SetToSeq(StorageMembers(p, g)))]

(***************************************************************************)
(* Globals published together                                              *)
(***************************************************************************)

CertifiedGroupEvidence(c) == c.status = "certified"

IntersectIntervals(x, y) == [first |-> Max({x.first, y.first}), last |-> Min({x.last, y.last})]
NonEmpty(i) == i.first <= i.last

OnceLockPairCompatible(x, y) ==
    /\ x.at = y.at /\ x.path = y.path
    /\ NonEmpty(IntersectIntervals(x, y))
    /\ x.init \cap y.init # {}

Coupled(facts, g) ==
    {h \in DOMAIN facts : /\ CertifiedGroupEvidence(facts[g].phase) /\ CertifiedGroupEvidence(facts[h].phase)
                          /\ OnceLockPairCompatible(facts[g].phase, facts[h].phase)}

\* The class of g in the union of compatible pairs.
CouplingComponent(facts, g) ==
    Closure(DOMAIN facts, {g}, {q \in (DOMAIN facts) \X (DOMAIN facts) : q[2] \in Coupled(facts, q[1])})

CouplingGroups(facts) ==
    {c \in {CouplingComponent(facts, g) : g \in DOMAIN facts} : Cardinality(c) > 1}

\* The running intersection never grows again once it is empty.
CommonOnceLockSupport(facts, members) ==
    LET order == SetToSeq(members)
        Certificate(g) == facts[g].phase
    IN  [supported |-> /\ \A g \in members : /\ Certificate(g).at = Certificate(order[1]).at
                                             /\ Certificate(g).path = Certificate(order[1]).path
                       /\ NonEmpty(FoldLeft(LAMBDA i, g : IntersectIntervals(i, Certificate(g)), Certificate(order[1]), order)),
         common_p  |-> FoldLeft(LAMBDA i, g : IntersectIntervals(i, Certificate(g)), Certificate(order[1]), order).first]

(***************************************************************************)
(* Mutexes                                                                 *)
(***************************************************************************)

Accessors(p, g) == {f \in Funcs : \E e \in Ledger(p, f) : StorageClosure(p, g) \cap e.targets # {}}

\* A call path of at least one step, so a recursive accessor reaches itself.
AccessorPath(edges, accessors) ==
    \E f \in accessors : accessors \cap Closure(Funcs, Callees(edges, {f}), CallPairs(edges)) # {}

UnknownCalleePath(edges, accessors) ==
    \E f \in accessors, h \in Funcs : h \in Reachable(edges, f) /\ \E e \in edges : e[1] = h /\ e[3] = Omega

MutexCoarseEligible(fact) == fact.complete /\ ~fact.signal /\ ~fact.taint

MutexCertified(p, facts, g) ==
    /\ g \notin p.atomic
    /\ MutexCoarseEligible(facts[g])
    /\ ~AccessorPath(analysis.edges, Accessors(p, g))
    /\ ~UnknownCalleePath(analysis.edges, Accessors(p, g))

GroupAccessors(p, members) == UNION {Accessors(p, g) : g \in members}

\* Mutant: a group is certified as soon as its members are.
GroupMembersOnly(p, facts, members) == \A g \in members : MutexCertified(p, facts, g)

GroupMutexCertified(p, facts, members) ==
    /\ \A g \in members : MutexCertified(p, facts, g)
    /\ ~AccessorPath(analysis.edges, GroupAccessors(p, members))

Locks(p, facts) ==
    {[guards |-> StorageClosure(p, g), accessors |-> Accessors(p, g)] :
        g \in {x \in DOMAIN facts : MutexCertified(p, facts, x)}}
    \cup
    {[guards |-> UNION {StorageClosure(p, g) : g \in c}, accessors |-> GroupAccessors(p, c)] :
        c \in {x \in CouplingGroups(facts) : GroupMutexCertified(p, facts, x)}}

AssembleDispositionArtifacts(p, facts) ==
        [facts |-> facts, locks |-> Locks(p, facts),
         groups |-> {[members |-> c, once_lock |-> CommonOnceLockSupport(facts, c)] :
                        c \in CouplingGroups(facts)}]

(***************************************************************************)
(* The execution, with threads and signal handlers                         *)
(***************************************************************************)

ClientsInit == Init /\ manifest = [facts |-> <<>>, locks |-> {}, groups |-> {}]

\* A thread or a handler runs one function and is gone.
ClientsStep ==
    /\ Next
    /\ stack # <<>> /\ Top.site \in {Spawn, Signal} => Len(stack') < Len(stack)
    /\ IF phase = "summaries" /\ phase' = "run"
          THEN \E facts \in {Facts(program)} : manifest' = AssembleDispositionArtifacts(program, facts)
          ELSE UNCHANGED manifest

Registered(kind) ==
    UNION {r.runs : r \in {x \in UNION {Range(program.registry[s]) : s \in DOMAIN program.registry} :
                              x.kind = kind}}

Interrupt(kind, f) ==
    /\ Running
    /\ Top.func \in Funcs
    /\ f \in Registered(kind)
    /\ Len(stack) + 2 <= MaxFrames
    /\ stack' = stack \o <<Outside(kind), Frame(f, Omega)>>
    /\ UNCHANGED <<dirty, manifest>>

ClientsNext == ClientsStep \/ \E kind \in {Spawn, Signal}, f \in Funcs : Interrupt(kind, f)
ClientsSpec == ClientsInit /\ [][ClientsNext]_<<vars, manifest>>

(***************************************************************************)
(* Properties                                                              *)
(***************************************************************************)

OutsideBetween(i, j) == {k \in (i + 1)..(j - 1) : stack[k].func = Omega}
Unresolved(s) == \E e \in analysis.edges : e[2] = s /\ e[3] = Omega

\* Of two registrations one call site may be only the last counts.
OneKindEach == \A s \in DOMAIN program.registry : Len(program.registry[s]) <= 1

\* The certificate speaks of calls of the module, of calls out of it whose target is not known,
\* and of one handler; not of functions the module declares, nor of another thread.
CertificateCovers(i, j) ==
    LET out == OutsideBetween(i, j)
    IN  \/ out = {}
        \/ Unresolved(stack[Min(out)].site)
        \/ Cardinality(out) = 1 /\ stack[Min(out)].site = Signal /\ OneKindEach

\* No thread takes a certified lock it already holds, and whoever touches the storage a lock
\* guards, the literals folded into a global included, holds the lock.
LocksSound ==
    \A lock \in manifest.locks :
        /\ \A i, j \in DOMAIN stack :
              i < j /\ {stack[i].func, stack[j].func} \subseteq lock.accessors => ~CertificateCovers(i, j)
        /\ phase = "run" /\ Top.func \in Funcs =>
              \A s \in program.body[Top.func], access \in Accesses :
                  Touched(s, access) \cap lock.guards # {} => Top.func \in lock.accessors

Overflowing(g) ==
    \E f \in Funcs : \E r \in LocalRows(program, f) : r.access = "mod" /\ r.target = Omega /\ g \in r.scope

\* A global whose record says it is never written, and that has not escaped, is not written by
\* any execution, nor are the literals it owns; a write known only as a row without a name is
\* the one exception.
UnwrittenStaysUnwritten ==
    \A g \in DOMAIN manifest.facts :
        ~manifest.facts[g].written /\ ~manifest.facts[g].escaped =>
            \A x \in StorageClosure(program, g) \cap dirty : Overflowing(x)

\* What runs in a thread or a handler, and what it calls, touches marked globals only.
ContextsMarked ==
    OneKindEach =>
    \A i \in 2..Len(stack) : \A kind \in {Spawn, Signal} :
        stack[i - 1].site = kind /\ OutsideBetween(i, Len(stack) + 1) = {} =>
            \A s \in program.body[Top.func], access \in Accesses :
            \A g \in DOMAIN manifest.facts :
                Touched(s, access) \cap StorageClosure(program, g) # {} =>
                    IF kind = Spawn THEN manifest.facts[g].thread ELSE manifest.facts[g].signal

=============================================================================
