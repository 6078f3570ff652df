---------------------------- MODULE CallEffects ----------------------------
(***************************************************************************)
(* What each function may touch (pangs-api/src/lib.rs).  The solver's      *)
(* answer for every address and every indirect call becomes local mod/ref  *)
(* rows and a ledger of access sites; the rows decide which globals are    *)
(* stationary, stationary cells sharpen the call graph, and the call graph *)
(* carries the rows to the callers, one strongly connected component at a  *)
(* time.  Components and the context rewrite plan are published last.      *)
(*                                                                         *)
(* The module is then executed: frames are pushed by call sites or by code *)
(* outside it, and a frame performs the statements of its function.  What  *)
(* was published is compared with what the execution does.                 *)
(*                                                                         *)
(* A program is a record:                                                  *)
(*   node     address -> [class, wide, external, union, root, object,      *)
(*            symbol, spelt, points]: the solver's pointee globals, those  *)
(*            before storage roots narrowed them, whether it may also      *)
(*            point outside and then to every escaped global, its storage  *)
(*            root and the object the root stands for, the global it is    *)
(*            the symbol of, the global the text of a constant expression  *)
(*            names, and what it really points to                          *)
(*   body     function -> set of [op, at, from, line]                      *)
(*   site     call site -> [caller, targets, omega, located, cell, exact]  *)
(*   escaped, exported, outside, written, defined, mutable, complete,      *)
(*   addressed: sets of globals;  holds: global -> initial target          *)
(*   names    function -> globals whose address its expressions mention    *)
(*   entered  functions whose address reaches code outside the module      *)
(*   audited  functions an audit finding taints                            *)
(***************************************************************************)
EXTENDS Naturals, Sequences, FiniteSets, SequencesExt, Functions

CONSTANTS
    Funcs,             \* functions the module defines
    Declared,          \* functions it only declares
    Main,              \* the program entry of an executable
    Globals,
    Programs,
    FanoutLimit,       \* pointees one address may expand to
    TransitiveLimit,   \* rows one summary may hold
    MaxFrames,         \* bound: depth of the execution's stack
    NoGlobal, Local, Omega

VARIABLES program, phase, analysis, memo, plan, stack, dirty
vars == <<program, phase, analysis, memo, plan, stack, dirty>>

Accesses == {"ref", "mod"}
Operations == {"load", "store", "external", "copy", "fill"}

(***************************************************************************)
(* Storage roots                                                           *)
(***************************************************************************)

RootsIdentified(p) ==
    \A n \in DOMAIN p.node : p.node[n].root \in Globals => p.node[n].object = p.node[n].root

\* A certificate that names a wrong object is dropped with everything it narrowed.
Widened(node) ==
    [node EXCEPT !.root = NoGlobal, !.class = IF node.wide = {} THEN node.class ELSE node.wide]

Certified(p) ==
    IF RootsIdentified(p) THEN p
    ELSE [p EXCEPT !.node = [n \in DOMAIN p.node |-> Widened(p.node[n])]]

(***************************************************************************)
(* What the analysis is given                                              *)
(***************************************************************************)

\* The pointees before a storage root narrowed them, and what an address may reach outside.
Solved(p, node) ==
    (IF node.wide = {} THEN node.class ELSE node.wide) \cup IF node.union THEN p.escaped ELSE {}

\* An address points where the solver, its constant operand and its storage root say; only an
\* address whose root is certified was narrowed, and the root stays among its pointees.
AddressSound(p, node) ==
    /\ node.points \subseteq Globals \cap Solved(p, node)
    /\ node.union => node.external
    /\ node.symbol # NoGlobal => node.points \subseteq {node.symbol}
    /\ node.symbol = NoGlobal /\ node.spelt # NoGlobal => node.points \subseteq {node.spelt}
    /\ node.root = Local => node.points = {}
    /\ node.root \in Globals => node.points \subseteq {node.object}
    /\ node.wide # {} => node.root \in Globals \cap node.class

\* The solver lists every target of a call; what a cell is initialised with is one of them.
SiteSound(p, site) ==
    /\ site.caller \in Funcs
    /\ site.cell # NoGlobal /\ p.holds[site.cell] # Omega => p.holds[site.cell] \in site.targets

BodySound(p, f) ==
    \A s \in p.body[f] :
        /\ s.op \in Operations /\ s.at \in DOMAIN p.node
        /\ s.op = "copy" => s.from \in DOMAIN p.node

ProgramSound(p) ==
    /\ {"node", "body", "site", "escaped", "exported", "complete", "absent", "holds", "entered"} \subseteq DOMAIN p
    /\ \A n \in DOMAIN p.node : AddressSound(p, p.node[n])
                                /\ {"class", "root"} \subseteq DOMAIN p.node[n]
    /\ \A s \in DOMAIN p.site : SiteSound(p, p.site[s])
    /\ \A f \in Funcs : BodySound(p, f)
    /\ \A g \in p.complete : g \in Globals /\ p.holds[g] # Omega
    /\ Omega \notin DOMAIN p.site

ASSUME ProgramAssumption ==
    /\ IsFiniteSet(Funcs)
    /\ Omega \notin Funcs /\ NoGlobal \notin Globals /\ Local \notin Globals /\ Local # NoGlobal
    /\ \A p \in Programs : ProgramSound(p)

(***************************************************************************)
(* Local rows and the access-site ledger                                   *)
(***************************************************************************)

Row(access, target, scope, from) ==
    [access |-> access, target |-> target, scope |-> scope, from |-> from]
Named(access, g, via) == Row(access, g, {g}, <<via>>)
Unknown(access, scope, from) == Row(access, Omega, scope, from)

NodeIds(p, n) == p.node[n].class \cup IF p.node[n].union THEN p.escaped ELSE {}

Request(access, n, suppress, copies, line) ==
    [access |-> access, node |-> n, suppress |-> suppress, copies |-> copies, line |-> line]

When(condition, rows) == IF condition THEN rows ELSE {}

EdgeAccesses(s) ==
    When(s.op = "load", {Request("ref", s.at, TRUE, FALSE, s.line)})
    \cup When(s.op = "store", {Request("mod", s.at, TRUE, FALSE, s.line)})
    \cup When(s.op = "external", {Request("mod", s.at, FALSE, FALSE, s.line)})
    \cup When(s.op = "copy", {Request("ref", s.from, FALSE, TRUE, s.line),
                             Request("mod", s.at, FALSE, TRUE, s.line)})

LocalRooted(p, r) == ~r.copies /\ p.node[r.node].root = Local
SymbolRooted(p, r) == /\ ~r.copies /\ r.suppress
                      /\ p.node[r.node].symbol # NoGlobal
                      /\ p.node[r.node].root \in Globals
GlobalRooted(p, r) == ~r.copies /\ p.node[r.node].root \in Globals

Suppressed(p, r) == IF r.suppress THEN {p.node[r.node].symbol} ELSE {}
Kept(p, r) == p.node[r.node].class \ Suppressed(p, r)

ExternalRow(p, r) ==
    IF p.node[r.node].external
      THEN {Unknown(r.access, NodeIds(p, r.node), <<r.node>>)} ELSE {}

\* Mutant: the fallback forgets the escaped globals an external address may also reach.
FallbackClassOnly(p, r) == Unknown(r.access, Kept(p, r), <<"fanout", r.node>>)

FallbackRow(p, r) ==
    Unknown(r.access, NodeIds(p, r.node) \ Suppressed(p, r), <<"fanout", r.node>>)

NamedRows(p, r) == {Named(r.access, g, "aliased") : g \in Kept(p, r)}

PointerRows(p, r) ==
    IF Cardinality(Kept(p, r)) > FanoutLimit
      THEN {FallbackRow(p, r)} \cup IF r.copies THEN {} ELSE ExternalRow(p, r)
      ELSE NamedRows(p, r) \cup ExternalRow(p, r)

RequestRows(p, r) ==
    IF LocalRooted(p, r) \/ SymbolRooted(p, r) THEN {}
    ELSE IF GlobalRooted(p, r) THEN {Named(r.access, p.node[r.node].root, "aliased")}
    ELSE PointerRows(p, r)

DirectRows(p, s) ==
    IF s.op \in {"load", "store"} /\ p.node[s.at].symbol # NoGlobal
      THEN {Named(IF s.op = "load" THEN "ref" ELSE "mod", p.node[s.at].symbol, "direct")}
      ELSE {}

ConstantOperandRows(p, s) ==
    IF s.op # "copy" THEN {}
    ELSE {Named(o[1], p.node[o[2]].spelt, "aliased") :
             o \in {q \in {<<"ref", s.from>>, <<"mod", s.at>>} : p.node[q[2]].spelt # NoGlobal}}

FillTarget(p, s) ==
    IF p.node[s.at].symbol # NoGlobal THEN p.node[s.at].symbol ELSE p.node[s.at].spelt

FillRows(p, s) ==
    When(s.op = "fill",
         IF FillTarget(p, s) # NoGlobal THEN {Named("mod", FillTarget(p, s), "aliased")}
         ELSE PointerRows(p, Request("mod", s.at, FALSE, TRUE, s.line)))

StatementRows(p, s) ==
    DirectRows(p, s) \cup ConstantOperandRows(p, s) \cup FillRows(p, s)
        \cup UNION {RequestRows(p, r) : r \in EdgeAccesses(s)}

LocalRows(p, f) == UNION {StatementRows(p, s) : s \in p.body[f]}

Entry(access, via, line, exact, targets) ==
    [access |-> access, via |-> via, line |-> line, exact |-> exact, targets |-> targets]
Via(p, n) == IF p.node[n].external THEN "unknown" ELSE "aliased"

RequestEntries(p, r) ==
    IF LocalRooted(p, r) \/ SymbolRooted(p, r) THEN {}
    ELSE IF GlobalRooted(p, r) THEN {Entry(r.access, "aliased", r.line, FALSE, {p.node[r.node].root})}
    ELSE {Entry(r.access, Via(p, r.node), r.line, FALSE, NodeIds(p, r.node) \ Suppressed(p, r))}

FillEntries(p, s) ==
    When(s.op = "fill",
         IF FillTarget(p, s) # NoGlobal THEN {Entry("mod", "aliased", s.line, TRUE, {FillTarget(p, s)})}
         ELSE {Entry("mod", Via(p, s.at), s.line, TRUE, NodeIds(p, s.at))})

StatementEntries(p, s) ==
    {Entry(row.access, row.from[1], s.line, TRUE, row.scope) :
        row \in DirectRows(p, s) \cup ConstantOperandRows(p, s)}
    \cup FillEntries(p, s) \cup UNION {RequestEntries(p, r) : r \in EdgeAccesses(s)}

\* An exact site supersedes the globals of an otherwise equal site known only by its location.
Listed(p, f) == UNION {StatementEntries(p, s) : s \in p.body[f]}
SuppliedExactly(p, f, e) ==
    UNION {x.targets : x \in {q \in Listed(p, f) : q.exact
                              /\ <<q.access, q.via, q.line>> = <<e.access, e.via, e.line>>}}

Ledger(p, f) ==
    {IF e.exact THEN e
     ELSE Entry(e.access, e.via, e.line, FALSE, e.targets \ SuppliedExactly(p, f, e)) : e \in Listed(p, f)}

(***************************************************************************)
(* Stationary globals and the call graph                                   *)
(***************************************************************************)

ExternalStorage(p) ==
    p.exported \cup {p.node[n].symbol : n \in {m \in DOMAIN p.node :
                        p.node[m].external /\ p.node[m].symbol # NoGlobal}}

RowsOfModule(p) == UNION {LocalRows(p, f) : f \in Funcs}

\* Mutant: only rows that name the global count.
NamedWriters(p, g) == {r \in RowsOfModule(p) : r.access = "mod" /\ g = r.target}

TargetedWriters(p, g) == {r \in RowsOfModule(p) : r.access = "mod" /\ g \in r.scope}

\* p.complete: the initializer is modelled; p.absent: there is no pointer initializer at all.
Stationary(p) ==
    {g \in (p.complete \cup p.absent) \ ExternalStorage(p) : TargetedWriters(p, g) = {}}

Written(p) ==
    p.written \cup (p.defined \cap {r.target : r \in {q \in RowsOfModule(p) :
                                                 q.access = "mod" /\ q.target # Omega}})

SolvedTargets(p, s) ==
    p.site[s].targets \cup IF p.site[s].omega \/ p.site[s].targets = {} THEN {Omega} ELSE {}

StationaryCell(p, s) ==
    p.site[s].cell \in Stationary(p) \cap p.complete /\ ~p.site[s].exact

Targets(p, s) == IF StationaryCell(p, s) THEN {p.holds[p.site[s].cell]} ELSE SolvedTargets(p, s)

Edges(p) == UNION {{<<p.site[s].caller, s, t>> : t \in Targets(p, s)} : s \in DOMAIN p.site}

(***************************************************************************)
(* Summaries, one strongly connected component at a time                   *)
(***************************************************************************)

\* What a worklist leaves: the least part of the universe that holds the seed and every successor.
Closure(universe, seed, next) ==
    LET closed == {part \in SUBSET universe : seed \subseteq part
                                               /\ \A e \in next : e[1] \in part => e[2] \in part}
    IN  {x \in universe : \A part \in closed : x \in part}

Callees(edges, fs) == {e[3] : e \in {x \in edges : x[1] \in fs}} \cap Funcs
Internal(edges) == {e \in edges : e[3] \in Funcs}
CallPairs(edges) == {<<e[1], e[3]>> : e \in Internal(edges)}

Reachable(edges, f) == Closure(Funcs, {f}, CallPairs(edges))

Component(edges, f) == {g \in Reachable(edges, f) : f \in Reachable(edges, g)}
Successors(edges, c) == {Component(edges, f) : f \in Callees(edges, c) \ c}

CandidateUnion(rows, access) == UNION {r.scope : r \in {q \in rows : q.access = access}}

Compact(rows, why) ==
    {Unknown(a, CandidateUnion(rows, a), <<why>>) : a \in {r.access : r \in rows}}

Collapses(rows) == Cardinality(rows) > TransitiveLimit
Collapse(summary) ==
    IF Collapses(summary.rows)
      THEN [rows |-> Compact(summary.rows, "limit"), approximate |-> TRUE]
      ELSE summary

\* Mutant: a summary that is approximate already takes nothing more.
MergeUnlessApproximate(summary, callee) ==
    IF summary.approximate THEN summary
    ELSE Collapse([rows |-> summary.rows \cup callee.rows, approximate |-> callee.approximate])

MergeSuccessor(summary, callee) ==
    LET merged == Collapse([rows |-> summary.rows \cup callee.rows,
                            approximate |-> summary.approximate \/ callee.approximate])
    IN  IF merged.approximate THEN [merged EXCEPT !.rows = Compact(@, "propagated")] ELSE merged

Summary(p, c, order, known) ==
    LET local == UNION {LocalRows(p, f) : f \in c}
        merged[i \in 0..Len(order)] ==
          IF i = 0 THEN Collapse([rows |-> local, approximate |-> FALSE])
          ELSE MergeSuccessor(merged[i - 1], known[order[i]])
    IN  merged[Len(order)]

(***************************************************************************)
(* Components and the context rewrite plan                                 *)
(***************************************************************************)

CallerPairs(edges) == {<<e[3], e[1]>> : e \in Internal(edges)}

Connected(edges, f) == Closure(Funcs, {f}, CallPairs(edges) \cup CallerPairs(edges))

\* Mutant: being entered from outside is no taint.
TaintedInside(p, edges, f) ==
    \/ \E e \in edges : e[1] = f /\ e[3] = Omega
    \/ \E r \in LocalRows(p, f) : r.target = Omega

Tainted(p, edges, f) ==
    \/ f \in p.entered \cup p.audited
    \/ \E e \in edges : e[1] = f /\ e[3] = Omega
    \/ \E r \in LocalRows(p, f) : r.target = Omega

Components(p, a) ==
    {[members |-> c,
      mutable |-> {r.target : r \in UNION {LocalRows(p, f) : f \in c}}
                      \cap (p.mutable \ a.stationary),
      frozen  |-> \E f \in c : Tainted(p, a.edges, f)] : c \in {Connected(a.edges, f) : f \in Funcs}}

RewriteRoots(p, g) ==
    {f \in Funcs : g \in p.names[f] \/ \E s \in p.body[f], n \in DOMAIN p.node :
                                          n \in {s.at, s.from} /\ g \in {p.node[n].symbol, p.node[n].spelt}}

SitesInto(edges, fs) == {e[2] : e \in {x \in Internal(edges) : x[3] \in fs}}

\* Mutant: callers only; the other targets of a rewritten site keep their signature.
ReverseCallers(edges, roots) == Closure(Funcs, roots, CallerPairs(edges))

\* What one call site may reach is rewritten together.
SitePairs(edges) ==
    {<<q[1][3], q[2][3]>> : q \in {x \in Internal(edges) \X Internal(edges) : x[1][2] = x[2][2]}}

RewriteClosure(edges, roots) == Closure(Funcs, roots, CallerPairs(edges) \cup SitePairs(edges))

Blocked(p, edges, g, fs) ==
    \/ fs \cap (p.entered \ {Main}) # {}
    \/ \E s \in SitesInto(edges, fs) : ~p.site[s].located \/ \E e \in edges : e[2] = s /\ e[3] = Omega
    \/ g \in p.addressed

ContextField(p, edges, g) ==
    LET fs == RewriteClosure(edges, RewriteRoots(p, g))
    IN  [global |-> g, accessors |-> RewriteRoots(p, g), functions |-> fs,
         sites |-> SitesInto(edges, fs), blocked |-> Blocked(p, edges, g, fs)]

ContextFields(p, edges) ==
    {ContextField(p, edges, g) : g \in {x \in p.mutable \cap p.defined : RewriteRoots(p, x) # {}}}

(***************************************************************************)
(* The run of the analysis, and the execution it speaks about              *)
(***************************************************************************)

NoAnalysis == [edges |-> {}, stationary |-> {}, sccs |-> {}]

Init ==
    /\ program \in Programs
    /\ phase = "roots"
    /\ analysis = NoAnalysis
    /\ memo = <<>>
    /\ plan = [components |-> {}, fields |-> {}]
    /\ stack = <<>>
    /\ dirty = {}

CertifyRoots ==
    /\ phase = "roots"
    /\ program' = Certified(program)
    /\ phase' = "rows"
    /\ UNCHANGED <<analysis, memo, plan, stack, dirty>>

ResolveCalls ==
    /\ phase = "rows"
    /\ LET edges == Edges(program)
       IN  analysis' = [edges |-> edges, stationary |-> Stationary(program),
                        sccs |-> {Component(edges, f) : f \in Funcs}]
    /\ phase' = "summaries"
    /\ UNCHANGED <<program, memo, plan, stack, dirty>>

Collect(c) ==
    /\ phase = "summaries"
    /\ c \notin DOMAIN memo
    /\ Successors(analysis.edges, c) \subseteq DOMAIN memo
    /\ \E order \in SetToSeqs(Successors(analysis.edges, c)) :
          memo' = [d \in DOMAIN memo \cup {c} |->
                     IF d = c THEN Summary(program, c, order, memo) ELSE memo[d]]
    /\ UNCHANGED <<program, phase, analysis, plan, stack, dirty>>

Frame(f, s) == [func |-> f, site |-> s]
Outside(s) == Frame(Omega, s)

Publish ==
    /\ phase = "summaries"
    /\ DOMAIN memo = analysis.sccs
    /\ plan' = [components |-> Components(program, analysis),
                fields |-> ContextFields(program, analysis.edges)]
    /\ phase' = "run"
    /\ stack' = <<Outside(Omega)>>
    /\ UNCHANGED <<program, analysis, memo, dirty>>

Top == stack[Len(stack)]
Running == phase = "run" /\ UNCHANGED <<program, phase, analysis, memo, plan>>
Push(frame) == /\ Len(stack) < MaxFrames
               /\ stack' = Append(stack, frame)
               /\ UNCHANGED dirty

\* The runtime enters Main once; later calls from outside go to functions whose address escaped.
Enter(f) ==
    /\ Running
    /\ Top.func = Omega
    /\ IF Len(stack) = 1 THEN f \in program.entered ELSE f \in program.entered \ {Main}
    /\ Push(Frame(f, Omega))

\* An unwritten cell still holds what its initializer put there.
LiveTargets(s) ==
    LET cell == program.site[s].cell
    IN  IF cell # NoGlobal /\ cell \notin dirty /\ program.holds[cell] # Omega
          THEN {program.holds[cell]} ELSE SolvedTargets(program, s)

Call(s, t) ==
    /\ Running
    /\ Top.func = program.site[s].caller
    /\ t \in LiveTargets(s)
    /\ Push(IF t \in Funcs THEN Frame(t, s) ELSE Outside(s))

Touched(s, access) ==
    UNION {program.node[q[2]].points : q \in
             {r \in {<<IF s.op = "load" THEN "ref" ELSE "mod", s.at>>}
                    \cup (IF s.op = "copy" THEN {<<"ref", s.from>>} ELSE {}) : r[1] = access}}

Write(s, g) ==
    /\ Running
    /\ g \in Touched(s, "mod") \ dirty
    /\ dirty' = dirty \cup {g}
    /\ UNCHANGED stack

\* Code outside the module writes the storage it can name.
WriteOutside(g) ==
    /\ Running
    /\ Top.func = Omega
    /\ g \in program.exported \ dirty
    /\ dirty' = dirty \cup {g}
    /\ UNCHANGED stack

Return ==
    /\ Running
    /\ Len(stack) > 1
    /\ stack' = Front(stack)
    /\ UNCHANGED dirty

Next ==
    \/ CertifyRoots
    \/ ResolveCalls
    \/ \E c \in analysis.sccs : Collect(c)
    \/ Publish
    \/ \E f \in Funcs : Enter(f)
    \/ \E s \in DOMAIN program.site, t \in Funcs \cup Declared \cup {Omega} : Call(s, t)
    \/ \E g \in Globals : WriteOutside(g)
    \/ phase = "run" /\ Top.func \in Funcs
         /\ \E s \in program.body[Top.func], g \in Globals : Write(s, g)
    \/ Return

Spec == Init /\ [][Next]_vars

(***************************************************************************)
(* Properties                                                              *)
(***************************************************************************)

Covers(f, s, access) ==
    \E c \in DOMAIN memo : f \in c /\ Touched(s, access) \subseteq CandidateUnion(memo[c].rows, access)

\* The statement running on top is covered by the summary of every frame that reached it through
\* calls of the module alone, and its own line of the ledger lists what it touches: suppressed
\* symbols, storage roots, fallback rows and collapsed summaries never drop an effect.
AccessesAttributed ==
    phase = "run" /\ Top.func \in Funcs =>
        \A s \in program.body[Top.func], access \in Accesses :
            /\ \A i \in DOMAIN stack :
                  (\A j \in i..Len(stack) : stack[j].func # Omega) => Covers(stack[i].func, s, access)
            /\ Touched(s, access) \subseteq
                  UNION {e.targets : e \in {x \in Ledger(program, Top.func) :
                                               x.access = access /\ x.line = s.line}}

\* A summary says of each kind of access exactly what the local rows of the functions reachable
\* in the published call graph say, whatever was collapsed on the way and in whatever order.
SummariesExact ==
    \A c \in DOMAIN memo, access \in Accesses :
        CandidateUnion(memo[c].rows, access) =
            CandidateUnion(UNION {LocalRows(program, f) :
                                    f \in UNION {Reachable(analysis.edges, g) : g \in c}}, access)

\* No execution writes a global published as stationary, so an indirect call through a stationary
\* cell reaches the one function its initializer put there.
StationaryHolds == phase = "run" => dirty \cap analysis.stationary = {}

\* A field of the context that nothing blocks: whoever names the global holds the context, a
\* function takes it if and only if the call that reached it passes it, and every caller that
\* passes it has it.
ContextThreaded ==
    \A c \in plan.fields : ~c.blocked =>
        \A i \in 2..Len(stack) :
            LET callee == stack[i].func  s == stack[i].site IN
            /\ callee \in c.functions => s \in c.sites \/ (s = Omega /\ callee = Main)
            /\ s \in c.sites => /\ stack[i - 1].func \in c.functions
                               /\ callee \in c.functions \cup {Omega}
            /\ callee \in c.accessors => callee \in c.functions

\* Nothing crosses the border of a component published as clean: no execution that starts
\* outside the module, the program entry included, ever runs a function of it.
CleanComponentsClosed ==
    \A c \in plan.components : ~c.frozen => \A i \in DOMAIN stack : stack[i].func \notin c.members

=============================================================================
