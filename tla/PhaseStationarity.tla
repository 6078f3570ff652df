--------------------------- MODULE PhaseStationarity ---------------------------
(***************************************************************************)
(* The phase-stationarity certificate of one global: where on the program's *)
(* entry spine a once-only cell could be set so that no write of the global *)
(* follows and every earlier read can be routed through an init local.      *)
(*                                                                          *)
(* The first half is the analysis (phase_stationarity.rs): the effects of   *)
(* every statement boundary, the publication point on the spine, descent    *)
(* into a uniquely called function, the kill rules and the payload.  The    *)
(* second half is the program itself: a stack of frames walking boundaries, *)
(* with callbacks run by the outside world.  The analysis runs first, and a *)
(* certified program is then executed against its certificate.              *)
(*                                                                          *)
(* A program maps every internal function to a sequence of boundaries, the  *)
(* first being its entry; each holds one statement.  All effects are those  *)
(* on the one global: effects on others meet it only through a call whose   *)
(* target is unknown, which counts for every global.                        *)
(***************************************************************************)
EXTENDS Naturals, Sequences, FiniteSets

CONSTANTS
    Functions,      \* the functions with a body
    Main,           \* the executable's entry
    Programs,       \* the programs to analyse and run
    MaxDescent,     \* the bound on spine descent (4 in the code)
    MaxFrames       \* bound: the deepest call stack of an execution

NoLoc == 0

(***************************************************************************)
(* A statement: what it does to the global, and the functions it names.     *)
(* "read"/"write" are direct references, "pread"/"pwrite" accesses through  *)
(* a pointer, "call" has known targets only, "unknown" calls something with *)
(* no complete contract and passes it the named functions, "register" hands *)
(* them to a spawn or signal registry, "leak" stores their addresses where  *)
(* the outside world can find them.                                         *)
(***************************************************************************)
Operations == {"skip", "read", "write", "pread", "pwrite", "call", "unknown", "register", "leak"}

IsProgram(p) ==
    /\ DOMAIN p.body = Functions
    /\ \A f \in Functions : p.body[f] \in Seq({p.body[f][i] : i \in DOMAIN p.body[f]})
    /\ \A f \in Functions : \A i \in DOMAIN p.body[f] :
          LET b == p.body[f][i]
          IN  /\ b.succ \subseteq DOMAIN p.body[f]
              /\ b.op \in Operations
              /\ b.to \subseteq Functions
              /\ b.insertable => /\ b.loc # NoLoc
                                 /\ \A j \in DOMAIN p.body[f] : p.body[f][j].loc = b.loc => j = i

ASSUME FunctionsAssumption == IsFiniteSet(Functions)
ASSUME ProgramsAssumption == \A p \in Programs : IsProgram(p)
ASSUME BoundsAssumption == MaxDescent \in Nat /\ MaxFrames \in Nat \ {0} /\ Main \in Functions

VARIABLES
    program,        \* the program under analysis
    phase,          \* "descend", "failed" or "run"
    spine,          \* the spliced spine: bounds, gen, obs
    leaf,           \* the function the next descent would leave from
    path,           \* the call boundaries descended through
    certificate,    \* the slot written for the global
    stack,          \* the executing frames, outermost first
    sets,           \* how often the cell has been set
    armed,          \* callbacks the outside may run at any time
    leaked          \* callbacks an unknown call may run

analysisVars == <<program, spine, leaf, path, certificate>>
vars == <<program, phase, spine, leaf, path, certificate, stack, sets, armed, leaked>>

-----------------------------------------------------------------------------
(***************************************************************************)
(* The final call graph and the transitive accesses.                        *)
(***************************************************************************)
Statements(p, f) == {p.body[f][i] : i \in DOMAIN p.body[f]}

Calls(p, f) == UNION {s.to : s \in {t \in Statements(p, f) : t.op = "call"}}

\* Mutant of Reachable: the callees of what is reached are not looked at.
RootsOnly(p, roots, excluded) == roots \ excluded

\* Internal functions reachable from roots without entering an excluded one.
Reachable(p, roots, excluded) ==
    LET grow[n \in 0 .. Cardinality(Functions)] ==
          IF n = 0 THEN roots \ excluded
          ELSE LET reached == grow[n - 1]
               IN  reached \cup ((UNION {Calls(p, f) : f \in reached}) \ excluded)
    IN  grow[Cardinality(Functions)]

Transitive(p, f, ops) == \E h \in Reachable(p, {f}, {}) : \E s \in Statements(p, h) : s.op \in ops
TransRef(p, f) == Transitive(p, f, {"read", "pread"})
TransMod(p, f) == Transitive(p, f, {"write", "pwrite"})

\* Every boundary holding one of these operations, as <<function, boundary>>.
Boundaries(p, ops) ==
    UNION {{<<f, i>> : i \in {j \in DOMAIN p.body[f] : p.body[f][j].op \in ops}} : f \in Functions}

Names(p, f, ops) == UNION {s.to : s \in {t \in Statements(p, f) : t.op \in ops}}
Escaped(p) == UNION {Names(p, f, {"unknown", "register", "leak"}) : f \in Functions}

-----------------------------------------------------------------------------
(***************************************************************************)
(* Effects of the boundaries of one function.                               *)
(***************************************************************************)

\* A registry call is modelled as a callback registration once some global is
\* read by the callback; before that it is an external call like any other.
ModelledRegistry(p, s) == s.op = "register" /\ \E h \in s.to : TransRef(p, h)

UnknownCall(p, s) ==
    \/ s.op = "unknown"
    \/ s.op = "register" /\ ~ModelledRegistry(p, s)

Generates(p, s) ==
    \/ s.op \in {"write", "pwrite"}
    \/ UnknownCall(p, s)
    \/ s.op = "call" /\ \E h \in s.to : TransMod(p, h)

Attributes(p, s) ==
    \/ s.op \in {"read", "pread"}
    \/ UnknownCall(p, s)
    \/ s.op = "call" /\ \E h \in s.to : TransRef(p, h)

\* Where an escaped function is handed out by the boundaries of f, or f's own
\* entry when f is itself the escaped function and nothing says where from.
EscapeBoundaries(p, f, h) ==
    LET named == {i \in DOMAIN p.body[f] : p.body[f][i].op \in {"unknown", "register"}
                                           /\ h \in p.body[f][i].to}
    IN  IF h = f /\ f = Main THEN {}
        ELSE IF named = {} /\ h = f THEN {1} ELSE named

PseudoReads(p, f) ==
    {i \in DOMAIN p.body[f] : ModelledRegistry(p, p.body[f][i])}
    \cup UNION {EscapeBoundaries(p, f, h) : h \in {e \in Escaped(p) : TransRef(p, e)}}

GeneratedWrites(p, f) == {i \in DOMAIN p.body[f] : Generates(p, p.body[f][i])}

Observations(p, f) ==
    {[boundary |-> i, routable |-> TRUE] : i \in {j \in DOMAIN p.body[f] : Attributes(p, p.body[f][j])}}
    \cup {[boundary |-> i, routable |-> FALSE] : i \in PseudoReads(p, f)}

LocalSpine(p, f) ==
    [bounds |-> [i \in DOMAIN p.body[f] |->
                   [succ |-> p.body[f][i].succ, insertable |-> p.body[f][i].insertable,
                    func |-> f, at |-> i]],
     mapped |-> \E i \in DOMAIN p.body[f] : p.body[f][i].insertable,
     gen    |-> GeneratedWrites(p, f),
     obs    |-> Observations(p, f)]

-----------------------------------------------------------------------------
(***************************************************************************)
(* Quiescence, dominators and cycles of a spine, whose entry is 1.          *)
(***************************************************************************)
Nodes(sp) == DOMAIN sp.bounds

After(sp, i) ==
    LET grow[n \in 0 .. Len(sp.bounds)] ==
          IF n = 0 THEN {i}
          ELSE LET reached == grow[n - 1] IN reached \cup UNION {sp.bounds[k].succ : k \in reached}
    IN  grow[Len(sp.bounds)]

WritableAfter(sp, i) == After(sp, i) \cap sp.gen # {}

Quiescent(sp) == {i \in After(sp, 1) : ~WritableAfter(sp, i)}

\* The pairs <<d, i>> of reachable boundaries such that d dominates i, narrowed
\* from all pairs until no predecessor of i disagrees.
Dominators(sp) ==
    LET live == After(sp, 1)
        preds(i) == {k \in live : i \in sp.bounds[k].succ}
        narrow[n \in 0 .. Len(sp.bounds)] ==
          IF n = 0 THEN {e \in live \X live : e[2] = 1 => e[1] = 1}
          ELSE LET dom == narrow[n - 1]
               IN  {e \in dom : e[1] = e[2] \/ \A k \in preds(e[2]) : <<e[1], k>> \in dom}
    IN  narrow[Len(sp.bounds)]

Cyclic(sp, i) == \E k \in sp.bounds[i].succ : i \in After(sp, k)

-----------------------------------------------------------------------------
(***************************************************************************)
(* The single publication point.                                            *)
(***************************************************************************)
\* Mutant of Acceptable: registrations count as routable reads.
AcceptableEither(dom, i, o) == <<i, o.boundary>> \in dom \/ <<o.boundary, i>> \in dom

Acceptable(dom, i, o) ==
    \/ <<i, o.boundary>> \in dom
    \/ o.routable /\ o.boundary # i /\ <<o.boundary, i>> \in dom

ValidPoints(sp, dom) ==
    {i \in Quiescent(sp) : /\ sp.bounds[i].insertable
                           /\ ~Cyclic(sp, i)
                           /\ \A o \in sp.obs : Acceptable(dom, i, o)}

Fails(code) == [ok |-> FALSE, code |-> code, chosen |-> 0]

SelectPublication(sp) ==
    LET dom == Dominators(sp)
        valid == ValidPoints(sp, dom)
        depth(i) == Cardinality({e \in dom : e[2] = i})
        earliest == CHOOSE i \in valid : \A k \in valid :
                       depth(i) < depth(k) \/ (depth(i) = depth(k) /\ i <= k)
        pseudoFirst == \E o \in sp.obs : ~o.routable /\ \E i \in Quiescent(sp) : <<o.boundary, i>> \in dom
    IN  CASE ~sp.mapped                                    -> Fails("no-entry-spine")
          [] Quiescent(sp) = {}                            -> Fails("never-quiescent")
          [] valid = {} /\ pseudoFirst                     -> Fails("observation-before-quiescence")
          [] valid = {} /\ ~pseudoFirst                    -> Fails("no-single-P")
          [] \E i, k \in valid : <<i, k>> \notin dom /\ <<k, i>> \notin dom -> Fails("no-single-P")
          [] OTHER -> [ok |-> TRUE, code |-> "", chosen |-> earliest]

-----------------------------------------------------------------------------
(***************************************************************************)
(* Spine descent.                                                           *)
(***************************************************************************)

\* Incoming edges of h: known call boundaries, and one from outside if h escaped.
Incoming(p, h) ==
    {e \in Boundaries(p, {"call"}) : h \in p.body[e[1]][e[2]].to}
    \cup (IF h \in Escaped(p) THEN {<<"outside", 0>>} ELSE {})

CandidatesOf(p, f) ==
    IF Transitive(p, f, {"pwrite"}) THEN {}
    ELSE {i \in DOMAIN p.body[f] :
            /\ p.body[f][i].op = "call"
            /\ \E h \in p.body[f][i].to : /\ p.body[f][i].to = {h}
                                          /\ TransMod(p, h)
                                          /\ Incoming(p, h) = {<<f, i>>}}

\* The only candidate boundary, if there is exactly one.
DescentCandidate(p, f) == {i \in CandidatesOf(p, f) : CandidatesOf(p, f) = {i}}

\* Replace the outgoing edges of spine boundary c by the body of child.
Splice(p, sp, c, child) ==
    LET inner == LocalSpine(p, child)
        offset == Len(sp.bounds)
        back == sp.bounds[c].succ
        gateway == [sp.bounds[c] EXCEPT !.succ = {offset + 1}, !.insertable = FALSE]
        lowered(i) == [inner.bounds[i] EXCEPT
                         !.succ = IF @ = {} THEN back ELSE {offset + k : k \in @}]
    IN  [bounds |-> [sp.bounds EXCEPT ![c] = gateway] \o [i \in DOMAIN inner.bounds |-> lowered(i)],
         mapped |-> sp.mapped /\ inner.mapped,
         gen    |-> (sp.gen \ {c}) \cup {offset + i : i \in inner.gen},
         obs    |-> {o \in sp.obs : o.boundary # c \/ ~o.routable}
                    \cup {[o EXCEPT !.boundary = offset + @] : o \in inner.obs}]

-----------------------------------------------------------------------------
(***************************************************************************)
(* Kill rules and the payload.                                              *)
(***************************************************************************)
KillCodes(p) ==
    (IF \E h \in Escaped(p) : TransMod(p, h) THEN {"omega-writer"} ELSE {})
    \cup (IF \E h \in UNION {Names(p, f, {"register"}) : f \in Functions} : TransMod(p, h) THEN {"thread-writer"} ELSE {})
    \cup (IF \E f \in Functions : Main \in Calls(p, f) THEN {"recursive-main"} ELSE {})

SpineFunctions(sp) == {sp.bounds[i].func : i \in Nodes(sp)}

\* A boundary's place with respect to the publication point P.
Before(dom, P, i) == i # P /\ <<i, P>> \in dom
Following(dom, P, i) == <<P, i>> \in dom

SpineRoots(p, sp, i) ==
    LET s == p.body[sp.bounds[i].func][sp.bounds[i].at]
    IN  IF s.op = "call" THEN s.to \ SpineFunctions(sp) ELSE {}

\* The functions entered from boundaries before, after and incomparable with P.
PhaseReach(p, sp, dom, P) ==
    LET pre == {i \in Nodes(sp) : Before(dom, P, i)}
        post == {i \in Nodes(sp) : Following(dom, P, i)} \ pre
        from(bs) == Reachable(p, UNION {SpineRoots(p, sp, i) : i \in bs}, SpineFunctions(sp))
    IN  [pre |-> from(pre), post |-> from(post), incomparable |-> from(Nodes(sp) \ (pre \cup post)),
         sites |-> UNION {{<<h, sp.bounds[i].func, sp.bounds[i].at>> : h \in SpineRoots(p, sp, i)} : i \in pre}]

\* The spine boundary an access of a spine function is mapped to: the first
\* that holds its statement or carries its location.
AccessBoundary(p, sp, a) ==
    LET loc(i) == p.body[sp.bounds[i].func][sp.bounds[i].at].loc
        here == p.body[a[1]][a[2]].loc
        match == {i \in Nodes(sp) : /\ sp.bounds[i].func = a[1]
                                    /\ sp.bounds[i].at = a[2] \/ (here # NoLoc /\ loc(i) = here)}
    IN  CHOOSE i \in match : \A k \in match : i <= k

Placement(p, sp, dom, reach, P, a) ==
    LET i == AccessBoundary(p, sp, a)
    IN  IF a[1] \in SpineFunctions(sp)
        THEN [before |-> Before(dom, P, i), after |-> Following(dom, P, i),
              incomparable |-> ~Before(dom, P, i) /\ ~Following(dom, P, i)]
        ELSE [before |-> a[1] \in reach.pre,
              after |-> a[1] \in reach.post \/ a[1] \in Escaped(p),
              incomparable |-> a[1] \in reach.incomparable]

\* Mutant of InitSubtree: the accessors without the functions that lead to them.
AccessorsOnly(p, sp, reach, accessors) == reach.pre \cap accessors

\* The functions of the pre-publication subgraph that lead to an accessor.
InitSubtree(p, sp, reach, accessors) ==
    {f \in reach.pre : Reachable(p, {f}, Functions \ reach.pre) \cap accessors # {}}

BuildPayload(p, sp, P) ==
    LET dom == Dominators(sp)
        reach == PhaseReach(p, sp, dom, P)
        place(a) == Placement(p, sp, dom, reach, P, a)
        relevant(ops) == {a \in Boundaries(p, ops) :
                            place(a).before \/ place(a).after \/ place(a).incomparable}
        writes == relevant({"write", "pwrite"})
        reads == relevant({"read", "pread"})
        early == {a \in writes \cup reads : place(a).before}
        site(a) == <<a[1], p.body[a[1]][a[2]].loc>>
    IN  CASE \E a \in writes \cup reads : p.body[a[1]][a[2]].loc = NoLoc -> Fails("no-entry-spine")
          [] \E a \in writes : ~place(a).before \/ place(a).after \/ place(a).incomparable ->
                Fails("never-quiescent")
          [] \E a \in reads : place(a).incomparable -> Fails("no-single-P")
          [] OTHER ->
                [ok |-> TRUE, code |-> "", chosen |-> P,
                 at |-> <<sp.bounds[P].func, sp.bounds[P].at>>,
                 writers |-> {site(a) : a \in writes},
                 preReaders |-> {site(a) : a \in {r \in reads : place(r).before}},
                 post |-> {a[1] : a \in {r \in reads : place(r).after}},
                 init |-> InitSubtree(p, sp, reach, {a[1] : a \in early}),
                 sites |-> reach.sites]

-----------------------------------------------------------------------------
(***************************************************************************)
(* The certificate slot of the global: descend while the current spine has  *)
(* no publication point and one uniquely called function could have it.     *)
(***************************************************************************)
NoCertificate == [ok |-> FALSE, codes |-> {}]

Selection == SelectPublication(spine)

CanDescend(c) ==
    /\ ~Selection.ok
    /\ c \in DescentCandidate(program, leaf)
    /\ Len(path) < MaxDescent
    /\ \A h \in program.body[leaf][c].to : program.body[h] # <<>>

Descend(c) ==
    /\ phase = "descend"
    /\ CanDescend(c)
    /\ \E h \in program.body[leaf][c].to : \E i \in Nodes(spine) :
         /\ spine.bounds[i].func = leaf /\ spine.bounds[i].at = c
         /\ spine' = Splice(program, spine, i, h)
         /\ path' = Append(path, <<leaf, c>>)
         /\ leaf' = h
    /\ UNCHANGED <<program, phase, certificate, stack, sets, armed, leaked>>

Exhausted == ~Selection.ok /\ DescentCandidate(program, leaf) # {} /\ Len(path) = MaxDescent

Slot ==
    LET payload == IF Selection.ok THEN BuildPayload(program, spine, Selection.chosen) ELSE Selection
        codes == KillCodes(program)
                 \cup (IF payload.ok THEN {}
                       ELSE IF Exhausted THEN {"spine-descent-exhausted"} ELSE {payload.code})
    IN  IF codes = {} THEN [ok |-> TRUE, payload |-> payload] ELSE [ok |-> FALSE, codes |-> codes]

Entered(f, outside) == [func |-> f, at |-> 1, done |-> FALSE, outside |-> outside]

\* The cell is set immediately before the statement of its boundary.
SetsOnArrival(f, i) ==
    IF certificate.ok /\ certificate.payload.at = <<f, i>> /\ sets < 2 THEN sets + 1 ELSE sets

Decide ==
    /\ phase = "descend"
    /\ \A c \in DOMAIN program.body[leaf] : ~CanDescend(c)
    /\ certificate' = Slot
    /\ phase' = IF certificate'.ok THEN "run" ELSE "failed"
    /\ stack' = IF certificate'.ok THEN <<Entered(Main, FALSE)>> ELSE <<>>
    /\ sets' = IF certificate'.ok /\ certificate'.payload.at = <<Main, 1>> THEN 1 ELSE 0
    /\ UNCHANGED <<program, spine, leaf, path, armed, leaked>>

-----------------------------------------------------------------------------
(***************************************************************************)
(* The certified program running.                                           *)
(***************************************************************************)
Top == stack[Len(stack)]
Statement(frame) == program.body[frame.func][frame.at]
Running == phase = "run" /\ stack # <<>>
Executing(ops) == Running /\ ~Top.done /\ Statement(Top).op \in ops
Finished(s) == [s EXCEPT ![Len(s)].done = TRUE]

Push(s, f, outside) ==
    /\ Len(s) < MaxFrames
    /\ program.body[f] # <<>>
    /\ stack' = Append(s, Entered(f, outside))
    /\ sets' = SetsOnArrival(f, 1)

Access ==
    /\ Executing({"skip", "read", "write", "pread", "pwrite"})
    /\ stack' = Finished(stack)
    /\ UNCHANGED <<analysisVars, phase, sets, armed, leaked>>

Call ==
    /\ Executing({"call"})
    /\ \E h \in Statement(Top).to : Push(Finished(stack), h, FALSE)
    /\ UNCHANGED <<analysisVars, phase, armed, leaked>>

\* External code may keep what it is handed, and call back before it returns.
CallOutside ==
    /\ Executing({"unknown", "register"})
    /\ armed' = armed \cup Statement(Top).to
    /\ \/ stack' = Finished(stack) /\ sets' = sets
       \/ \E h \in armed' \cup leaked : Push(Finished(stack), h, TRUE)
    /\ UNCHANGED <<analysisVars, phase, leaked>>

Leak ==
    /\ Executing({"leak"})
    /\ leaked' = leaked \cup Statement(Top).to
    /\ stack' = Finished(stack)
    /\ UNCHANGED <<analysisVars, phase, sets, armed>>

\* A signal, or a thread scheduled in between; one at a time.
Interrupt ==
    /\ Running
    /\ \A i \in DOMAIN stack : ~stack[i].outside
    /\ \E h \in armed : Push(stack, h, TRUE)
    /\ UNCHANGED <<analysisVars, phase, armed, leaked>>

Advance ==
    /\ Running /\ Top.done
    /\ \E i \in Statement(Top).succ :
         /\ stack' = [stack EXCEPT ![Len(stack)].at = i, ![Len(stack)].done = FALSE]
         /\ sets' = SetsOnArrival(Top.func, i)
    /\ UNCHANGED <<analysisVars, phase, armed, leaked>>

Return ==
    /\ Running /\ Top.done /\ Statement(Top).succ = {}
    /\ stack' = SubSeq(stack, 1, Len(stack) - 1)
    /\ UNCHANGED <<analysisVars, phase, sets, armed, leaked>>

Init ==
    /\ program \in Programs
    /\ phase = "descend"
    /\ spine = LocalSpine(program, Main)
    /\ leaf = Main
    /\ path = <<>>
    /\ certificate = NoCertificate
    /\ stack = <<>> /\ sets = 0 /\ armed = {} /\ leaked = {}

Next ==
    \/ \E c \in DOMAIN program.body[leaf] : Descend(c)
    \/ Decide
    \/ Access \/ Call \/ CallOutside \/ Leak \/ Interrupt \/ Advance \/ Return

Spec == Init /\ [][Next]_vars

-----------------------------------------------------------------------------
Published == sets > 0
Site(frame) == <<frame.func, Statement(frame).loc>>

\* No statement that writes the global is ever about to run once the cell is
\* set: not on the spine, not below a call, not in a callback (the quiescence
\* dataflow, the kill rules and the writer check of the payload together).
\* And the set statement runs at most once in any execution: the publication
\* point is on no cycle, and every spine function is entered once.  That holds
\* of main too, which nobody calls, unless the module gives its address away.
PublishedOnce == Main \notin Escaped(program) => sets <= 1
QuiescentOncePublished == PublishedOnce /\ (Published => ~Executing({"write", "pwrite"}))

\* A callback is foreseen when only statements of the spine hand it out, in a
\* program that does not give main's address away.
HandedOutOffSpine(h) ==
    \/ \E f \in Functions : h \in Names(program, f, {"leak"})
    \/ \E f \in Functions \ SpineFunctions(spine) : h \in Names(program, f, {"unknown", "register"})
Foreseen ==
    /\ Main \notin Escaped(program)
    /\ \A i \in DOMAIN stack : stack[i].outside => ~HandedOutOffSpine(stack[i].func)

\* No location is shared by boundaries on different sides of the publication.
Undivided ==
    LET P == certificate.payload.chosen
        dom == Dominators(spine)
        location(i) == program.body[spine.bounds[i].func][spine.bounds[i].at].loc
    IN  \A i, k \in Nodes(spine) :
          spine.bounds[i].func = spine.bounds[k].func /\ location(i) = location(k) /\ location(i) # NoLoc =>
            /\ Before(dom, P, i) <=> Before(dom, P, k)
            /\ Following(dom, P, i) <=> Following(dom, P, k)

EarlyReadRouted == Executing({"read", "pread"}) /\ ~Published => Site(Top) \in certificate.payload.preReaders
LateReadCounted ==
    Executing({"read", "pread"}) /\ Published /\ (\A i \in DOMAIN stack : stack[i].outside => i = Len(stack)) =>
      Top.func \in certificate.payload.post

\* A read that runs before the cell is set is at a listed site, so the rewrite
\* sends it through the init local; a read that runs after, unless a callback
\* called the reader, is in a function counted as a reader of the published
\* value.
ReadsPhased == Executing({"read", "pread"}) /\ Foreseen /\ Undivided => EarlyReadRouted /\ LateReadCounted

\* The same of every read, whoever called: what the design says of callbacks
\* registered or spawned anywhere.
EveryReadPhased == EarlyReadRouted

\* Before publication, every function between the spine and an access is in
\* the init subtree, so the init local can be passed down to it, and the spine
\* call the chain hangs from is one of its listed entry sites.
OffSpine == {i \in DOMAIN stack : stack[i].func \notin SpineFunctions(spine)}
InitSubtreeCarries ==
    Executing({"read", "pread", "write", "pwrite"}) /\ ~Published /\ Foreseen =>
      \A i \in OffSpine :
        /\ stack[i].func \in certificate.payload.init
        /\ i - 1 \notin OffSpine =>
              <<stack[i].func, stack[i - 1].func, stack[i - 1].at>> \in certificate.payload.sites

=============================================================================
