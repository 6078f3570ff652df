-------------------------- MODULE CallEffectsProofs --------------------------
(***************************************************************************)
(* Proofs about CallEffects and Clients.  Whatever the program, the limits *)
(* and the order the components are summarised in, the published summaries *)
(* are exact, no access escapes them, stationary globals are not written,  *)
(* and the rewrite plan and the clean components speak about every         *)
(* execution.  The invariant holds with threads and handlers too, and with *)
(* what the clients publish: a certified lock is never taken twice by one  *)
(* thread and guards every access to its storage, a global recorded as     *)
(* never written is not written, and what threads and handlers touch is    *)
(* marked.                                                                 *)
(***************************************************************************)
EXTENDS Clients, FiniteSetTheorems, TLAPS

(***************************************************************************)
(* Closures                                                                *)
(***************************************************************************)

\* A closure holds its seed.
LEMMA ClosureSeed ==
    ASSUME NEW universe, NEW seed \in SUBSET universe, NEW next
    PROVE  seed \subseteq Closure(universe, seed, next)
BY DEF Closure

\* A closure stays in its universe.
LEMMA ClosureInside ==
    ASSUME NEW universe, NEW seed, NEW next
    PROVE  Closure(universe, seed, next) \subseteq universe
BY DEF Closure

\* A closure holds every successor of what it holds.
LEMMA ClosureStep ==
    ASSUME NEW universe, NEW seed, NEW next,
           NEW x \in Closure(universe, seed, next), NEW y \in universe, <<x, y>> \in next
    PROVE  y \in Closure(universe, seed, next)
<1>1. ASSUME NEW part \in SUBSET universe, seed \subseteq part,
             \A e \in next : e[1] \in part => e[2] \in part
      PROVE  y \in part
  <2>1. x \in part
    BY <1>1 DEF Closure
  <2>2. QED
    BY <1>1, <2>1
<1>2. QED
  BY <1>1 DEF Closure

\* A closure is part of every set that holds the seed and the successors of what it holds.
LEMMA ClosureLeast ==
    ASSUME NEW universe, NEW seed, NEW next, NEW part \in SUBSET universe, seed \subseteq part,
           \A e \in next : e[1] \in part => e[2] \in part
    PROVE  Closure(universe, seed, next) \subseteq part
BY DEF Closure


(***************************************************************************)
(* Storage roots after the certificate was checked                         *)
(***************************************************************************)

\* Once roots are certified an address points where its class, its constant operand and its root say.
NodeReady(p, n) ==
    /\ p.node[n].points \subseteq Globals \cap NodeIds(p, n)
    /\ p.node[n].union => p.node[n].external
    /\ p.node[n].symbol # NoGlobal => p.node[n].points \subseteq {p.node[n].symbol}
    /\ p.node[n].symbol = NoGlobal /\ p.node[n].spelt # NoGlobal
          => p.node[n].points \subseteq {p.node[n].spelt}
    /\ p.node[n].root = Local => p.node[n].points = {}
    /\ p.node[n].root \in Globals => p.node[n].points \subseteq {p.node[n].root}

Ready(p) ==
    /\ \A n \in DOMAIN p.node : NodeReady(p, n)
    /\ \A s \in DOMAIN p.site : SiteSound(p, p.site[s])
    /\ \A f \in Funcs : BodySound(p, f)
    /\ \A g \in p.complete : g \in Globals /\ p.holds[g] # Omega
    /\ Omega \notin DOMAIN p.site

\* Dropping the certificates of a program touches nothing but its addresses.
LEMMA CertifiedKeeps ==
    ASSUME NEW p \in Programs
    PROVE  /\ Certified(p).body = p.body /\ Certified(p).site = p.site
           /\ Certified(p).escaped = p.escaped /\ Certified(p).complete = p.complete
           /\ Certified(p).holds = p.holds /\ Certified(p).entered = p.entered
           /\ Certified(p).exported = p.exported
           /\ DOMAIN Certified(p).node = DOMAIN p.node
BY ProgramAssumption DEF Certified, ProgramSound

\* A wrong certificate widens every address it had narrowed and forgets the roots.
LEMMA CertifiedWidens ==
    ASSUME NEW p \in Programs, ~RootsIdentified(p), NEW n \in DOMAIN p.node
    PROVE  /\ Certified(p).node[n].root = NoGlobal
           /\ Certified(p).node[n].class =
                IF p.node[n].wide = {} THEN p.node[n].class ELSE p.node[n].wide
           /\ Certified(p).node[n].union = p.node[n].union
           /\ Certified(p).node[n].external = p.node[n].external
           /\ Certified(p).node[n].symbol = p.node[n].symbol
           /\ Certified(p).node[n].spelt = p.node[n].spelt
           /\ Certified(p).node[n].points = p.node[n].points
<1>1. {"class", "root"} \subseteq DOMAIN p.node[n] /\ "node" \in DOMAIN p
  BY ProgramAssumption DEF ProgramSound
<1>2. Certified(p).node[n] = Widened(p.node[n])
  BY <1>1 DEF Certified
<1> DEFINE node == p.node[n]
<1> HIDE DEF node
<1>3. /\ Widened(node).root = NoGlobal
      /\ Widened(node).class = IF node.wide = {} THEN node.class ELSE node.wide
  BY <1>1 DEF Widened, node
<1>4. /\ Widened(node).union = node.union /\ Widened(node).external = node.external
      /\ Widened(node).symbol = node.symbol /\ Widened(node).spelt = node.spelt
      /\ Widened(node).points = node.points
  BY <1>1 DEF Widened, node
<1>5. QED
  BY <1>2, <1>3, <1>4 DEF node

\* With every root in its place, or none left, the analysis starts from addresses that are ready:
\* dropping a wrong certificate loses no pointee.
LEMMA CertifiedReady ==
    ASSUME NEW p \in Programs
    PROVE  Ready(Certified(p))
<1>1. ProgramSound(p)
  BY ProgramAssumption
<1>2. ASSUME NEW n \in DOMAIN p.node
      PROVE  NodeReady(Certified(p), n)
  <2>1. AddressSound(p, p.node[n])
    BY <1>1 DEF ProgramSound
  <2>2. CASE RootsIdentified(p)
    <3>1. Certified(p) = p
      BY <2>2 DEF Certified
    <3>2. p.node[n].root \in Globals => p.node[n].points \subseteq {p.node[n].root}
      BY <2>1, <2>2 DEF RootsIdentified, AddressSound
    <3>3. p.node[n].points \subseteq NodeIds(p, n)
      <4>1. CASE p.node[n].wide = {}
        BY <2>1, <4>1 DEF AddressSound, Solved, NodeIds
      <4>2. CASE p.node[n].wide # {}
        BY <2>1, <3>2, <4>2 DEF AddressSound, NodeIds
      <4>3. QED
        BY <4>1, <4>2
    <3>4. QED
      BY <2>1, <3>1, <3>2, <3>3 DEF NodeReady, AddressSound
  <2>3. CASE ~RootsIdentified(p)
    <3>1. NodeIds(Certified(p), n) = Solved(p, p.node[n])
      BY <2>3, CertifiedWidens, CertifiedKeeps DEF NodeIds, Solved
    <3>2. QED
      BY <2>1, <2>3, <3>1, CertifiedWidens, ProgramAssumption DEF NodeReady, AddressSound
  <2>4. QED
    BY <2>2, <2>3
<1>3. \A s \in DOMAIN Certified(p).site : SiteSound(Certified(p), Certified(p).site[s])
  BY <1>1, CertifiedKeeps DEF ProgramSound, SiteSound
<1>4. \A f \in Funcs : BodySound(Certified(p), f)
  BY <1>1, CertifiedKeeps DEF ProgramSound, BodySound
<1>5. QED
  BY <1>1, <1>2, <1>3, <1>4, CertifiedKeeps DEF Ready, ProgramSound

(***************************************************************************)
(* Rows and ledger                                                         *)
(***************************************************************************)

\* A row is found by the union of the candidates of its kind of access.
LEMMA RowCandidate ==
    ASSUME NEW rows, NEW r \in rows, NEW g \in r.scope
    PROVE  g \in CandidateUnion(rows, r.access)
BY DEF CandidateUnion

\* The row that names a global has it as its candidate.
LEMMA NamedFields ==
    ASSUME NEW access, NEW g, NEW via
    PROVE  Named(access, g, via).access = access /\ Named(access, g, via).scope = {g}
BY DEF Named, Row

\* The rows of a pointer, past the fan-out limit or not, cover what it points to unless it is
\* the suppressed symbol.
LEMMA PointerRowsCover ==
    ASSUME NEW p, NEW q, NodeReady(p, q.node), NEW g \in p.node[q.node].points, g \notin Suppressed(p, q)
    PROVE  \E r \in PointerRows(p, q) : r.access = q.access /\ g \in r.scope
<1>1. g \in NodeIds(p, q.node)
  BY DEF NodeReady
<1>2. CASE Cardinality(Kept(p, q)) > FanoutLimit
  <2>1. FallbackRow(p, q) \in PointerRows(p, q)
    BY <1>2 DEF PointerRows
  <2>2. FallbackRow(p, q).access = q.access /\ g \in FallbackRow(p, q).scope
    BY <1>1 DEF FallbackRow, Unknown, Row
  <2>3. QED
    BY <2>1, <2>2
<1>3. CASE ~(Cardinality(Kept(p, q)) > FanoutLimit)
  <2>1. PointerRows(p, q) = NamedRows(p, q) \cup ExternalRow(p, q)
    BY <1>3 DEF PointerRows
  <2>2. CASE g \in p.node[q.node].class
    <3>1. g \in Kept(p, q)
      BY <2>2 DEF Kept
    <3>2. Named(q.access, g, "aliased") \in NamedRows(p, q)
      BY <3>1 DEF NamedRows
    <3>3. QED
      BY <2>1, <3>2, NamedFields
  <2>3. CASE g \notin p.node[q.node].class
    <3>1. p.node[q.node].external
      BY <1>1, <2>3 DEF NodeIds, NodeReady
    <3>2. Unknown(q.access, NodeIds(p, q.node), <<q.node>>) \in ExternalRow(p, q)
      BY <3>1 DEF ExternalRow
    <3>3. QED
      BY <1>1, <2>1, <3>2 DEF Unknown, Row
  <2>4. QED
    BY <2>2, <2>3
<1>4. QED
  BY <1>2, <1>3

\* What an access request yields covers the pointees of its address, up to the symbol that the
\* direct row of the statement names.
LEMMA RequestRowsCover ==
    ASSUME NEW p, NEW q, NodeReady(p, q.node), NEW g \in p.node[q.node].points, g # NoGlobal,
           q.suppress => p.node[q.node].symbol # g
    PROVE  \E r \in RequestRows(p, q) : r.access = q.access /\ g \in r.scope
<1>1. ~LocalRooted(p, q)
  BY DEF LocalRooted, NodeReady
<1>2. ~SymbolRooted(p, q)
  BY DEF SymbolRooted, NodeReady
<1>3. CASE GlobalRooted(p, q)
  <2>1. Named(q.access, p.node[q.node].root, "aliased") \in RequestRows(p, q)
    BY <1>1, <1>2, <1>3 DEF RequestRows
  <2>2. g = p.node[q.node].root
    BY <1>3 DEF GlobalRooted, NodeReady
  <2>3. QED
    BY <2>1, <2>2, NamedFields
<1>4. CASE ~GlobalRooted(p, q)
  <2>1. RequestRows(p, q) = PointerRows(p, q)
    BY <1>1, <1>2, <1>4 DEF RequestRows
  <2>2. g \notin Suppressed(p, q)
    BY DEF Suppressed
  <2>3. QED
    BY <2>1, <2>2, PointerRowsCover
<1>5. QED
  BY <1>3, <1>4

\* The addresses a statement dereferences for one kind of access.
Dereferenced(s, access) ==
    {q \in {<<IF s.op = "load" THEN "ref" ELSE "mod", s.at>>}
              \cup (IF s.op = "copy" THEN {<<"ref", s.from>>} ELSE {}) : q[1] = access}

\* What a statement touches, one address at a time.
LEMMA TouchedCases ==
    ASSUME NEW s, s.op \in Operations, NEW access, NEW g \in Touched(s, access)
    PROVE  \/ s.op = "load" /\ access = "ref" /\ g \in program.node[s.at].points
           \/ s.op # "load" /\ access = "mod" /\ g \in program.node[s.at].points
           \/ s.op = "copy" /\ access = "ref" /\ g \in program.node[s.from].points
<1>1. PICK q \in Dereferenced(s, access) : g \in program.node[q[2]].points
  BY Zenon DEF Touched, Dereferenced
<1>2. QED
  BY <1>1 DEF Dereferenced

\* A request of a statement is answered by its rows.
LEMMA RequestOfStatement ==
    ASSUME NEW p, NEW s, NEW r \in EdgeAccesses(s)
    PROVE  RequestRows(p, r) \subseteq StatementRows(p, s)
BY DEF StatementRows

\* So the statement a request comes from has a row for what the address points to.
LEMMA RequestAnswered ==
    ASSUME NEW p, NEW s, NEW q \in EdgeAccesses(s), NodeReady(p, q.node),
           NEW g \in p.node[q.node].points, g # NoGlobal,
           q.suppress => p.node[q.node].symbol # g
    PROVE  \E r \in StatementRows(p, s) : r.access = q.access /\ g \in r.scope
BY RequestRowsCover, RequestOfStatement

\* Every global a statement of the module touches is a candidate of a row of that statement.
LEMMA StatementRowsCover ==
    ASSUME Ready(program), NEW f \in Funcs, NEW s \in program.body[f], NEW access,
           NEW g \in Touched(s, access), g # NoGlobal
    PROVE  \E r \in StatementRows(program, s) : r.access = access /\ g \in r.scope
<1>1. s.op \in Operations /\ s.at \in DOMAIN program.node /\ NodeReady(program, s.at)
  BY DEF Ready, BodySound
<1>2. s.op = "copy" => s.from \in DOMAIN program.node /\ NodeReady(program, s.from)
  BY DEF Ready, BodySound
<1>3. CASE s.op = "load" /\ access = "ref" /\ g \in program.node[s.at].points
  <2>1. CASE program.node[s.at].symbol = g
    <3>1. Named("ref", g, "direct") \in StatementRows(program, s)
      BY <1>3, <2>1 DEF StatementRows, DirectRows
    <3>2. QED
      BY <1>3, <3>1, NamedFields
  <2>2. CASE program.node[s.at].symbol # g
    <3> DEFINE q == Request("ref", s.at, TRUE, FALSE, s.line)
    <3>1. q \in EdgeAccesses(s)
      BY <1>3 DEF EdgeAccesses, When
    <3>2. q.access = "ref" /\ q.node = s.at
      BY DEF Request
    <3> HIDE DEF q
    <3>3. QED
      BY <1>1, <1>3, <2>2, <3>1, <3>2, RequestAnswered
  <2>3. QED
    BY <2>1, <2>2
<1>4. CASE s.op = "store" /\ access = "mod" /\ g \in program.node[s.at].points
  <2>1. CASE program.node[s.at].symbol = g
    <3>1. Named("mod", g, "direct") \in StatementRows(program, s)
      BY <1>4, <2>1 DEF StatementRows, DirectRows
    <3>2. QED
      BY <1>4, <3>1, NamedFields
  <2>2. CASE program.node[s.at].symbol # g
    <3> DEFINE q == Request("mod", s.at, TRUE, FALSE, s.line)
    <3>1. q \in EdgeAccesses(s)
      BY <1>4 DEF EdgeAccesses, When
    <3>2. q.access = "mod" /\ q.node = s.at
      BY DEF Request
    <3> HIDE DEF q
    <3>3. QED
      BY <1>1, <1>4, <2>2, <3>1, <3>2, RequestAnswered
  <2>3. QED
    BY <2>1, <2>2
<1>5. CASE s.op = "external" /\ access = "mod" /\ g \in program.node[s.at].points
  <2> DEFINE q == Request("mod", s.at, FALSE, FALSE, s.line)
  <2>1. q \in EdgeAccesses(s)
    BY <1>5 DEF EdgeAccesses, When
  <2>2. q.access = "mod" /\ q.node = s.at /\ ~q.suppress
    BY DEF Request
  <2> HIDE DEF q
  <2>3. QED
    BY <1>1, <1>5, <2>1, <2>2, RequestAnswered
<1>6. CASE s.op = "copy" /\ access = "mod" /\ g \in program.node[s.at].points
  <2> DEFINE q == Request("mod", s.at, FALSE, TRUE, s.line)
  <2>1. q \in EdgeAccesses(s)
    BY <1>6 DEF EdgeAccesses, When
  <2>2. q.access = "mod" /\ q.node = s.at /\ ~q.suppress
    BY DEF Request
  <2> HIDE DEF q
  <2>3. QED
    BY <1>1, <1>6, <2>1, <2>2, RequestAnswered
<1>7. CASE s.op = "copy" /\ access = "ref" /\ g \in program.node[s.from].points
  <2> DEFINE q == Request("ref", s.from, FALSE, TRUE, s.line)
  <2>1. q \in EdgeAccesses(s)
    BY <1>7 DEF EdgeAccesses, When
  <2>2. q.access = "ref" /\ q.node = s.from /\ ~q.suppress
    BY DEF Request
  <2> HIDE DEF q
  <2>3. QED
    BY <1>2, <1>7, <2>1, <2>2, RequestAnswered
<1>8. CASE s.op = "fill" /\ access = "mod" /\ g \in program.node[s.at].points
  <2>1. FillRows(program, s) \subseteq StatementRows(program, s)
    BY DEF StatementRows
  <2>2. CASE FillTarget(program, s) # NoGlobal
    <3>1. Named("mod", FillTarget(program, s), "aliased") \in FillRows(program, s)
      BY <1>8, <2>2 DEF FillRows, When
    <3>2. g = FillTarget(program, s)
      BY <1>1, <1>8, <2>2 DEF FillTarget, NodeReady
    <3>3. QED
      BY <1>8, <2>1, <3>1, <3>2, NamedFields
  <2>3. CASE FillTarget(program, s) = NoGlobal
    <3> DEFINE q == Request("mod", s.at, FALSE, TRUE, s.line)
    <3>1. FillRows(program, s) = PointerRows(program, q)
      BY <1>8, <2>3 DEF FillRows, When
    <3>2. q.access = "mod" /\ q.node = s.at /\ g \notin Suppressed(program, q)
      BY DEF Suppressed, Request
    <3> HIDE DEF q
    <3>3. QED
      BY <1>1, <1>8, <2>1, <3>1, <3>2, PointerRowsCover
  <2>4. QED
    BY <2>2, <2>3
<1>9. QED
  BY <1>1, <1>3, <1>4, <1>5, <1>6, <1>7, <1>8, TouchedCases DEF Operations

\* So is it of the local rows of the function the statement belongs to.
LEMMA LocalRowsCover ==
    ASSUME Ready(program), NEW f \in Funcs, NEW s \in program.body[f], NEW access,
           NEW g \in Touched(s, access), g # NoGlobal
    PROVE  \E r \in LocalRows(program, f) : r.access = access /\ g \in r.scope
BY StatementRowsCover DEF LocalRows

\* What is touched is a global, never the mark for none.
LEMMA TouchedGlobals ==
    ASSUME Ready(program), NEW f \in Funcs, NEW s \in program.body[f], NEW access,
           NEW g \in Touched(s, access)
    PROVE  g \in Globals /\ g # NoGlobal
<1>1. s.op \in Operations /\ s.at \in DOMAIN program.node
      /\ (s.op = "copy" => s.from \in DOMAIN program.node)
  BY DEF Ready, BodySound
<1>2. QED
  BY <1>1, TouchedCases, ProgramAssumption DEF Ready, NodeReady

\* A row that names a global for certain becomes an exact line of the ledger.
LEMMA RowEntry ==
    ASSUME NEW p, NEW s, NEW row \in DirectRows(p, s) \cup ConstantOperandRows(p, s)
    PROVE  \E e \in StatementEntries(p, s) :
              e.access = row.access /\ e.line = s.line /\ e.targets = row.scope
<1>1. Entry(row.access, row.from[1], s.line, TRUE, row.scope) \in StatementEntries(p, s)
  BY DEF StatementEntries
<1>2. QED
  BY <1>1 DEF Entry

\* The line of an access request lists what its address points to.
LEMMA RequestEntriesCover ==
    ASSUME NEW p, NEW q, NodeReady(p, q.node), NEW g \in p.node[q.node].points, g # NoGlobal,
           q.suppress => p.node[q.node].symbol # g
    PROVE  \E e \in RequestEntries(p, q) : e.access = q.access /\ e.line = q.line /\ g \in e.targets
<1>1. ~LocalRooted(p, q) /\ ~SymbolRooted(p, q)
  BY DEF LocalRooted, SymbolRooted, NodeReady
<1>2. CASE GlobalRooted(p, q)
  <2>1. Entry(q.access, "aliased", q.line, FALSE, {p.node[q.node].root}) \in RequestEntries(p, q)
    BY <1>1, <1>2 DEF RequestEntries
  <2>2. g = p.node[q.node].root
    BY <1>2 DEF GlobalRooted, NodeReady
  <2>3. QED
    BY <2>1, <2>2 DEF Entry
<1>3. CASE ~GlobalRooted(p, q)
  <2>1. Entry(q.access, Via(p, q.node), q.line, FALSE, NodeIds(p, q.node) \ Suppressed(p, q))
          \in RequestEntries(p, q)
    BY <1>1, <1>3 DEF RequestEntries
  <2>2. g \in NodeIds(p, q.node) \ Suppressed(p, q)
    BY DEF NodeReady, Suppressed
  <2>3. QED
    BY <2>1, <2>2 DEF Entry
<1>4. QED
  BY <1>2, <1>3

\* So the statement a request comes from has a line for what the address points to.
LEMMA RequestListed ==
    ASSUME NEW p, NEW s, NEW q \in EdgeAccesses(s), NodeReady(p, q.node),
           NEW g \in p.node[q.node].points, g # NoGlobal,
           q.suppress => p.node[q.node].symbol # g
    PROVE  \E e \in StatementEntries(p, s) : e.access = q.access /\ e.line = s.line /\ g \in e.targets
<1>1. q.line = s.line
  BY DEF EdgeAccesses, When, Request
<1>2. RequestEntries(p, q) \subseteq StatementEntries(p, s)
  BY DEF StatementEntries
<1>3. QED
  BY <1>1, <1>2, RequestEntriesCover

\* Every global a statement touches is on a line of its own.
LEMMA StatementEntriesCover ==
    ASSUME Ready(program), NEW f \in Funcs, NEW s \in program.body[f], NEW access,
           NEW g \in Touched(s, access), g # NoGlobal
    PROVE  \E e \in StatementEntries(program, s) : e.access = access /\ e.line = s.line /\ g \in e.targets
<1>1. s.op \in Operations /\ s.at \in DOMAIN program.node /\ NodeReady(program, s.at)
  BY DEF Ready, BodySound
<1>2. s.op = "copy" => s.from \in DOMAIN program.node /\ NodeReady(program, s.from)
  BY DEF Ready, BodySound
<1>3. CASE s.op = "load" /\ access = "ref" /\ g \in program.node[s.at].points
  <2>1. CASE program.node[s.at].symbol = g
    <3>1. Named("ref", g, "direct") \in DirectRows(program, s)
      BY <1>3, <2>1 DEF DirectRows
    <3>2. QED
      BY <1>3, <3>1, NamedFields, RowEntry
  <2>2. CASE program.node[s.at].symbol # g
    <3> DEFINE q == Request("ref", s.at, TRUE, FALSE, s.line)
    <3>1. q \in EdgeAccesses(s)
      BY <1>3 DEF EdgeAccesses, When
    <3>2. q.access = "ref" /\ q.node = s.at
      BY DEF Request
    <3> HIDE DEF q
    <3>3. QED
      BY <1>1, <1>3, <2>2, <3>1, <3>2, RequestListed
  <2>3. QED
    BY <2>1, <2>2
<1>4. CASE s.op = "store" /\ access = "mod" /\ g \in program.node[s.at].points
  <2>1. CASE program.node[s.at].symbol = g
    <3>1. Named("mod", g, "direct") \in DirectRows(program, s)
      BY <1>4, <2>1 DEF DirectRows
    <3>2. QED
      BY <1>4, <3>1, NamedFields, RowEntry
  <2>2. CASE program.node[s.at].symbol # g
    <3> DEFINE q == Request("mod", s.at, TRUE, FALSE, s.line)
    <3>1. q \in EdgeAccesses(s)
      BY <1>4 DEF EdgeAccesses, When
    <3>2. q.access = "mod" /\ q.node = s.at
      BY DEF Request
    <3> HIDE DEF q
    <3>3. QED
      BY <1>1, <1>4, <2>2, <3>1, <3>2, RequestListed
  <2>3. QED
    BY <2>1, <2>2
<1>5. CASE s.op = "external" /\ access = "mod" /\ g \in program.node[s.at].points
  <2> DEFINE q == Request("mod", s.at, FALSE, FALSE, s.line)
  <2>1. q \in EdgeAccesses(s)
    BY <1>5 DEF EdgeAccesses, When
  <2>2. q.access = "mod" /\ q.node = s.at /\ ~q.suppress
    BY DEF Request
  <2> HIDE DEF q
  <2>3. QED
    BY <1>1, <1>5, <2>1, <2>2, RequestListed
<1>6. CASE s.op = "copy" /\ access = "mod" /\ g \in program.node[s.at].points
  <2> DEFINE q == Request("mod", s.at, FALSE, TRUE, s.line)
  <2>1. q \in EdgeAccesses(s)
    BY <1>6 DEF EdgeAccesses, When
  <2>2. q.access = "mod" /\ q.node = s.at /\ ~q.suppress
    BY DEF Request
  <2> HIDE DEF q
  <2>3. QED
    BY <1>1, <1>6, <2>1, <2>2, RequestListed
<1>7. CASE s.op = "copy" /\ access = "ref" /\ g \in program.node[s.from].points
  <2> DEFINE q == Request("ref", s.from, FALSE, TRUE, s.line)
  <2>1. q \in EdgeAccesses(s)
    BY <1>7 DEF EdgeAccesses, When
  <2>2. q.access = "ref" /\ q.node = s.from /\ ~q.suppress
    BY DEF Request
  <2> HIDE DEF q
  <2>3. QED
    BY <1>2, <1>7, <2>1, <2>2, RequestListed
<1>8. CASE s.op = "fill" /\ access = "mod" /\ g \in program.node[s.at].points
  <2>1. FillEntries(program, s) \subseteq StatementEntries(program, s)
    BY DEF StatementEntries
  <2>2. CASE FillTarget(program, s) # NoGlobal
    <3>1. Entry("mod", "aliased", s.line, TRUE, {FillTarget(program, s)}) \in FillEntries(program, s)
      BY <1>8, <2>2 DEF FillEntries, When
    <3>2. g = FillTarget(program, s)
      BY <1>1, <1>8, <2>2 DEF FillTarget, NodeReady
    <3>3. QED
      BY <1>8, <2>1, <3>1, <3>2 DEF Entry
  <2>3. CASE FillTarget(program, s) = NoGlobal
    <3>1. Entry("mod", Via(program, s.at), s.line, TRUE, NodeIds(program, s.at)) \in FillEntries(program, s)
      BY <1>8, <2>3 DEF FillEntries, When
    <3>2. g \in NodeIds(program, s.at)
      BY <1>1, <1>8 DEF NodeReady
    <3>3. QED
      BY <1>8, <2>1, <3>1, <3>2 DEF Entry
  <2>4. QED
    BY <2>2, <2>3
<1>9. QED
  BY <1>1, <1>3, <1>4, <1>5, <1>6, <1>7, <1>8, TouchedCases DEF Operations

\* An exact line that takes over a target has the same kind of access and stands at the same line.
LEMMA SuppliedLine ==
    ASSUME NEW p, NEW f, NEW e, NEW g \in SuppliedExactly(p, f, e)
    PROVE  \E x \in Listed(p, f) : /\ x.exact /\ x.access = e.access /\ x.line = e.line
                                   /\ g \in x.targets
BY DEF SuppliedExactly

\* The ledger of a function lists, at the line of a statement, everything the statement touches.
LEMMA LedgerCovers ==
    ASSUME Ready(program), NEW f \in Funcs, NEW s \in program.body[f], NEW access,
           NEW g \in Touched(s, access), g # NoGlobal
    PROVE  \E e \in Ledger(program, f) : e.access = access /\ e.line = s.line /\ g \in e.targets
<1>1. PICK e \in Listed(program, f) : e.access = access /\ e.line = s.line /\ g \in e.targets
  BY StatementEntriesCover DEF Listed
<1>2. ASSUME NEW x \in Listed(program, f), x.exact
      PROVE  x \in Ledger(program, f)
  BY <1>2 DEF Ledger
<1>3. CASE e.exact
  BY <1>1, <1>2, <1>3
<1>4. CASE ~e.exact /\ g \in SuppliedExactly(program, f, e)
  BY <1>1, <1>2, <1>4, SuppliedLine
<1>5. CASE ~e.exact /\ g \notin SuppliedExactly(program, f, e)
  <2> DEFINE left == Entry(e.access, e.via, e.line, FALSE, e.targets \ SuppliedExactly(program, f, e))
  <2>1. left \in Ledger(program, f)
    BY <1>5 DEF Ledger
  <2>2. left.access = access /\ left.line = s.line /\ g \in left.targets
    BY <1>1, <1>5 DEF Entry
  <2>3. QED
    BY <2>1, <2>2
<1>6. QED
  BY <1>3, <1>4, <1>5

(***************************************************************************)
(* Induction over the naturals, stated for sets                            *)
(***************************************************************************)

\* A set of naturals that holds zero and the successor of each of its members holds them all.
LEMMA NaturalsBySuccessor ==
    ASSUME NEW S, 0 \in S, \A n \in Nat : n \in S => n + 1 \in S
    PROVE  Nat \subseteq S
<1> DEFINE R == OpToRel(<, Nat)
<1> SUFFICES ASSUME Nat \ S # {} PROVE FALSE
  OBVIOUS
<1>1. IsWellFoundedOn(R, Nat)
  BY NatLessThanWellFounded, Zenon
<1>2. Nat \ S \subseteq Nat
  OBVIOUS
<1> HIDE DEF R
<1>3. PICK m \in Nat \ S : \A n \in Nat \ S : <<n, m>> \notin R
  BY <1>1, <1>2, WFMin, Zenon
<1>4. m # 0 /\ m - 1 \in Nat /\ m - 1 < m
  BY <1>3
<1>5. <<m - 1, m>> \in R
  BY <1>4 DEF R, OpToRel
<1>6. m - 1 \in S
  BY <1>3, <1>4, <1>5
<1>7. QED
  BY <1>4, <1>6

(***************************************************************************)
(* Reachability in a call graph and its components                         *)
(***************************************************************************)

\* The functions the members of a set reach.
ReachOf(edges, c) == UNION {Reachable(edges, g) : g \in c}

\* A function reaches itself, and only functions of the module.
LEMMA ReachSelf ==
    ASSUME NEW edges, NEW f \in Funcs
    PROVE  f \in Reachable(edges, f) /\ Reachable(edges, f) \subseteq Funcs
BY ClosureSeed, ClosureInside DEF Reachable

\* Whoever reaches a caller reaches what it calls.
LEMMA ReachStep ==
    ASSUME NEW edges, NEW f \in Funcs, NEW x \in Reachable(edges, f), NEW e \in edges,
           e[1] = x, e[3] \in Funcs
    PROVE  e[3] \in Reachable(edges, f)
<1>1. <<x, e[3]>> \in CallPairs(edges)
  BY DEF CallPairs, Internal
<1>2. QED
  BY <1>1, ClosureStep DEF Reachable

\* What is closed under calls and holds a function holds all it reaches.
LEMMA ReachLeast ==
    ASSUME NEW edges, NEW f \in Funcs, NEW part \in SUBSET Funcs, f \in part,
           \A e \in edges : e[1] \in part /\ e[3] \in Funcs => e[3] \in part
    PROVE  Reachable(edges, f) \subseteq part
<1>1. \A e \in CallPairs(edges) : e[1] \in part => e[2] \in part
  BY DEF CallPairs, Internal
<1>2. QED
  BY <1>1, ClosureLeast DEF Reachable

\* Reaching is transitive.
LEMMA ReachTransitive ==
    ASSUME NEW edges, NEW f \in Funcs, NEW g \in Reachable(edges, f)
    PROVE  Reachable(edges, g) \subseteq Reachable(edges, f)
<1>1. g \in Funcs /\ Reachable(edges, f) \in SUBSET Funcs
  BY ReachSelf
<1>2. \A e \in edges : e[1] \in Reachable(edges, f) /\ e[3] \in Funcs => e[3] \in Reachable(edges, f)
  BY ReachStep
<1>3. QED
  BY <1>1, <1>2, ReachLeast

\* The members of a component reach the same functions.
LEMMA ComponentReach ==
    ASSUME NEW edges, NEW f \in Funcs
    PROVE  /\ f \in Component(edges, f) /\ Component(edges, f) \subseteq Funcs
           /\ ReachOf(edges, Component(edges, f)) = Reachable(edges, f)
<1>1. f \in Component(edges, f) /\ Component(edges, f) \subseteq Reachable(edges, f)
  BY ReachSelf DEF Component
<1>2. \A g \in Component(edges, f) : Reachable(edges, g) \subseteq Reachable(edges, f)
  BY <1>1, ReachTransitive
<1>3. QED
  BY <1>1, <1>2, ReachSelf DEF ReachOf

\* What a component reaches is itself and what the components it calls into reach.
LEMMA SuccessorReach ==
    ASSUME NEW edges, NEW f \in Funcs, NEW c, c = Component(edges, f)
    PROVE  Reachable(edges, f) = c \cup UNION {ReachOf(edges, d) : d \in Successors(edges, c)}
<1> DEFINE whole == c \cup UNION {ReachOf(edges, d) : d \in Successors(edges, c)}
<1>1. c \subseteq Reachable(edges, f) /\ f \in c /\ c \subseteq Funcs
  BY ComponentReach DEF Component
<1>2. ASSUME NEW h \in Callees(edges, c) \ c
      PROVE  /\ h \in Funcs /\ Component(edges, h) \in Successors(edges, c)
             /\ ReachOf(edges, Component(edges, h)) = Reachable(edges, h)
             /\ Reachable(edges, h) \subseteq Reachable(edges, f)
  <2>1. h \in Funcs
    BY DEF Callees
  <2>2. PICK e \in edges : e[1] \in c /\ e[3] = h
    BY DEF Callees
  <2>3. h \in Reachable(edges, f)
    BY <1>1, <2>1, <2>2, ReachStep
  <2>4. QED
    BY <2>1, <2>3, ComponentReach, ReachTransitive DEF Successors
<1>3. ASSUME NEW d \in Successors(edges, c)
      PROVE  ReachOf(edges, d) \subseteq Reachable(edges, f)
  <2>1. PICK h \in Callees(edges, c) \ c : d = Component(edges, h)
    BY DEF Successors
  <2>2. QED
    BY <1>2, <2>1
<1>4. whole \subseteq Reachable(edges, f)
  BY <1>1, <1>3
<1>5. ASSUME NEW e \in edges, e[1] \in whole, e[3] \in Funcs
      PROVE  e[3] \in whole
  <2>1. CASE e[1] \in c /\ e[3] \notin c
    <3>1. e[3] \in Callees(edges, c) \ c
      BY <1>5, <2>1 DEF Callees
    <3>2. e[3] \in ReachOf(edges, Component(edges, e[3]))
      BY <1>2, <1>5, <3>1, ReachSelf
    <3>3. QED
      BY <1>2, <3>1, <3>2
  <2>2. CASE e[1] \notin c
    <3>1. PICK d \in Successors(edges, c) : e[1] \in ReachOf(edges, d)
      BY <1>5, <2>2
    <3>2. PICK h \in Callees(edges, c) \ c : d = Component(edges, h)
      BY <3>1 DEF Successors
    <3>3. e[3] \in Reachable(edges, h)
      BY <1>2, <1>5, <3>1, <3>2, ReachStep
    <3>4. QED
      BY <1>2, <3>1, <3>2, <3>3
  <2>3. QED
    BY <2>1, <2>2
<1>6. whole \in SUBSET Funcs
  BY <1>4, ReachSelf
<1> HIDE DEF whole
<1>7. f \in whole
  BY <1>1 DEF whole
<1>8. Reachable(edges, f) \subseteq whole
  BY <1>5, <1>6, <1>7, ReachLeast
<1>9. QED
  BY <1>4, <1>8 DEF whole

(***************************************************************************)
(* Summaries                                                               *)
(***************************************************************************)

\* Compacting rows keeps the candidates of every kind of access.
LEMMA CompactKeeps ==
    ASSUME NEW rows, NEW why, NEW access
    PROVE  CandidateUnion(Compact(rows, why), access) = CandidateUnion(rows, access)
<1>1. \A r \in Compact(rows, why) : r.scope = CandidateUnion(rows, r.access)
  BY DEF Compact, Unknown, Row
<1>2. ASSUME NEW r \in rows, r.access = access
      PROVE  \E q \in Compact(rows, why) : q.access = access
  <2>1. Unknown(access, CandidateUnion(rows, access), <<why>>) \in Compact(rows, why)
    BY <1>2 DEF Compact
  <2>2. QED
    BY <2>1 DEF Unknown, Row
<1>3. ASSUME NEW g \in CandidateUnion(rows, access)
      PROVE  g \in CandidateUnion(Compact(rows, why), access)
  <2>1. PICK r \in rows : r.access = access
    BY <1>3 DEF CandidateUnion
  <2>2. PICK q \in Compact(rows, why) : q.access = access
    BY <1>2, <2>1
  <2>3. g \in q.scope
    BY <1>1, <1>3, <2>2
  <2>4. QED
    BY <2>2, <2>3, RowCandidate
<1>4. ASSUME NEW g \in CandidateUnion(Compact(rows, why), access)
      PROVE  g \in CandidateUnion(rows, access)
  <2>1. PICK q \in Compact(rows, why) : q.access = access /\ g \in q.scope
    BY <1>4 DEF CandidateUnion
  <2>2. QED
    BY <1>1, <2>1
<1>5. QED
  BY <1>3, <1>4

\* A summary past its limit keeps its candidates.
LEMMA CollapseKeeps ==
    ASSUME NEW rows, NEW approximate, NEW access
    PROVE  /\ CandidateUnion(Collapse([rows |-> rows, approximate |-> approximate]).rows, access)
                = CandidateUnion(rows, access)
           /\ "rows" \in DOMAIN Collapse([rows |-> rows, approximate |-> approximate])
<1> DEFINE given == [rows |-> rows, approximate |-> approximate]
<1>1. CASE Collapses(rows)
  <2>1. Collapse(given) = [rows |-> Compact(rows, "limit"), approximate |-> TRUE]
    BY <1>1 DEF Collapse
  <2>2. QED
    BY <2>1, CompactKeeps
<1>2. CASE ~Collapses(rows)
  <2>1. Collapse(given) = given
    BY <1>2 DEF Collapse
  <2>2. QED
    BY <2>1
<1>3. QED
  BY <1>1, <1>2

\* Two unions of rows have the candidates of both.
LEMMA CandidatesOfBoth ==
    ASSUME NEW rows, NEW more, NEW access
    PROVE  CandidateUnion(rows \cup more, access)
             = CandidateUnion(rows, access) \cup CandidateUnion(more, access)
BY DEF CandidateUnion

\* Merging a successor, collapsed or not, adds its candidates and loses none.
Candidates(summary, access) == CandidateUnion(summary.rows, access)

\* Merging a successor's summary unites the candidates of both.
LEMMA MergeKeeps ==
    ASSUME NEW summary, NEW callee, NEW access
    PROVE  Candidates(MergeSuccessor(summary, callee), access)
             = Candidates(summary, access) \cup Candidates(callee, access)
<1> DEFINE merged == Collapse([rows |-> summary.rows \cup callee.rows,
                               approximate |-> summary.approximate \/ callee.approximate])
<1>1. /\ CandidateUnion(merged.rows, access) = CandidateUnion(summary.rows \cup callee.rows, access)
      /\ "rows" \in DOMAIN merged
  BY CollapseKeeps
<1>2. MergeSuccessor(summary, callee)
        = IF merged.approximate THEN [merged EXCEPT !.rows = Compact(merged.rows, "propagated")] ELSE merged
  BY DEF MergeSuccessor
<1> HIDE DEF merged
<1>3. CandidateUnion(MergeSuccessor(summary, callee).rows, access) = CandidateUnion(merged.rows, access)
  <2>1. CASE merged.approximate
    <3>1. MergeSuccessor(summary, callee).rows = Compact(merged.rows, "propagated")
      BY <1>1, <1>2, <2>1
    <3>2. QED
      BY <3>1, CompactKeeps
  <2>2. CASE ~merged.approximate
    BY <1>2, <2>2
  <2>3. QED
    BY <2>1, <2>2
<1>4. QED
  BY <1>1, <1>3, CandidatesOfBoth DEF Candidates

\* The successors of a component are finitely many, and an order of them names each.
LEMMA OrderNamesAll ==
    ASSUME NEW edges, NEW c, NEW order \in SetToSeqs(Successors(edges, c))
    PROVE  /\ Len(order) \in Nat
           /\ \A i \in 1..Len(order) : order[i] \in Successors(edges, c)
           /\ \A d \in Successors(edges, c) : \E i \in 1..Len(order) : order[i] = d
<1> DEFINE S == Successors(edges, c)
           n == Cardinality(S)
<1>1. IsFiniteSet(SUBSET Funcs)
  BY ProgramAssumption, FS_SUBSET
<1>2. S \in SUBSET SUBSET Funcs
  BY ComponentReach DEF Successors, Callees
<1>3. IsFiniteSet(S) /\ n \in Nat
  BY <1>1, <1>2, FS_Subset, FS_CardinalityType
<1>4. order \in [1..n -> S] /\ \A i, j \in 1..n : i # j => order[i] # order[j]
  BY DEF SetToSeqs
<1> HIDE DEF n
<1>5. Len(order) = n
  BY <1>3, <1>4
<1>6. order \in Injection(1..n, S)
  BY <1>4 DEF Injection, IsInjective
<1>7. Cardinality(1..n) = n
  BY <1>3, FS_Interval
<1>8. order \in Surjection(1..n, S)
  BY <1>3, <1>6, <1>7, FS_Injection DEF n
<1>9. QED
  BY <1>3, <1>4, <1>5, <1>8 DEF Surjection

\* h merges the successors in order, up to the n-th.
Merges(h, base, order, known, n) ==
    h = [i \in 0..n |-> IF i = 0 THEN base ELSE MergeSuccessor(h[i - 1], known[order[i]])]

\* However many successors there are, they can be merged one after the other.
LEMMA MergesExist ==
    ASSUME NEW base, NEW order, NEW known, NEW n \in Nat
    PROVE  \E h : Merges(h, base, order, known, n)
<1> DEFINE S == {k \in Nat : \E h : Merges(h, base, order, known, k)}
<1>1. 0 \in S
  <2> DEFINE h == [i \in 0..0 |-> base]
  <2>1. Merges(h, base, order, known, 0)
    BY DEF Merges
  <2>2. QED
    BY <2>1, Zenon
<1>2. ASSUME NEW k \in Nat, k \in S
      PROVE  k + 1 \in S
  <2>1. PICK h : Merges(h, base, order, known, k)
    BY <1>2
  <2> DEFINE w == [i \in 0..(k + 1) |-> IF i = k + 1 THEN MergeSuccessor(h[k], known[order[k + 1]]) ELSE h[i]]
  <2>2. ASSUME NEW i \in 0..(k + 1)
        PROVE  w[i] = IF i = 0 THEN base ELSE MergeSuccessor(w[i - 1], known[order[i]])
    <3>1. CASE i = k + 1
      <4>1. w[k + 1] = MergeSuccessor(h[k], known[order[k + 1]]) /\ w[k] = h[k]
        OBVIOUS
      <4>2. QED
        BY <3>1, <4>1
    <3>2. CASE i # k + 1
      <4>1. i \in 0..k /\ w[i] = h[i]
        BY <3>2
      <4>2. h[i] = IF i = 0 THEN base ELSE MergeSuccessor(h[i - 1], known[order[i]])
        BY <2>1, <4>1 DEF Merges
      <4>3. i # 0 => w[i - 1] = h[i - 1]
        BY <4>1
      <4>4. QED
        BY <4>1, <4>2, <4>3
    <3>3. QED
      BY <3>1, <3>2
  <2>3. w = [i \in 0..(k + 1) |-> w[i]]
    OBVIOUS
  <2> HIDE DEF w
  <2>4. Merges(w, base, order, known, k + 1)
    BY <2>2, <2>3, Zenon DEF Merges
  <2>5. QED
    BY <2>4
<1> HIDE DEF S
<1>3. n \in S
  BY <1>1, <1>2, NaturalsBySuccessor
<1>4. QED
  BY <1>3 DEF S

\* A summary is the last of a running merge.
LEMMA SummaryMerges ==
    ASSUME NEW p, NEW c, NEW order, NEW known, Len(order) \in Nat
    PROVE  \E h : /\ Merges(h, Collapse([rows |-> UNION {LocalRows(p, f) : f \in c}, approximate |-> FALSE]),
                            order, known, Len(order))
                  /\ Summary(p, c, order, known) = h[Len(order)]
<1> DEFINE base == Collapse([rows |-> UNION {LocalRows(p, f) : f \in c}, approximate |-> FALSE])
           h == CHOOSE m : m = [i \in 0..Len(order) |->
                                  IF i = 0 THEN base ELSE MergeSuccessor(m[i - 1], known[order[i]])]
<1>1. Summary(p, c, order, known) = h[Len(order)]
  BY Zenon DEF Summary
<1> HIDE DEF base
<1>2. \E m : m = [i \in 0..Len(order) |-> IF i = 0 THEN base ELSE MergeSuccessor(m[i - 1], known[order[i]])]
  <2>1. \E m : Merges(m, base, order, known, Len(order))
    BY MergesExist
  <2>2. QED
    BY <2>1, Zenon DEF Merges
<1>3. h = [i \in 0..Len(order) |-> IF i = 0 THEN base ELSE MergeSuccessor(h[i - 1], known[order[i]])]
  BY <1>2, Zenon
<1>4. Merges(h, base, order, known, Len(order))
  BY <1>3, Zenon DEF Merges
<1>5. QED
  BY <1>1, <1>4, Zenon DEF base

\* A summary has the candidates of the local rows and of every summary it merged.
LEMMA SummaryCandidates ==
    ASSUME NEW p, NEW c, NEW order, NEW known, NEW access, Len(order) \in Nat
    PROVE  \A g : g \in CandidateUnion(Summary(p, c, order, known).rows, access) <=>
                   \/ g \in CandidateUnion(UNION {LocalRows(p, f) : f \in c}, access)
                   \/ \E i \in 1..Len(order) : g \in CandidateUnion(known[order[i]].rows, access)
<1> DEFINE local == UNION {LocalRows(p, f) : f \in c}
           base == Collapse([rows |-> local, approximate |-> FALSE])
           Merged(k) == CandidateUnion(local, access)
                        \cup UNION {CandidateUnion(known[order[i]].rows, access) : i \in 1..k}
<1>1. PICK h : Merges(h, base, order, known, Len(order)) /\ Summary(p, c, order, known) = h[Len(order)]
  BY SummaryMerges, Zenon
<1>2. CandidateUnion(base.rows, access) = CandidateUnion(local, access)
  BY CollapseKeeps
<1> HIDE DEF base, local
<1> DEFINE S == {k \in Nat : k <= Len(order) => CandidateUnion(h[k].rows, access) = Merged(k)}
<1>3. 0 \in S
  <2>1. h[0] = base
    BY <1>1 DEF Merges
  <2>2. Merged(0) = CandidateUnion(local, access)
    OBVIOUS
  <2>3. QED
    BY <1>2, <2>1, <2>2
<1>4. ASSUME NEW k \in Nat, k \in S
      PROVE  k + 1 \in S
  <2> SUFFICES ASSUME k + 1 <= Len(order)
               PROVE  CandidateUnion(h[k + 1].rows, access) = Merged(k + 1)
    OBVIOUS
  <2>1. CandidateUnion(h[k].rows, access) = Merged(k)
    BY <1>4
  <2>2. h[k + 1] = MergeSuccessor(h[k], known[order[k + 1]])
    <3>1. k + 1 \in 0..Len(order) /\ k + 1 # 0 /\ (k + 1) - 1 = k
      OBVIOUS
    <3>2. \A i \in 0..Len(order) : h[i] = IF i = 0 THEN base ELSE MergeSuccessor(h[i - 1], known[order[i]])
      BY <1>1 DEF Merges
    <3>3. QED
      BY <3>1, <3>2
  <2> HIDE DEF Merged
  <2>3. CandidateUnion(h[k + 1].rows, access) = Merged(k) \cup CandidateUnion(known[order[k + 1]].rows, access)
    <3>1. Candidates(MergeSuccessor(h[k], known[order[k + 1]]), access)
            = Candidates(h[k], access) \cup Candidates(known[order[k + 1]], access)
      BY MergeKeeps
    <3>2. Candidates(h[k + 1], access) = Candidates(h[k], access) \cup Candidates(known[order[k + 1]], access)
      BY <2>2, <3>1
    <3>3. CandidateUnion(h[k + 1].rows, access)
            = CandidateUnion(h[k].rows, access) \cup CandidateUnion(known[order[k + 1]].rows, access)
      BY <3>2, Zenon DEF Candidates
    <3>4. QED
      BY <2>1, <3>3
  <2>4. 1..(k + 1) = (1..k) \cup {k + 1}
    OBVIOUS
  <2>5. Merged(k + 1) = Merged(k) \cup CandidateUnion(known[order[k + 1]].rows, access)
    BY <2>4 DEF Merged
  <2>6. QED
    BY <2>3, <2>5
<1> HIDE DEF S
<1>5. Len(order) \in S
  BY <1>3, <1>4, NaturalsBySuccessor
<1>6. QED
  BY <1>1, <1>5 DEF S, local

(***************************************************************************)
(* Frames: what may stand on what                                          *)
(***************************************************************************)

Frames(p, extra) == [func : Funcs \cup {Omega}, site : DOMAIN p.site \cup {Omega} \cup extra]

\* A frame was pushed by a call site of the function below it, whose target it runs, or outside
\* code runs in it, or outside code entered a function whose address it holds.
Linked(p, below, frame) ==
    IF frame.site \in DOMAIN p.site
      THEN /\ below.func = p.site[frame.site].caller
           /\ \E t \in Targets(p, frame.site) : frame.func = IF t \in Funcs THEN t ELSE Omega
      ELSE \/ frame.func = Omega
           \/ frame.site = Omega /\ below.func = Omega /\ frame.func \in p.entered

\* Frames no outside code separates are a path of the published call graph.
ChainsReach(p, st) ==
    \A i, k \in 1..Len(st) :
        i <= k /\ (\A j \in i..k : st[j].func # Omega) => st[k].func \in Reachable(Edges(p), st[i].func)

\* No frame runs a function connected to untainted functions only.
CleanApart(p, st) ==
    \A f \in Funcs : (\A x \in Connected(Edges(p), f) : ~Tainted(p, Edges(p), x)) =>
        \A i \in 1..Len(st) : st[i].func \notin Connected(Edges(p), f)

StackSound(p, st, extra) ==
    /\ st \in Seq(Frames(p, extra)) /\ Len(st) > 0 /\ st[1].func = Omega
    /\ \A i \in 2..Len(st) : Linked(p, st[i - 1], st[i])
    /\ ChainsReach(p, st)
    /\ CleanApart(p, st)

\* A call listed among the targets of its site is an edge of the published call graph.
LEMMA LinkedEdge ==
    ASSUME NEW p, NEW below, NEW frame, Linked(p, below, frame), frame.site \in DOMAIN p.site
    PROVE  \E t : /\ <<below.func, frame.site, t>> \in Edges(p)
                  /\ frame.func = IF t \in Funcs THEN t ELSE Omega
BY DEF Linked, Edges

\* What a connected set holds, it holds with the callers and callees of the module.
LEMMA ConnectedStep ==
    ASSUME NEW edges, NEW f \in Funcs, NEW e \in edges, e[1] \in Funcs, e[3] \in Funcs
    PROVE  e[1] \in Connected(edges, f) <=> e[3] \in Connected(edges, f)
<1>1. <<e[1], e[3]>> \in CallPairs(edges) /\ <<e[3], e[1]>> \in CallerPairs(edges)
  BY DEF CallPairs, CallerPairs, Internal
<1>2. QED
  BY <1>1, ClosureStep DEF Connected

\* A function called inside the module is connected to its caller.
LEMMA CleanPush ==
    ASSUME NEW p, NEW st, NEW extra, NEW frame \in Frames(p, extra), Ready(p),
           StackSound(p, st, extra), Linked(p, st[Len(st)], frame),
           NEW f \in Funcs, \A x \in Connected(Edges(p), f) : ~Tainted(p, Edges(p), x)
    PROVE  frame.func \notin Connected(Edges(p), f)
<1>1. Connected(Edges(p), f) \subseteq Funcs
  BY ClosureInside DEF Connected
<1>2. CASE frame.func = Omega
  BY <1>1, <1>2, ProgramAssumption
<1>3. CASE frame.func # Omega /\ frame.site \in DOMAIN p.site
  <2>1. PICK t : /\ <<st[Len(st)].func, frame.site, t>> \in Edges(p)
                 /\ frame.func = IF t \in Funcs THEN t ELSE Omega
    BY <1>3, LinkedEdge
  <2>2. t \in Funcs /\ frame.func = t
    BY <1>3, <2>1
  <2>3. st[Len(st)].func \in Funcs
    BY <1>3 DEF Linked, Ready, SiteSound
  <2>4. Len(st) \in 1..Len(st)
    BY DEF StackSound
  <2>5. st[Len(st)].func \notin Connected(Edges(p), f)
    BY <2>4 DEF StackSound, CleanApart
  <2> DEFINE e == <<st[Len(st)].func, frame.site, t>>
  <2>6. e \in Edges(p) /\ e[1] = st[Len(st)].func /\ e[3] = t
    BY <2>1
  <2> HIDE DEF e
  <2>7. QED
    BY <2>2, <2>3, <2>5, <2>6, ConnectedStep
<1>4. CASE frame.func # Omega /\ frame.site \notin DOMAIN p.site
  <2>1. frame.func \in p.entered
    BY <1>4 DEF Linked
  <2>2. Tainted(p, Edges(p), frame.func)
    BY <2>1 DEF Tainted
  <2>3. QED
    BY <2>2
<1>5. QED
  BY <1>2, <1>3, <1>4

\* A new frame continues the path of the frames below it.
LEMMA ChainPush ==
    ASSUME NEW p, NEW st, NEW extra, NEW frame \in Frames(p, extra), Ready(p),
           StackSound(p, st, extra), Linked(p, st[Len(st)], frame)
    PROVE  ChainsReach(p, Append(st, frame))
<1> DEFINE next == Append(st, frame)
           n == Len(st)
<1>1. /\ n \in Nat \ {0} /\ Len(next) = n + 1 /\ next[n + 1] = frame
      /\ \A j \in 1..n : next[j] = st[j]
  BY DEF StackSound
<1>2. \A j \in 1..n : st[j].func \in Funcs \cup {Omega}
  <2>1. \A j \in 1..n : st[j] \in Frames(p, extra)
    BY DEF StackSound
  <2>2. \A q \in Frames(p, extra) : q.func \in Funcs \cup {Omega}
    BY DEF Frames
  <2>3. QED
    BY <2>1, <2>2
<1> HIDE DEF next, n
<1>3. ASSUME NEW i \in 1..(n + 1), \A j \in i..(n + 1) : next[j].func # Omega
      PROVE  next[n + 1].func \in Reachable(Edges(p), next[i].func)
  <2>1. frame.func \in Funcs
    <3>1. n + 1 \in i..(n + 1)
      BY <1>1
    <3>2. QED
      BY <1>1, <1>3, <3>1 DEF Frames
  <2>2. CASE i = n + 1
    BY <1>1, <2>1, <2>2, ReachSelf
  <2>3. CASE i # n + 1
    <3>1. i \in 1..n /\ n \in i..n /\ n \in 1..n /\ \A j \in i..n : j \in i..(n + 1) /\ j \in 1..n
      BY <1>1, <2>3
    <3>2. \A j \in i..n : st[j].func # Omega
      BY <1>1, <1>3, <3>1
    <3>3. st[n].func \in Reachable(Edges(p), st[i].func) /\ st[i].func \in Funcs /\ st[n].func # Omega
      <4>1. i \in i..n /\ i <= n
        BY <3>1
      <4>2. st[i].func \in Funcs
        BY <1>2, <3>1, <3>2, <4>1
      <4>3. st[n].func \in Reachable(Edges(p), st[i].func)
        BY <3>1, <3>2, <4>1 DEF StackSound, ChainsReach, n
      <4>4. QED
        BY <3>1, <3>2, <4>2, <4>3
    <3>4. frame.site \in DOMAIN p.site
      BY <2>1, <3>3, ProgramAssumption DEF Linked, n
    <3>5. PICK t : /\ <<st[n].func, frame.site, t>> \in Edges(p)
                   /\ frame.func = IF t \in Funcs THEN t ELSE Omega
      BY <3>4, LinkedEdge DEF n
    <3>6. t \in Funcs /\ frame.func = t
      BY <2>1, <3>5, ProgramAssumption
    <3> DEFINE e == <<st[n].func, frame.site, t>>
    <3>7. e \in Edges(p) /\ e[1] = st[n].func /\ e[3] = t
      BY <3>5
    <3> HIDE DEF e
    <3>8. t \in Reachable(Edges(p), st[i].func)
      BY <3>3, <3>6, <3>7, ReachStep
    <3>9. QED
      BY <1>1, <3>1, <3>6, <3>8
  <2>4. QED
    BY <2>2, <2>3
<1>4. ASSUME NEW i \in 1..(n + 1), NEW k \in 1..(n + 1), i <= k, k # n + 1,
             \A j \in i..k : next[j].func # Omega
      PROVE  next[k].func \in Reachable(Edges(p), next[i].func)
  <2>1. i \in 1..n /\ k \in 1..n /\ \A j \in i..k : j \in 1..n
    BY <1>1, <1>4
  <2>2. \A j \in i..k : st[j].func # Omega
    BY <1>1, <1>4, <2>1
  <2>3. st[k].func \in Reachable(Edges(p), st[i].func)
    BY <1>4, <2>1, <2>2 DEF StackSound, ChainsReach, n
  <2>4. QED
    BY <1>1, <2>1, <2>3
<1>5. \A i, k \in 1..(n + 1) : i <= k /\ (\A j \in i..k : next[j].func # Omega)
         => next[k].func \in Reachable(Edges(p), next[i].func)
  BY <1>3, <1>4
<1>6. QED
  BY <1>1, <1>5 DEF ChainsReach, next

\* A linked frame may be pushed on a sound stack.
LEMMA StackPush ==
    ASSUME NEW p, NEW st, NEW extra, NEW frame \in Frames(p, extra), Ready(p),
           StackSound(p, st, extra), Linked(p, st[Len(st)], frame)
    PROVE  StackSound(p, Append(st, frame), extra)
<1> DEFINE next == Append(st, frame)
           n == Len(st)
<1>1. /\ next \in Seq(Frames(p, extra)) /\ n \in Nat \ {0} /\ Len(next) = n + 1
      /\ next[n + 1] = frame /\ \A j \in 1..n : next[j] = st[j]
  BY DEF StackSound
<1> HIDE DEF next
<1>2. next[1].func = Omega
  BY <1>1 DEF StackSound
<1>3. \A i \in 2..Len(next) : Linked(p, next[i - 1], next[i])
  <2> TAKE i \in 2..Len(next)
  <2>1. CASE i = n + 1
    BY <1>1, <2>1
  <2>2. CASE i # n + 1
    BY <1>1, <2>2 DEF StackSound
  <2>3. QED
    BY <2>1, <2>2
<1>4. CleanApart(p, next)
  <2>1. ASSUME NEW f \in Funcs, \A x \in Connected(Edges(p), f) : ~Tainted(p, Edges(p), x),
               NEW i \in 1..(n + 1)
        PROVE  next[i].func \notin Connected(Edges(p), f)
    <3>1. CASE i = n + 1
      BY <1>1, <2>1, <3>1, CleanPush
    <3>2. CASE i # n + 1
      <4>1. i \in 1..n /\ next[i] = st[i]
        BY <1>1, <3>2
      <4>2. QED
        BY <2>1, <4>1 DEF StackSound, CleanApart
    <3>3. QED
      BY <3>1, <3>2
  <2>2. QED
    BY <1>1, <2>1 DEF CleanApart
<1>5. ChainsReach(p, next)
  BY ChainPush DEF next
<1>6. QED
  BY <1>1, <1>2, <1>3, <1>4, <1>5 DEF StackSound, next

\* A frame above the outermost one may return.
LEMMA StackPop ==
    ASSUME NEW p, NEW st, NEW extra, StackSound(p, st, extra), Len(st) > 1
    PROVE  StackSound(p, Front(st), extra)
<1> DEFINE rest == Front(st)
           n == Len(st) - 1
<1>1. /\ rest \in Seq(Frames(p, extra)) /\ n \in Nat \ {0} /\ Len(rest) = n /\ Len(st) = n + 1
      /\ \A j \in 1..n : rest[j] = st[j] /\ j \in 1..Len(st)
  BY DEF StackSound, Front
<1> HIDE DEF rest, n
<1>2. rest[1].func = Omega /\ \A i \in 2..n : Linked(p, rest[i - 1], rest[i])
  BY <1>1 DEF StackSound
<1>3. ChainsReach(p, rest)
  <2>1. ASSUME NEW i \in 1..n, NEW k \in 1..n, i <= k, \A j \in i..k : rest[j].func # Omega
        PROVE  rest[k].func \in Reachable(Edges(p), rest[i].func)
    <3>1. \A j \in i..k : j \in 1..n
      BY <1>1
    <3>2. \A j \in i..k : st[j].func # Omega
      BY <1>1, <2>1, <3>1
    <3>3. QED
      BY <1>1, <2>1, <3>2 DEF StackSound, ChainsReach
  <2>2. QED
    BY <1>1, <2>1 DEF ChainsReach
<1>4. CleanApart(p, rest)
  BY <1>1 DEF StackSound, CleanApart
<1>5. QED
  BY <1>1, <1>2, <1>3, <1>4 DEF StackSound, rest

(***************************************************************************)
(* The invariant                                                           *)
(***************************************************************************)

CallGraph(p) ==
    [edges |-> Edges(p), stationary |-> Stationary(p), sccs |-> {Component(Edges(p), f) : f \in Funcs}]

\* Each stage leaves what the later ones read, and nothing is executed before the last.
Staged ==
    /\ phase \in {"roots", "rows", "summaries", "run"}
    /\ IF phase = "roots" THEN program \in Programs ELSE Ready(program)
    /\ phase \in {"roots", "rows"} => memo = <<>>
    /\ phase \in {"summaries", "run"} => analysis = CallGraph(program)
    /\ phase # "run" => plan = [components |-> {}, fields |-> {}] /\ stack = <<>> /\ dirty = {}
    /\ phase = "run" => /\ DOMAIN memo = analysis.sccs
                        /\ plan = [components |-> Components(program, analysis),
                                   fields |-> ContextFields(program, analysis.edges)]

Sound(extra) ==
    /\ Staged
    /\ SummariesExact
    /\ StationaryHolds
    /\ phase = "run" => StackSound(program, stack, extra)

\* The initial states are sound.
LEMMA SoundInit ==
    ASSUME NEW extra, Init
    PROVE  Sound(extra)
<1>1. Staged
  BY DEF Init, Staged
<1>2. SummariesExact
  BY DEF Init, SummariesExact
<1>3. QED
  BY <1>1, <1>2 DEF Init, Sound, StationaryHolds

\* Certifying the storage roots makes the program ready.
LEMMA CertifySound ==
    ASSUME NEW extra, Sound(extra), CertifyRoots
    PROVE  Sound(extra)'
<1>1. /\ program \in Programs /\ program' = Certified(program) /\ memo = <<>> /\ memo' = <<>>
      /\ phase = "roots" /\ phase' = "rows"
      /\ plan' = plan /\ stack' = stack /\ dirty' = dirty
  BY DEF Sound, Staged, CertifyRoots
<1>2. Ready(program')
  BY <1>1, CertifiedReady
<1>3. Staged'
  BY <1>1, <1>2 DEF Sound, Staged
<1>4. SummariesExact'
  BY <1>1 DEF SummariesExact
<1>5. QED
  BY <1>1, <1>3, <1>4 DEF Sound, StationaryHolds

\* The call graph is published once, from the program as certified.
LEMMA ResolveSound ==
    ASSUME NEW extra, Sound(extra), ResolveCalls
    PROVE  Sound(extra)'
<1>1. /\ Ready(program) /\ program' = program /\ memo = <<>> /\ memo' = <<>>
      /\ phase = "rows" /\ phase' = "summaries"
      /\ plan' = plan /\ stack' = stack /\ dirty' = dirty
  BY DEF Sound, Staged, ResolveCalls
<1>2. analysis' = CallGraph(program)
  BY DEF ResolveCalls, CallGraph
<1>3. Staged'
  BY <1>1, <1>2 DEF Sound, Staged
<1>4. SummariesExact'
  BY <1>1 DEF SummariesExact
<1>5. QED
  BY <1>1, <1>3, <1>4 DEF Sound, StationaryHolds

\* What the local rows of a set of functions say of one kind of access.
Effects(p, fs, access) == CandidateUnion(UNION {LocalRows(p, f) : f \in fs}, access)

\* An effect of a set of functions is a local candidate of one of them.
LEMMA EffectsMember ==
    ASSUME NEW p, NEW fs, NEW access, NEW g
    PROVE  g \in Effects(p, fs, access) <=> \E f \in fs : g \in CandidateUnion(LocalRows(p, f), access)
BY DEF Effects, CandidateUnion

\* The summary of a component is exact when those of its successors are.
LEMMA CollectExact ==
    ASSUME NEW p, NEW edges, NEW f \in Funcs, NEW c, c = Component(edges, f), NEW known, NEW access,
           NEW order \in SetToSeqs(Successors(edges, c)),
           \A d \in Successors(edges, c) :
              CandidateUnion(known[d].rows, access) = Effects(p, ReachOf(edges, d), access)
    PROVE  CandidateUnion(Summary(p, c, order, known).rows, access) = Effects(p, ReachOf(edges, c), access)
<1>1. /\ Len(order) \in Nat
      /\ \A i \in 1..Len(order) : order[i] \in Successors(edges, c)
      /\ \A d \in Successors(edges, c) : \E i \in 1..Len(order) : order[i] = d
  BY OrderNamesAll
<1> DEFINE Merged(g) == \E i \in 1..Len(order) : g \in CandidateUnion(known[order[i]].rows, access)
<1>2. \A g : g \in CandidateUnion(Summary(p, c, order, known).rows, access)
               <=> g \in Effects(p, c, access) \/ Merged(g)
  BY <1>1, SummaryCandidates, Zenon DEF Effects
<1>3. ReachOf(edges, c) = c \cup UNION {ReachOf(edges, d) : d \in Successors(edges, c)}
  BY ComponentReach, SuccessorReach
<1>4. ASSUME NEW g
      PROVE  Merged(g) <=> \E d \in Successors(edges, c) : g \in Effects(p, ReachOf(edges, d), access)
  <2>1. \A i \in 1..Len(order) :
           CandidateUnion(known[order[i]].rows, access) = Effects(p, ReachOf(edges, order[i]), access)
    BY <1>1
  <2>2. QED
    BY <1>1, <2>1
<1> HIDE DEF Merged
<1>5. ASSUME NEW g
      PROVE  g \in Effects(p, ReachOf(edges, c), access) <=> g \in Effects(p, c, access) \/ Merged(g)
  <2>1. g \in Effects(p, ReachOf(edges, c), access)
          <=> \E h \in ReachOf(edges, c) : g \in CandidateUnion(LocalRows(p, h), access)
    BY EffectsMember
  <2>2. g \in Effects(p, c, access) <=> \E h \in c : g \in CandidateUnion(LocalRows(p, h), access)
    BY EffectsMember
  <2>3. \A d : g \in Effects(p, ReachOf(edges, d), access)
                 <=> \E h \in ReachOf(edges, d) : g \in CandidateUnion(LocalRows(p, h), access)
    BY EffectsMember
  <2>4. \A h : h \in ReachOf(edges, c) <=> h \in c \/ \E d \in Successors(edges, c) : h \in ReachOf(edges, d)
    BY <1>3
  <2>5. QED
    BY <1>4, <2>1, <2>2, <2>3, <2>4
<1>6. QED
  BY <1>2, <1>5

\* A component is summarised once those it calls into are, in any order of them.
LEMMA CollectSound ==
    ASSUME NEW extra, Sound(extra), NEW c \in analysis.sccs, Collect(c)
    PROVE  Sound(extra)'
<1>1. /\ phase = "summaries" /\ phase' = phase /\ program' = program /\ analysis' = analysis
      /\ plan' = plan /\ stack' = stack /\ dirty' = dirty
      /\ Successors(analysis.edges, c) \subseteq DOMAIN memo
  BY DEF Collect
<1>2. PICK order \in SetToSeqs(Successors(analysis.edges, c)) :
        memo' = [d \in DOMAIN memo \cup {c} |-> IF d = c THEN Summary(program, c, order, memo) ELSE memo[d]]
  BY DEF Collect
<1>3. Staged'
  BY <1>1 DEF Sound, Staged
<1>4. PICK f \in Funcs : c = Component(analysis.edges, f)
  BY <1>1 DEF Sound, Staged, CallGraph
<1>5. \A d \in DOMAIN memo, access \in Accesses :
         CandidateUnion(memo[d].rows, access) = Effects(program, ReachOf(analysis.edges, d), access)
  BY DEF Sound, SummariesExact, Effects, ReachOf
<1>6. ASSUME NEW d \in DOMAIN memo', NEW access \in Accesses
      PROVE  CandidateUnion(memo'[d].rows, access) = Effects(program, ReachOf(analysis.edges, d), access)
  <2>1. CASE d = c
    <3>1. memo'[d] = Summary(program, c, order, memo)
      BY <1>2, <2>1
    <3>2. \A x \in Successors(analysis.edges, c) :
             CandidateUnion(memo[x].rows, access) = Effects(program, ReachOf(analysis.edges, x), access)
      BY <1>1, <1>5
    <3> DEFINE edges == analysis.edges
               known == memo
    <3> HIDE DEF edges, known
    <3>3. CandidateUnion(Summary(program, c, order, known).rows, access)
            = Effects(program, ReachOf(edges, c), access)
      BY <1>4, <3>2, CollectExact DEF edges, known
    <3>4. QED
      BY <2>1, <3>1, <3>3 DEF edges, known
  <2>2. CASE d # c
    <3>1. d \in DOMAIN memo /\ memo'[d] = memo[d]
      BY <1>2, <2>2
    <3>2. QED
      BY <1>5, <3>1
  <2>3. QED
    BY <2>1, <2>2
<1>7. SummariesExact'
  BY <1>1, <1>6 DEF SummariesExact, Effects, ReachOf
<1>8. QED
  BY <1>1, <1>3, <1>7 DEF Sound, StationaryHolds

\* Publishing starts the execution in code outside the module, with nothing written yet.
LEMMA PublishSound ==
    ASSUME NEW extra, Sound(extra), Publish
    PROVE  Sound(extra)'
<1>1. /\ phase = "summaries" /\ phase' = "run" /\ program' = program /\ analysis' = analysis
      /\ memo' = memo /\ dirty' = {} /\ stack' = <<Frame(Omega, Omega)>>
      /\ DOMAIN memo = analysis.sccs
      /\ plan' = [components |-> Components(program, analysis),
                  fields |-> ContextFields(program, analysis.edges)]
  BY DEF Publish, Outside, Sound, Staged
<1>2. Staged'
  BY <1>1 DEF Sound, Staged
<1>3. SummariesExact'
  BY <1>1 DEF Sound, SummariesExact
<1>4. StackSound(program, stack', extra)
  <2> DEFINE st == <<Frame(Omega, Omega)>>
  <2>1. /\ st \in Seq(Frames(program, extra)) /\ Len(st) = 1 /\ st[1].func = Omega
    BY DEF Frames, Frame
  <2> HIDE DEF st
  <2>2. ChainsReach(program, st)
    BY <2>1 DEF ChainsReach
  <2>3. CleanApart(program, st)
    <3>1. \A f \in Funcs : Connected(Edges(program), f) \subseteq Funcs
      BY ClosureInside DEF Connected
    <3>2. QED
      BY <2>1, <3>1, ProgramAssumption DEF CleanApart
  <2>4. StackSound(program, st, extra)
    BY <2>1, <2>2, <2>3 DEF StackSound
  <2>5. QED
    BY <1>1, <2>4 DEF st
<1>5. QED
  BY <1>1, <1>2, <1>3, <1>4 DEF Sound, StationaryHolds

\* While the module runs only the stack and what was written change.
LEMMA RunningSound ==
    ASSUME NEW extra, Sound(extra), Running, StackSound(program, stack', extra),
           dirty' \cap analysis.stationary = {}
    PROVE  Sound(extra)'
<1>1. /\ phase = "run" /\ phase' = phase /\ program' = program /\ analysis' = analysis
      /\ memo' = memo /\ plan' = plan
  BY DEF Running
<1>2. Staged' /\ SummariesExact'
  BY <1>1 DEF Sound, Staged, SummariesExact
<1>3. QED
  BY <1>1, <1>2 DEF Sound, StationaryHolds

\* What the stack looks like while the module runs.
LEMMA RunningStack ==
    ASSUME NEW extra, Sound(extra), phase = "run"
    PROVE  /\ Ready(program) /\ analysis = CallGraph(program) /\ StackSound(program, stack, extra)
           /\ Len(stack) \in 1..Len(stack) /\ Top \in Frames(program, extra)
           /\ Top.func \in Funcs \cup {Omega}
           /\ dirty \cap Stationary(program) = {}
<1>1. /\ Ready(program) /\ analysis = CallGraph(program) /\ StackSound(program, stack, extra)
      /\ dirty \cap analysis.stationary = {}
  BY DEF Sound, Staged, StationaryHolds
<1>2. /\ stack \in Seq(Frames(program, extra)) /\ Len(stack) \in 1..Len(stack)
  BY <1>1 DEF StackSound
<1>3. Top \in Frames(program, extra)
  BY <1>2 DEF Top
<1>4. QED
  BY <1>1, <1>2, <1>3 DEF Frames, CallGraph

\* A linked frame may be pushed.
LEMMA PushSound ==
    ASSUME NEW extra, Sound(extra), Running, NEW frame \in Frames(program, extra), Push(frame),
           Linked(program, Top, frame)
    PROVE  Sound(extra)'
<1>1. phase = "run" /\ stack' = Append(stack, frame) /\ dirty' = dirty
  BY DEF Running, Push
<1>2. StackSound(program, stack', extra)
  BY <1>1, RunningStack, StackPush DEF Top
<1>3. QED
  BY <1>1, <1>2, RunningSound DEF Sound, StationaryHolds

\* Code outside enters functions whose address it holds.
LEMMA EnterSound ==
    ASSUME NEW extra, Sound(extra), NEW f \in Funcs, Enter(f)
    PROVE  Sound(extra)'
<1>1. Running /\ phase = "run" /\ Top.func = Omega /\ f \in program.entered /\ Push(Frame(f, Omega))
  BY DEF Enter, Running
<1>2. Frame(f, Omega) \in Frames(program, extra)
  BY DEF Frame, Frames
<1>3. Linked(program, Top, Frame(f, Omega))
  BY <1>1, RunningStack DEF Linked, Frame, Ready
<1>4. QED
  BY <1>1, <1>2, <1>3, PushSound

\* A call goes where the published call graph says: the cell of a call sharpened to one target
\* was never written.
LEMMA LiveTargetsPublished ==
    ASSUME Ready(program), dirty \cap Stationary(program) = {}, NEW s \in DOMAIN program.site
    PROVE  LiveTargets(s) \subseteq Targets(program, s)
<1> DEFINE cell == program.site[s].cell
<1>1. cell # NoGlobal /\ program.holds[cell] # Omega => program.holds[cell] \in SolvedTargets(program, s)
  BY DEF Ready, SiteSound, SolvedTargets
<1>2. CASE StationaryCell(program, s)
  <2>1. cell \in Globals /\ program.holds[cell] # Omega /\ cell \notin dirty
    BY <1>2 DEF StationaryCell, Ready
  <2>2. LiveTargets(s) = {program.holds[cell]}
    BY <2>1, ProgramAssumption DEF LiveTargets
  <2>3. QED
    BY <1>2, <2>2 DEF Targets
<1>3. CASE ~StationaryCell(program, s)
  BY <1>1, <1>3 DEF LiveTargets, Targets
<1>4. QED
  BY <1>2, <1>3

\* A call keeps the stack, the accesses and the threads accounted for.
LEMMA CallSound ==
    ASSUME NEW extra, Sound(extra), NEW s \in DOMAIN program.site,
           NEW t \in Funcs \cup Declared \cup {Omega}, Call(s, t)
    PROVE  Sound(extra)'
<1> DEFINE frame == IF t \in Funcs THEN Frame(t, s) ELSE Outside(s)
<1>1. /\ Running /\ phase = "run" /\ Top.func = program.site[s].caller /\ t \in LiveTargets(s)
      /\ Push(frame)
  BY DEF Call, Running
<1>2. frame.site = s /\ frame.func = IF t \in Funcs THEN t ELSE Omega
  BY DEF Frame, Outside
<1>3. frame \in Frames(program, extra)
  BY DEF Frame, Frames, Outside
<1>4. t \in Targets(program, s)
  BY <1>1, RunningStack, LiveTargetsPublished
<1> HIDE DEF frame
<1>5. Linked(program, Top, frame)
  BY <1>1, <1>2, <1>4 DEF Linked
<1>6. QED
  BY <1>1, <1>3, <1>5, PushSound

\* A write of the module appears among its local rows, so what it writes is not stationary.
LEMMA WriteSound ==
    ASSUME NEW extra, Sound(extra), phase = "run", Top.func \in Funcs,
           NEW s \in program.body[Top.func], NEW g \in Globals, Write(s, g)
    PROVE  Sound(extra)'
<1>1. Running /\ g \in Touched(s, "mod") /\ dirty' = dirty \cup {g} /\ stack' = stack
  BY DEF Write
<1>2. PICK r \in LocalRows(program, Top.func) : r.access = "mod" /\ g \in r.scope
  BY <1>1, RunningStack, LocalRowsCover, ProgramAssumption
<1>3. r \in TargetedWriters(program, g)
  BY <1>2 DEF TargetedWriters, RowsOfModule
<1>4. g \notin Stationary(program)
  BY <1>3 DEF Stationary
<1>5. StackSound(program, stack', extra) /\ dirty' \cap analysis.stationary = {}
  BY <1>1, <1>4, RunningStack DEF CallGraph
<1>6. QED
  BY <1>1, <1>5, RunningSound

\* What code outside can name is external storage.
LEMMA WriteOutsideSound ==
    ASSUME NEW extra, Sound(extra), NEW g \in Globals, WriteOutside(g)
    PROVE  Sound(extra)'
<1>1. Running /\ phase = "run" /\ g \in program.exported /\ dirty' = dirty \cup {g} /\ stack' = stack
  BY DEF WriteOutside, Running
<1>2. g \notin Stationary(program)
  BY <1>1 DEF Stationary, ExternalStorage
<1>3. StackSound(program, stack', extra) /\ dirty' \cap analysis.stationary = {}
  BY <1>1, <1>2, RunningStack DEF CallGraph
<1>4. QED
  BY <1>1, <1>3, RunningSound

\* A return keeps them accounted for.
LEMMA ReturnSound ==
    ASSUME NEW extra, Sound(extra), Return
    PROVE  Sound(extra)'
<1>1. Running /\ phase = "run" /\ Len(stack) > 1 /\ stack' = Front(stack) /\ dirty' = dirty
  BY DEF Return, Running
<1>2. StackSound(program, stack', extra)
  BY <1>1, RunningStack, StackPop
<1>3. QED
  BY <1>1, <1>2, RunningSound DEF Sound, StationaryHolds

\* So does every step.
LEMMA NextSound ==
    ASSUME NEW extra, Sound(extra), [Next]_vars
    PROVE  Sound(extra)'
<1>1. CASE CertifyRoots
  BY <1>1, CertifySound
<1>2. CASE ResolveCalls
  BY <1>2, ResolveSound
<1>3. CASE \E c \in analysis.sccs : Collect(c)
  BY <1>3, CollectSound
<1>4. CASE Publish
  BY <1>4, PublishSound
<1>5. CASE \E f \in Funcs : Enter(f)
  BY <1>5, EnterSound
<1>6. CASE \E s \in DOMAIN program.site, t \in Funcs \cup Declared \cup {Omega} : Call(s, t)
  BY <1>6, CallSound
<1>7. CASE \E g \in Globals : WriteOutside(g)
  BY <1>7, WriteOutsideSound
<1>8. CASE phase = "run" /\ Top.func \in Funcs
             /\ \E s \in program.body[Top.func], g \in Globals : Write(s, g)
  BY <1>8, WriteSound
<1>9. CASE Return
  BY <1>9, ReturnSound
<1>10. CASE UNCHANGED vars
  BY <1>10 DEF vars, Sound, Staged, SummariesExact, StationaryHolds
<1>11. QED
  BY <1>1, <1>2, <1>3, <1>4, <1>5, <1>6, <1>7, <1>8, <1>9, <1>10 DEF Next

(***************************************************************************)
(* What a sound state says of the published plan                           *)
(***************************************************************************)

\* The statements running on top are covered by the summaries of the frames that lead to them.
LEMMA SoundAttributes ==
    ASSUME NEW extra, Sound(extra)
    PROVE  AccessesAttributed
<1> SUFFICES ASSUME phase = "run", Top.func \in Funcs,
                    NEW s \in program.body[Top.func], NEW access \in Accesses
             PROVE  /\ \A i \in DOMAIN stack :
                          (\A j \in i..Len(stack) : stack[j].func # Omega) => Covers(stack[i].func, s, access)
                    /\ Touched(s, access) \subseteq
                          UNION {e.targets : e \in {x \in Ledger(program, Top.func) :
                                                       x.access = access /\ x.line = s.line}}
  BY DEF AccessesAttributed
<1>1. /\ Ready(program) /\ analysis = CallGraph(program) /\ StackSound(program, stack, extra)
      /\ Len(stack) \in 1..Len(stack)
  BY RunningStack
<1>2. DOMAIN memo = {Component(Edges(program), f) : f \in Funcs} /\ analysis.edges = Edges(program)
  BY <1>1 DEF Sound, Staged, CallGraph
<1>3. \A g \in Touched(s, access) : g # NoGlobal
  BY <1>1, TouchedGlobals
<1>4. ASSUME NEW i \in DOMAIN stack, \A j \in i..Len(stack) : stack[j].func # Omega
      PROVE  Covers(stack[i].func, s, access)
  <2>1. i \in 1..Len(stack) /\ i \in i..Len(stack) /\ stack[i] \in Frames(program, extra)
    BY <1>1 DEF StackSound
  <2>2. stack[i].func \in Funcs
    BY <1>4, <2>1 DEF Frames
  <2>3. Top.func \in Reachable(Edges(program), stack[i].func)
    BY <1>1, <1>4, <2>1 DEF StackSound, ChainsReach, Top
  <2> DEFINE c == Component(Edges(program), stack[i].func)
  <2>4. /\ c \in DOMAIN memo /\ stack[i].func \in c
        /\ ReachOf(Edges(program), c) = Reachable(Edges(program), stack[i].func)
    BY <1>2, <2>2, ComponentReach
  <2> HIDE DEF c
  <2>5. CandidateUnion(memo[c].rows, access) = Effects(program, ReachOf(Edges(program), c), access)
    BY <1>2, <2>4 DEF Sound, SummariesExact, Effects, ReachOf
  <2>6. ASSUME NEW g \in Touched(s, access)
        PROVE  g \in CandidateUnion(memo[c].rows, access)
    <3>1. PICK r \in LocalRows(program, Top.func) : r.access = access /\ g \in r.scope
      BY <1>1, <1>3, LocalRowsCover
    <3>2. g \in CandidateUnion(LocalRows(program, Top.func), access)
      BY <3>1, RowCandidate
    <3>3. g \in Effects(program, ReachOf(Edges(program), c), access)
      BY <2>3, <2>4, <3>2, EffectsMember
    <3>4. QED
      BY <2>5, <3>3
  <2>7. QED
    BY <2>4, <2>6 DEF Covers
<1>5. ASSUME NEW g \in Touched(s, access)
      PROVE  \E e \in Ledger(program, Top.func) : e.access = access /\ e.line = s.line /\ g \in e.targets
  BY <1>1, <1>3, LedgerCovers
<1>6. QED
  BY <1>4, <1>5

\* An edge was published for a call site, from the function the site is in.
LEMMA EdgeOfSite ==
    ASSUME NEW p, Ready(p), NEW e \in Edges(p)
    PROVE  e[2] \in DOMAIN p.site /\ e[1] = p.site[e[2]].caller /\ e[1] \in Funcs
BY DEF Edges, Ready, SiteSound

\* The functions to rewrite are closed under callers and under what one call site may reach.
LEMMA RewriteClosed ==
    ASSUME NEW edges, NEW roots \in SUBSET Funcs, NEW e \in edges,
           e[3] \in RewriteClosure(edges, roots)
    PROVE  /\ e[1] \in Funcs => e[1] \in RewriteClosure(edges, roots)
           /\ \A x \in edges : x[2] = e[2] /\ x[3] \in Funcs => x[3] \in RewriteClosure(edges, roots)
<1>1. e \in Internal(edges)
  BY ClosureInside DEF RewriteClosure, Internal
<1>2. <<e[3], e[1]>> \in CallerPairs(edges)
  BY <1>1 DEF CallerPairs
<1>3. ASSUME NEW x \in edges, x[2] = e[2], x[3] \in Funcs
      PROVE  <<e[3], x[3]>> \in SitePairs(edges)
  <2>1. x \in Internal(edges)
    BY <1>3 DEF Internal
  <2> DEFINE q == <<e, x>>
  <2>2. q \in Internal(edges) \X Internal(edges) /\ q[1] = e /\ q[2] = x
    BY <1>1, <2>1
  <2> HIDE DEF q
  <2>3. QED
    BY <1>3, <2>2 DEF SitePairs
<1>4. QED
  BY <1>2, <1>3, ClosureStep DEF RewriteClosure

\* A field nothing blocks is held by whoever names the global, and passed by whoever calls them.
LEMMA SoundThreads ==
    ASSUME NEW extra, Sound(extra)
    PROVE  ContextThreaded
<1> SUFFICES ASSUME NEW c \in plan.fields, ~c.blocked, NEW i \in 2..Len(stack)
             PROVE  LET callee == stack[i].func  s == stack[i].site IN
                    /\ callee \in c.functions => s \in c.sites \/ (s = Omega /\ callee = Main)
                    /\ s \in c.sites => /\ stack[i - 1].func \in c.functions
                                       /\ callee \in c.functions \cup {Omega}
                    /\ callee \in c.accessors => callee \in c.functions
  BY DEF ContextThreaded
<1>1. phase = "run"
  BY DEF Sound, Staged
<1>2. /\ Ready(program) /\ analysis = CallGraph(program) /\ StackSound(program, stack, extra)
  BY <1>1, RunningStack
<1> DEFINE edges == Edges(program)
           below == stack[i - 1]
           frame == stack[i]
<1>3. plan.fields = ContextFields(program, edges)
  BY <1>1, <1>2 DEF Sound, Staged, CallGraph
<1>4. PICK g : c = ContextField(program, edges, g)
  BY <1>3 DEF ContextFields
<1> DEFINE roots == RewriteRoots(program, g)
           fs == RewriteClosure(edges, roots)
<1>5. /\ c.accessors = roots /\ c.functions = fs /\ c.sites = SitesInto(edges, fs)
      /\ c.blocked = Blocked(program, edges, g, fs)
  BY <1>4 DEF ContextField
<1>6. roots \in SUBSET Funcs /\ roots \subseteq fs /\ fs \subseteq Funcs
  BY ClosureSeed, ClosureInside DEF RewriteRoots, RewriteClosure
<1>7. Linked(program, below, frame)
  BY <1>2 DEF StackSound
<1> HIDE DEF below, frame, roots, edges
<1>8. ASSUME frame.func \in fs
      PROVE  frame.site \in SitesInto(edges, fs) \/ (frame.site = Omega /\ frame.func = Main)
  <2>1. CASE frame.site \in DOMAIN program.site
    <3>1. PICK t : /\ <<below.func, frame.site, t>> \in edges
                   /\ frame.func = IF t \in Funcs THEN t ELSE Omega
      BY <1>7, <2>1, LinkedEdge DEF edges
    <3>2. t \in Funcs /\ t \in fs
      BY <1>6, <1>8, <3>1, ProgramAssumption
    <3>3. QED
      BY <3>1, <3>2 DEF SitesInto, Internal
  <2>2. CASE frame.site \notin DOMAIN program.site
    <3>1. frame.site = Omega /\ frame.func \in program.entered
      BY <1>6, <1>7, <1>8, <2>2, ProgramAssumption DEF Linked
    <3>2. fs \cap (program.entered \ {Main}) = {}
      BY <1>5 DEF Blocked
    <3>3. QED
      BY <1>8, <3>1, <3>2
  <2>3. QED
    BY <2>1, <2>2
<1>9. ASSUME frame.site \in SitesInto(edges, fs)
      PROVE  below.func \in fs /\ frame.func \in fs \cup {Omega}
  <2>1. PICK e \in edges : e[2] = frame.site /\ e[3] \in fs
    BY <1>9 DEF SitesInto, Internal
  <2>2. frame.site \in DOMAIN program.site /\ e[1] = program.site[frame.site].caller /\ e[1] \in Funcs
    BY <1>2, <2>1, EdgeOfSite DEF edges
  <2>3. below.func = e[1]
    BY <1>7, <2>2 DEF Linked
  <2>4. PICK t : /\ <<below.func, frame.site, t>> \in edges
                 /\ frame.func = IF t \in Funcs THEN t ELSE Omega
    BY <1>7, <2>2, LinkedEdge DEF edges
  <2> DEFINE x == <<below.func, frame.site, t>>
  <2>5. x \in edges /\ x[2] = e[2] /\ x[3] = t
    BY <2>1, <2>4
  <2> HIDE DEF x
  <2>6. t \in Funcs => t \in fs
    BY <1>6, <2>1, <2>5, RewriteClosed
  <2>7. e[1] \in fs
    BY <1>6, <2>1, <2>2, RewriteClosed
  <2>8. QED
    BY <2>3, <2>4, <2>6, <2>7
<1>10. QED
  BY <1>5, <1>6, <1>8, <1>9 DEF below, frame

\* No frame runs a function of a component published as clean.
LEMMA SoundCloses ==
    ASSUME NEW extra, Sound(extra)
    PROVE  CleanComponentsClosed
<1> SUFFICES ASSUME NEW c \in plan.components, ~c.frozen, NEW i \in DOMAIN stack
             PROVE  stack[i].func \notin c.members
  BY DEF CleanComponentsClosed
<1>1. phase = "run"
  BY DEF Sound, Staged
<1>2. /\ analysis = CallGraph(program) /\ StackSound(program, stack, extra)
  BY <1>1, RunningStack
<1>3. plan.components = Components(program, analysis) /\ analysis.edges = Edges(program)
  BY <1>1, <1>2 DEF Sound, Staged, CallGraph
<1> DEFINE some(m) == \E x \in m : Tainted(program, analysis.edges, x)
           Shown(m) == {r.target : r \in UNION {LocalRows(program, f) : f \in m}}
                          \cap (program.mutable \ analysis.stationary)
           sets == {Connected(analysis.edges, f) : f \in Funcs}
<1>4. plan.components = {[members |-> m, mutable |-> Shown(m), frozen |-> some(m)] : m \in sets}
  BY <1>3, Zenon DEF Components
<1> HIDE DEF Shown, some
<1>5. c.members \in sets /\ ~some(c.members)
  BY <1>4
<1>6. PICK f \in Funcs : /\ c.members = Connected(Edges(program), f)
                         /\ \A x \in Connected(Edges(program), f) : ~Tainted(program, Edges(program), x)
  BY <1>3, <1>5 DEF some
<1>7. i \in 1..Len(stack)
  BY <1>2 DEF StackSound
<1>8. QED
  BY <1>2, <1>6, <1>7 DEF StackSound, CleanApart

(***************************************************************************)
(* Theorems                                                                *)
(***************************************************************************)

\* Every reachable state is sound: the stages leave what the later ones read, the summaries are
\* exact, and the stack is a path of calls the published graph lists.
THEOREM EffectsSound == Spec => []Sound({})
<1>1. Init => Sound({})
  BY SoundInit
<1>2. Sound({}) /\ [Next]_vars => Sound({})'
  BY NextSound
<1>3. QED
  BY <1>1, <1>2, PTL DEF Spec

\* A published summary says exactly what the functions its component reaches do, whatever was
\* collapsed on the way and in whatever order (component_summary, merge_successor).
THEOREM EffectsExact == Spec => []SummariesExact
<1>1. Sound({}) => SummariesExact
  BY DEF Sound
<1>2. QED
  BY <1>1, EffectsSound, PTL

\* No execution writes a global published as stationary (stationary_globals).
THEOREM EffectsStationary == Spec => []StationaryHolds
<1>1. Sound({}) => StationaryHolds
  BY DEF Sound
<1>2. QED
  BY <1>1, EffectsSound, PTL

\* No access of a running statement escapes the summaries or the ledger.
THEOREM EffectsAttributed == Spec => []AccessesAttributed
<1>1. Sound({}) => AccessesAttributed
  BY SoundAttributes
<1>2. QED
  BY <1>1, EffectsSound, PTL

\* A context field nothing blocks reaches every function that needs it, through every call.
THEOREM EffectsThreaded == Spec => []ContextThreaded
<1>1. Sound({}) => ContextThreaded
  BY SoundThreads
<1>2. QED
  BY <1>1, EffectsSound, PTL

\* No execution that starts outside the module runs a function of a clean component.
THEOREM EffectsClosed == Spec => []CleanComponentsClosed
<1>1. Sound({}) => CleanComponentsClosed
  BY SoundCloses
<1>2. QED
  BY <1>1, EffectsSound, PTL

(***************************************************************************)
(* Clients: rows, ledger and accessors                                     *)
(***************************************************************************)

\* A row names one global or none.
LEMMA RowNames ==
    ASSUME NEW p, NEW f, NEW r \in LocalRows(p, f)
    PROVE  r.target = Omega \/ r.scope = {r.target}
<1>1. PICK s \in p.body[f] : r \in StatementRows(p, s)
  BY DEF LocalRows
<1>2. \A access, g, via : Named(access, g, via).scope = {Named(access, g, via).target}
  BY DEF Named, Row
<1>3. \A access, scope, from : Unknown(access, scope, from).target = Omega
  BY DEF Unknown, Row
<1>4. ASSUME NEW q, r \in PointerRows(p, q)
      PROVE  r.target = Omega \/ r.scope = {r.target}
  <2>1. r = FallbackRow(p, q) \/ r \in NamedRows(p, q) \/ r \in ExternalRow(p, q)
    BY <1>4 DEF PointerRows
  <2>2. CASE r = FallbackRow(p, q)
    BY <1>3, <2>2 DEF FallbackRow
  <2>3. CASE r \in NamedRows(p, q)
    BY <2>3 DEF NamedRows, Named, Row
  <2>4. CASE r \in ExternalRow(p, q)
    BY <2>4 DEF ExternalRow, Unknown, Row
  <2>5. QED
    BY <2>1, <2>2, <2>3, <2>4
<1>5. CASE r \in DirectRows(p, s)
  BY <1>2, <1>5 DEF DirectRows
<1>6. CASE r \in ConstantOperandRows(p, s)
  BY <1>2, <1>6 DEF ConstantOperandRows
<1>7. CASE r \in FillRows(p, s)
  <2> DEFINE q == Request("mod", s.at, FALSE, TRUE, s.line)
  <2>1. r = Named("mod", FillTarget(p, s), "aliased") \/ r \in PointerRows(p, q)
    BY <1>7 DEF FillRows, When
  <2> HIDE DEF q
  <2>2. QED
    BY <1>2, <1>4, <2>1
<1>8. CASE \E q \in EdgeAccesses(s) : r \in RequestRows(p, q)
  BY <1>2, <1>4, <1>8 DEF RequestRows
<1>9. QED
  BY <1>1, <1>5, <1>6, <1>7, <1>8 DEF StatementRows

\* What an address that was not narrowed to a root may reach is told by its rows.
LEMMA PointerRowsTell ==
    ASSUME NEW p, Ready(p), NEW q, q.node \in DOMAIN p.node,
           NEW x \in NodeIds(p, q.node) \ Suppressed(p, q), ~q.copies \/ Suppressed(p, q) = {}
    PROVE  \E r \in PointerRows(p, q) : r.access = q.access /\ x \in r.scope
<1>1. FallbackRow(p, q).access = q.access /\ x \in FallbackRow(p, q).scope
  BY DEF FallbackRow, Unknown, Row
<1>2. CASE Cardinality(Kept(p, q)) > FanoutLimit
  BY <1>1, <1>2 DEF PointerRows
<1>3. CASE ~(Cardinality(Kept(p, q)) > FanoutLimit)
  <2>1. CASE p.node[q.node].external
    <3> DEFINE r == Unknown(q.access, NodeIds(p, q.node), <<q.node>>)
    <3>1. r \in PointerRows(p, q)
      BY <1>3, <2>1 DEF PointerRows, ExternalRow
    <3>2. r.access = q.access /\ x \in r.scope
      BY DEF Unknown, Row
    <3>3. QED
      BY <3>1, <3>2
  <2>2. CASE ~p.node[q.node].external
    <3>1. x \in Kept(p, q)
      BY <2>2 DEF Ready, NodeReady, NodeIds, Kept
    <3> DEFINE r == Named(q.access, x, "aliased")
    <3>2. r \in PointerRows(p, q)
      BY <1>3, <3>1 DEF PointerRows, NamedRows
    <3>3. r.access = q.access /\ x \in r.scope
      BY DEF Named, Row
    <3>4. QED
      BY <3>2, <3>3
  <2>3. QED
    BY <2>1, <2>2
<1>4. QED
  BY <1>2, <1>3

\* A line of the ledger lists only what a local row of the function says as well.
LEMMA LedgerInRows ==
    ASSUME NEW p, Ready(p), NEW f \in Funcs, NEW e \in Ledger(p, f), NEW x \in e.targets
    PROVE  \E r \in LocalRows(p, f) : r.access = e.access /\ x \in r.scope
<1>1. PICK d \in Listed(p, f) : d.access = e.access /\ x \in d.targets
  BY DEF Ledger, Entry
<1>2. PICK s \in p.body[f] : d \in StatementEntries(p, s)
  BY <1>1 DEF Listed
<1>3. /\ s.op \in Operations /\ s.at \in DOMAIN p.node
      /\ s.op = "copy" => s.from \in DOMAIN p.node
  BY DEF Ready, BodySound
<1> SUFFICES \E r \in StatementRows(p, s) : r.access = d.access /\ x \in r.scope
  BY <1>1 DEF LocalRows
<1>4. CASE \E row \in DirectRows(p, s) \cup ConstantOperandRows(p, s) :
             d = Entry(row.access, row.from[1], s.line, TRUE, row.scope)
  BY <1>1, <1>4 DEF StatementRows, Entry
<1>5. CASE d \in FillEntries(p, s)
  <2>1. s.op = "fill"
    BY <1>5 DEF FillEntries, When
  <2>2. CASE FillTarget(p, s) # NoGlobal
    <3>1. d.access = "mod" /\ x = FillTarget(p, s)
      BY <1>1, <1>5, <2>2 DEF FillEntries, When, Entry
    <3> DEFINE r == Named("mod", FillTarget(p, s), "aliased")
    <3>2. r \in FillRows(p, s) /\ r.access = "mod" /\ x \in r.scope
      BY <2>1, <2>2, <3>1 DEF FillRows, When, Named, Row
    <3>3. QED
      BY <3>1, <3>2 DEF StatementRows
  <2>3. CASE FillTarget(p, s) = NoGlobal
    <3> DEFINE q == Request("mod", s.at, FALSE, TRUE, s.line)
    <3>1. d.access = "mod" /\ x \in NodeIds(p, s.at)
      BY <1>1, <1>5, <2>3 DEF FillEntries, When, Entry
    <3>2. q.node = s.at /\ q.access = "mod" /\ Suppressed(p, q) = {}
      BY DEF Request, Suppressed
    <3>3. PointerRows(p, q) \subseteq FillRows(p, s)
      BY <2>1, <2>3 DEF FillRows, When
    <3> HIDE DEF q
    <3>4. PICK r \in PointerRows(p, q) : r.access = "mod" /\ x \in r.scope
      BY <1>3, <3>1, <3>2, PointerRowsTell
    <3>5. QED
      BY <3>1, <3>3, <3>4 DEF StatementRows
  <2>4. QED
    BY <2>2, <2>3
<1>6. CASE \E q \in EdgeAccesses(s) : d \in RequestEntries(p, q)
  <2>1. PICK q \in EdgeAccesses(s) : d \in RequestEntries(p, q)
    BY <1>6
  <2>2. q.node \in DOMAIN p.node /\ (~q.copies \/ Suppressed(p, q) = {})
    BY <1>3 DEF EdgeAccesses, When, Request, Suppressed
  <2>3. ~LocalRooted(p, q) /\ ~SymbolRooted(p, q)
    BY <2>1 DEF RequestEntries
  <2>4. CASE GlobalRooted(p, q)
    <3>1. d.access = q.access /\ x = p.node[q.node].root
      BY <1>1, <2>1, <2>3, <2>4 DEF RequestEntries, Entry
    <3> DEFINE r == Named(q.access, p.node[q.node].root, "aliased")
    <3>2. r \in RequestRows(p, q) /\ r.access = q.access /\ x \in r.scope
      BY <2>3, <2>4, <3>1 DEF RequestRows, Named, Row
    <3>3. QED
      BY <2>1, <3>1, <3>2 DEF StatementRows
  <2>5. CASE ~GlobalRooted(p, q)
    <3>1. d.access = q.access /\ x \in NodeIds(p, q.node) \ Suppressed(p, q)
      BY <1>1, <2>1, <2>3, <2>5 DEF RequestEntries, Entry
    <3>2. PICK r \in PointerRows(p, q) : r.access = q.access /\ x \in r.scope
      BY <2>2, <3>1, PointerRowsTell
    <3>3. r \in RequestRows(p, q)
      BY <2>3, <2>5, <3>2 DEF RequestRows
    <3>4. QED
      BY <2>1, <3>1, <3>2, <3>3 DEF StatementRows
  <2>6. QED
    BY <2>4, <2>5
<1>7. QED
  BY <1>2, <1>4, <1>5, <1>6 DEF StatementEntries

(***************************************************************************)
(* Records of globals and the storage folded into them                     *)
(***************************************************************************)

\* A finite set can be put in an order that names each member.
LEMMA SetToSeqNamesAll ==
    ASSUME NEW S, IsFiniteSet(S)
    PROVE  /\ Len(SetToSeq(S)) \in Nat
           /\ \A x \in S : \E i \in 1..Len(SetToSeq(S)) : SetToSeq(S)[i] = x
<1> DEFINE n == Cardinality(S)
           order == SetToSeq(S)
<1>1. n \in Nat /\ ExistsBijection(1..n, S)
  BY FS_CardinalityType
<1>2. \E o \in [1..n -> S] : IsInjective(o)
  <2>1. PICK o \in Bijection(1..n, S) : TRUE
    BY <1>1 DEF ExistsBijection
  <2>2. o \in [1..n -> S] /\ IsInjective(o)
    BY <2>1 DEF Bijection, Injection, IsInjective
  <2>3. QED
    BY <2>2
<1>3. order \in [1..n -> S] /\ IsInjective(order)
  BY <1>2 DEF SetToSeq
<1> HIDE DEF n, order
<1>4. Len(order) = n
  BY <1>1, <1>3
<1>5. order \in Injection(1..n, S)
  BY <1>3 DEF Injection, IsInjective
<1>6. Cardinality(1..n) = n
  BY <1>1, FS_Interval
<1>7. order \in Surjection(1..n, S)
  BY <1>1, <1>5, <1>6, FS_Injection DEF n
<1>8. QED
  BY <1>1, <1>4, <1>7 DEF Surjection, order

\* What a record says of writes, threads and handlers, the folded record says too.
Carries(fact, of) ==
    /\ of.written => fact.written
    /\ of.thread => fact.thread
    /\ of.signal => fact.signal

\* Folding a member into its owner carries what either of them carried.
LEMMA FoldCarries ==
    ASSUME NEW owner, NEW member
    PROVE  /\ Carries(FoldStorageMember(owner, member), member)
           /\ Carries(FoldStorageMember(owner, member), owner)
BY DEF Carries, FoldStorageMember

\* h folds the records of the members in order, up to the n-th.
Folds(h, p, g, members, n) ==
    h = [i \in 0..n |-> IF i = 0 THEN GlobalFacts(p, g)
                        ELSE FoldStorageMember(h[i - 1], GlobalFacts(p, members[i]))]

\* The fold over any number of members is defined.
LEMMA FoldsExist ==
    ASSUME NEW p, NEW g, NEW members, NEW n \in Nat
    PROVE  \E h : Folds(h, p, g, members, n)
<1> DEFINE S == {k \in Nat : \E h : Folds(h, p, g, members, k)}
<1>1. 0 \in S
  <2> DEFINE h == [i \in 0..0 |-> GlobalFacts(p, g)]
  <2>1. Folds(h, p, g, members, 0)
    BY DEF Folds
  <2>2. QED
    BY <2>1, Zenon
<1>2. ASSUME NEW k \in Nat, k \in S
      PROVE  k + 1 \in S
  <2>1. PICK h : Folds(h, p, g, members, k)
    BY <1>2
  <2> DEFINE w == [i \in 0..(k + 1) |->
                     IF i = k + 1 THEN FoldStorageMember(h[k], GlobalFacts(p, members[k + 1])) ELSE h[i]]
  <2>2. ASSUME NEW i \in 0..(k + 1)
        PROVE  w[i] = IF i = 0 THEN GlobalFacts(p, g)
                      ELSE FoldStorageMember(w[i - 1], GlobalFacts(p, members[i]))
    <3>1. CASE i = k + 1
      <4>1. w[k + 1] = FoldStorageMember(h[k], GlobalFacts(p, members[k + 1])) /\ w[k] = h[k]
        OBVIOUS
      <4>2. QED
        BY <3>1, <4>1
    <3>2. CASE i # k + 1
      <4>1. i \in 0..k /\ w[i] = h[i]
        BY <3>2
      <4>2. h[i] = IF i = 0 THEN GlobalFacts(p, g)
                   ELSE FoldStorageMember(h[i - 1], GlobalFacts(p, members[i]))
        BY <2>1, <4>1 DEF Folds
      <4>3. i # 0 => w[i - 1] = h[i - 1]
        BY <4>1
      <4>4. QED
        BY <4>1, <4>2, <4>3
    <3>3. QED
      BY <3>1, <3>2
  <2>3. w = [i \in 0..(k + 1) |-> w[i]]
    OBVIOUS
  <2> HIDE DEF w
  <2>4. Folds(w, p, g, members, k + 1)
    BY <2>2, <2>3, Zenon DEF Folds
  <2>5. QED
    BY <2>4
<1> HIDE DEF S
<1>3. n \in S
  BY <1>1, <1>2, NaturalsBySuccessor
<1>4. QED
  BY <1>3 DEF S

\* The record of a global is the last of a running fold.
LEMMA FoldedFolds ==
    ASSUME NEW p, NEW g, NEW members, Len(members) \in Nat
    PROVE  \E h : /\ Folds(h, p, g, members, Len(members))
                  /\ FoldedFacts(p, g, members) = h[Len(members)]
<1> DEFINE h == CHOOSE m : m = [i \in 0..Len(members) |->
                                  IF i = 0 THEN GlobalFacts(p, g)
                                  ELSE FoldStorageMember(m[i - 1], GlobalFacts(p, members[i]))]
<1>1. FoldedFacts(p, g, members) = h[Len(members)]
  BY Zenon DEF FoldedFacts
<1>2. \E m : m = [i \in 0..Len(members) |->
                    IF i = 0 THEN GlobalFacts(p, g)
                    ELSE FoldStorageMember(m[i - 1], GlobalFacts(p, members[i]))]
  <2>1. \E m : Folds(m, p, g, members, Len(members))
    BY FoldsExist
  <2>2. QED
    BY <2>1, Zenon DEF Folds
<1>3. h = [i \in 0..Len(members) |->
             IF i = 0 THEN GlobalFacts(p, g) ELSE FoldStorageMember(h[i - 1], GlobalFacts(p, members[i]))]
  BY <1>2, Zenon
<1>4. Folds(h, p, g, members, Len(members))
  BY <1>3, Zenon DEF Folds
<1>5. QED
  BY <1>1, <1>4, Zenon

\* The record of a global carries what is said of it and of each literal folded into it.
LEMMA FoldedCarries ==
    ASSUME NEW p, NEW g, NEW members, Len(members) \in Nat
    PROVE  /\ Carries(FoldedFacts(p, g, members), GlobalFacts(p, g))
           /\ \A i \in 1..Len(members) : Carries(FoldedFacts(p, g, members), GlobalFacts(p, members[i]))
<1>1. PICK h : Folds(h, p, g, members, Len(members)) /\ FoldedFacts(p, g, members) = h[Len(members)]
  BY FoldedFolds, Zenon
<1> DEFINE Upto(k) == /\ Carries(h[k], GlobalFacts(p, g))
                      /\ \A i \in 1..k : Carries(h[k], GlobalFacts(p, members[i]))
           S == {k \in Nat : k <= Len(members) => Upto(k)}
<1>2. 0 \in S
  <2>1. h[0] = GlobalFacts(p, g)
    BY <1>1 DEF Folds
  <2>2. QED
    BY <2>1 DEF Carries
<1>3. ASSUME NEW k \in Nat, k \in S
      PROVE  k + 1 \in S
  <2> SUFFICES ASSUME k + 1 <= Len(members)
               PROVE  Upto(k + 1)
    OBVIOUS
  <2>1. Upto(k)
    BY <1>3
  <2>2. h[k + 1] = FoldStorageMember(h[k], GlobalFacts(p, members[k + 1]))
    <3>1. k + 1 \in 0..Len(members) /\ k + 1 # 0 /\ (k + 1) - 1 = k
      OBVIOUS
    <3>2. \A i \in 0..Len(members) :
             h[i] = IF i = 0 THEN GlobalFacts(p, g)
                    ELSE FoldStorageMember(h[i - 1], GlobalFacts(p, members[i]))
      BY <1>1 DEF Folds
    <3>3. QED
      BY <3>1, <3>2
  <2>3. Carries(h[k + 1], GlobalFacts(p, members[k + 1])) /\ Carries(h[k + 1], h[k])
    BY <2>2, FoldCarries
  <2>4. \A x : Carries(h[k], x) => Carries(h[k + 1], x)
    BY <2>3 DEF Carries
  <2>5. ASSUME NEW i \in 1..(k + 1)
        PROVE  Carries(h[k + 1], GlobalFacts(p, members[i]))
    <3>1. CASE i = k + 1
      BY <2>3, <3>1
    <3>2. CASE i # k + 1
      <4>1. i \in 1..k
        BY <3>2
      <4>2. QED
        BY <2>1, <2>4, <4>1
    <3>3. QED
      BY <3>1, <3>2
  <2>6. QED
    BY <2>1, <2>4, <2>5
<1> HIDE DEF S
<1>4. Len(members) \in S
  BY <1>2, <1>3, NaturalsBySuccessor
<1>5. QED
  BY <1>1, <1>4 DEF S

(***************************************************************************)
(* What the published records and locks say                                *)
(***************************************************************************)

\* A registration the analysis kept may run the function.
MayRun(p, kind, f) ==
    \E s \in DOMAIN p.registry : \E r \in Resolved(p, s) : r.kind = kind /\ f \in RegistryEntries(p, r)

\* Code such a registration runs, or what it calls, may touch the global.
Marked(p, kind, x) ==
    \E f \in Funcs : /\ MayRun(p, kind, f)
                     /\ \E h \in Reachable(Edges(p), f), access \in Accesses :
                           x \in CandidateUnion(LocalRows(p, h), access)

FactsSay(p, facts) ==
    /\ DOMAIN facts = Subjects(p)
    /\ \A g \in Subjects(p) : \A x \in StorageClosure(p, g) :
          /\ x \in Written(p) \cup p.exported => facts[g].written
          /\ Marked(p, Spawn, x) => facts[g].thread
          /\ Marked(p, Signal, x) => facts[g].signal

\* Nobody who takes the lock can be called by another who does, or lose control to code that is
\* not known; whoever touches what the lock guards takes it, and no handler does.
LockSays(p, lock) ==
    /\ lock.accessors \subseteq Funcs
    /\ ~AccessorPath(Edges(p), lock.accessors)
    /\ ~UnknownCalleePath(Edges(p), lock.accessors)
    /\ \A f \in Funcs : \A e \in Ledger(p, f) : e.targets \cap lock.guards # {} => f \in lock.accessors
    /\ \A f \in lock.accessors : \E e \in Ledger(p, f) : \E x \in e.targets : ~Marked(p, Signal, x)

\* Sets of rows the summaries cover are found by the registry.
LEMMA MarkedAccess ==
    ASSUME NEW extra, Sound(extra), phase = "summaries", DOMAIN memo = analysis.sccs,
           NEW kind, NEW x, Marked(program, kind, x)
    PROVE  x \in RegistryAccess(program, kind)
<1>1. PICK f \in Funcs : /\ MayRun(program, kind, f)
                         /\ \E h \in Reachable(Edges(program), f), access \in Accesses :
                               x \in CandidateUnion(LocalRows(program, h), access)
  BY DEF Marked
<1>2. PICK h \in Reachable(Edges(program), f), access \in Accesses :
         x \in CandidateUnion(LocalRows(program, h), access)
  BY <1>1
<1>3. analysis = CallGraph(program)
  BY DEF Sound, Staged
<1> DEFINE c == Component(Edges(program), f)
<1>4. c \in DOMAIN memo /\ ReachOf(Edges(program), c) = Reachable(Edges(program), f)
  BY <1>3, ComponentReach DEF CallGraph
<1> HIDE DEF c
<1>5. CandidateUnion(memo[c].rows, access) = Effects(program, ReachOf(Edges(program), c), access)
  BY <1>3, <1>4 DEF Sound, SummariesExact, Effects, ReachOf, CallGraph
<1>6. x \in CandidateUnion(memo[c].rows, access)
  BY <1>2, <1>4, <1>5, EffectsMember
<1>7. x \in TransitiveAccesses(f)
  BY <1>3, <1>6 DEF TransitiveAccesses, CallGraph, c
<1>8. PICK s \in DOMAIN program.registry : \E r \in Resolved(program, s) :
         r.kind = kind /\ f \in RegistryEntries(program, r)
  BY <1>1 DEF MayRun
<1>9. QED
  BY <1>7, <1>8 DEF RegistryAccess

\* The records say of a global what holds of it or of a literal folded into it.
LEMMA FactsSaid ==
    ASSUME NEW extra, Sound(extra), phase = "summaries", DOMAIN memo = analysis.sccs, ClientSound(program)
    PROVE  FactsSay(program, Facts(program))
<1>1. ASSUME NEW g \in Subjects(program), NEW x \in StorageClosure(program, g)
      PROVE  Carries(Facts(program)[g], GlobalFacts(program, x))
  <2> DEFINE S == StorageMembers(program, g)
             order == SetToSeq(S)
  <2>1. IsFiniteSet(S)
    BY ClientAssumption, FS_Subset DEF StorageMembers, ClientSound
  <2>2. Len(order) \in Nat /\ \A l \in S : \E i \in 1..Len(order) : order[i] = l
    BY <2>1, SetToSeqNamesAll
  <2>3. Facts(program)[g] = FoldedFacts(program, g, order)
    BY DEF Facts
  <2>4. x = g \/ x \in S
    BY DEF StorageClosure
  <2> HIDE DEF S, order
  <2>5. QED
    BY <2>2, <2>3, <2>4, FoldedCarries
<1>2. \A x : /\ x \in Written(program) \cup program.exported => GlobalFacts(program, x).written
             /\ x \in RegistryAccess(program, Spawn) => GlobalFacts(program, x).thread
             /\ x \in RegistryAccess(program, Signal) => GlobalFacts(program, x).signal
  BY DEF GlobalFacts
<1>3. DOMAIN Facts(program) = Subjects(program)
  BY DEF Facts
<1>4. QED
  BY <1>1, <1>2, <1>3, MarkedAccess DEF FactsSay, Carries

\* A lock is published only with the evidence that it can be taken.
LEMMA LocksSay ==
    ASSUME NEW p, NEW facts, FactsSay(p, facts), analysis.edges = Edges(p), NEW lock \in Locks(p, facts)
    PROVE  LockSays(p, lock)
<1>1. ASSUME NEW g \in DOMAIN facts, MutexCertified(p, facts, g), NEW f \in Accessors(p, g)
      PROVE  \E e \in Ledger(p, f) : \E x \in e.targets : ~Marked(p, Signal, x)
  <2>1. PICK e \in Ledger(p, f) : StorageClosure(p, g) \cap e.targets # {}
    BY DEF Accessors
  <2>2. PICK x \in StorageClosure(p, g) : x \in e.targets
    BY <2>1
  <2>3. ~facts[g].signal
    BY <1>1 DEF MutexCertified, MutexCoarseEligible
  <2>4. QED
    BY <2>1, <2>2, <2>3 DEF FactsSay
<1>2. ASSUME NEW g, NEW f \in Funcs, NEW e \in Ledger(p, f), NEW x \in e.targets, x \in StorageClosure(p, g)
      PROVE  f \in Accessors(p, g)
  BY <1>2 DEF Accessors
<1>3. CASE \E g \in DOMAIN facts : /\ MutexCertified(p, facts, g)
                                   /\ lock = [guards |-> StorageClosure(p, g), accessors |-> Accessors(p, g)]
  <2>1. PICK g \in DOMAIN facts : /\ MutexCertified(p, facts, g)
                                  /\ lock.guards = StorageClosure(p, g) /\ lock.accessors = Accessors(p, g)
    BY <1>3
  <2>2. Accessors(p, g) \subseteq Funcs
    BY DEF Accessors
  <2>3. ~AccessorPath(Edges(p), Accessors(p, g)) /\ ~UnknownCalleePath(Edges(p), Accessors(p, g))
    BY <2>1 DEF MutexCertified
  <2>4. QED
    BY <1>1, <1>2, <2>1, <2>2, <2>3 DEF LockSays
<1>4. CASE \E c \in CouplingGroups(facts) :
             /\ GroupMutexCertified(p, facts, c)
             /\ lock = [guards |-> UNION {StorageClosure(p, g) : g \in c}, accessors |-> GroupAccessors(p, c)]
  <2>1. PICK c \in CouplingGroups(facts) :
           /\ GroupMutexCertified(p, facts, c)
           /\ lock.guards = UNION {StorageClosure(p, g) : g \in c} /\ lock.accessors = GroupAccessors(p, c)
    BY <1>4
  <2>2. c \subseteq DOMAIN facts
    <3>1. \A g : CouplingComponent(facts, g) \subseteq DOMAIN facts
      BY DEF CouplingComponent, Closure
    <3>2. QED
      BY <3>1 DEF CouplingGroups
  <2>3. \A g \in c : g \in DOMAIN facts /\ MutexCertified(p, facts, g)
    BY <2>1, <2>2 DEF GroupMutexCertified
  <2>4. GroupAccessors(p, c) \subseteq Funcs
    BY DEF GroupAccessors, Accessors
  <2>5. ~AccessorPath(Edges(p), GroupAccessors(p, c))
    BY <2>1 DEF GroupMutexCertified
  <2>6. ~UnknownCalleePath(Edges(p), GroupAccessors(p, c))
    <3>1. \A g \in c : ~UnknownCalleePath(Edges(p), Accessors(p, g))
      BY <2>3 DEF MutexCertified
    <3>2. QED
      BY <3>1 DEF UnknownCalleePath, GroupAccessors
  <2>7. \A f \in Funcs : \A e \in Ledger(p, f) : e.targets \cap lock.guards # {} => f \in GroupAccessors(p, c)
    BY <1>2, <2>1 DEF GroupAccessors
  <2>8. \A f \in GroupAccessors(p, c) : \E e \in Ledger(p, f) : \E x \in e.targets : ~Marked(p, Signal, x)
    BY <1>1, <2>3 DEF GroupAccessors
  <2>9. QED
    BY <2>1, <2>4, <2>5, <2>6, <2>7, <2>8 DEF LockSays
<1>5. QED
  BY <1>3, <1>4 DEF Locks

(***************************************************************************)
(* The invariant                                                           *)
(***************************************************************************)

\* Under the frame of a thread or a handler runs what some registration may run.
InterruptsListed(p, st) ==
    \A i \in 2..Len(st) : \A kind \in {Spawn, Signal} : st[i - 1].site = kind =>
        /\ st[i].func \in Funcs
        /\ \E s \in DOMAIN p.registry : \E n \in DOMAIN p.registry[s] :
              p.registry[s][n].kind = kind /\ st[i].func \in p.registry[s][n].runs

\* A write is one of code outside the module, or a local row tells it.
Explained(p, x) ==
    x \in p.exported \/ \E f \in Funcs : \E r \in LocalRows(p, f) : r.access = "mod" /\ x \in r.scope

ManifestSays(p, m) ==
    /\ FactsSay(p, m.facts)
    /\ \A lock \in m.locks : LockSays(p, lock)

ClientsSound ==
    /\ Sound({Spawn, Signal})
    /\ phase # "roots" => ClientSound(program)
    /\ phase # "run" => manifest = [facts |-> <<>>, locks |-> {}, groups |-> {}]
    /\ phase = "run" => /\ InterruptsListed(program, stack)
                        /\ \A x \in dirty : Explained(program, x)
                        /\ ManifestSays(program, manifest)

\* Dropping the certificates of a program touches nothing the clients read but its addresses.
LEMMA CertifiedClient ==
    ASSUME NEW p \in Programs
    PROVE  ClientSound(Certified(p))
<1>1. ClientSound(p) /\ ProgramSound(p)
  BY ClientAssumption, ProgramAssumption
<1> DEFINE q == Certified(p)
<1>2. /\ q.registry = p.registry /\ q.taken = p.taken /\ q.literal = p.literal /\ q.site = p.site
      /\ q.entered = p.entered /\ DOMAIN q = DOMAIN p
  BY <1>1 DEF Certified, ClientSound, ProgramSound
<1> HIDE DEF q
<1>3. \A r : RegistrationSound(p, r) => RegistrationSound(q, r)
  BY <1>2 DEF RegistrationSound
<1>4. ClientSound(q)
  BY <1>1, <1>2, <1>3 DEF ClientSound
<1>5. QED
  BY <1>4 DEF q

\* The client invariant holds initially.
LEMMA ClientsInitSound ==
    ASSUME ClientsInit
    PROVE  ClientsSound
BY SoundInit DEF ClientsInit, Init, ClientsSound

\* While the module runs, a step of it pushes a frame, returns from one, or writes.
LEMMA NextRuns ==
    ASSUME NEW extra, Sound(extra), Next, phase = "run"
    PROVE  /\ program' = program /\ phase' = phase /\ analysis' = analysis /\ memo' = memo /\ plan' = plan
           /\ \/ stack' = stack
              \/ \E frame : stack' = Append(stack, frame)
              \/ stack' = Front(stack) /\ Len(stack) > 1
           /\ \A x \in dirty' : x \in dirty \/ Explained(program, x)
<1>1. CASE CertifyRoots \/ ResolveCalls \/ Publish \/ \E c \in analysis.sccs : Collect(c)
  BY <1>1 DEF CertifyRoots, ResolveCalls, Publish, Collect
<1>2. CASE \E f \in Funcs : Enter(f)
  BY <1>2, Zenon DEF Enter, Running, Push
<1>3. CASE \E s \in DOMAIN program.site, t \in Funcs \cup Declared \cup {Omega} : Call(s, t)
  BY <1>3, Zenon DEF Call, Running, Push
<1>4. CASE \E g \in Globals : WriteOutside(g)
  BY <1>4 DEF WriteOutside, Running, Explained
<1>5. CASE phase = "run" /\ Top.func \in Funcs
             /\ \E s \in program.body[Top.func], g \in Globals : Write(s, g)
  <2>1. PICK s \in program.body[Top.func], g \in Globals : Write(s, g)
    BY <1>5
  <2>2. Running /\ g \in Touched(s, "mod") /\ dirty' = dirty \cup {g} /\ stack' = stack
    BY <2>1 DEF Write
  <2>3. \E r \in LocalRows(program, Top.func) : r.access = "mod" /\ g \in r.scope
    BY <1>5, <2>2, RunningStack, LocalRowsCover, ProgramAssumption
  <2>4. Explained(program, g)
    BY <1>5, <2>3 DEF Explained
  <2>5. QED
    BY <2>2, <2>4 DEF Running
<1>6. CASE Return
  BY <1>6 DEF Return, Running
<1>7. QED
  BY <1>1, <1>2, <1>3, <1>4, <1>5, <1>6 DEF Next

\* Nothing but a return follows the frame of a thread or a handler, so what was listed stays listed.
LEMMA StepListed ==
    ASSUME NEW extra, Sound(extra), phase = "run", InterruptsListed(program, stack),
           stack # <<>> /\ Top.site \in {Spawn, Signal} => Len(stack') < Len(stack),
           \/ stack' = stack
           \/ \E frame : stack' = Append(stack, frame)
           \/ stack' = Front(stack) /\ Len(stack) > 1
    PROVE  InterruptsListed(program, stack')
<1>1. stack \in Seq(Frames(program, extra)) /\ Len(stack) \in 1..Len(stack)
  BY RunningStack DEF StackSound
<1>2. CASE stack' = stack
  BY <1>2
<1>3. CASE \E frame : stack' = Append(stack, frame)
  <2>1. PICK frame : stack' = Append(stack, frame)
    BY <1>3
  <2> DEFINE n == Len(stack)
             next == Append(stack, frame)
  <2>2. /\ n \in Nat \ {0} /\ Len(next) = n + 1 /\ next[n + 1] = frame
        /\ \A j \in 1..n : next[j] = stack[j]
    BY <1>1
  <2>3. Top.site \notin {Spawn, Signal}
    BY <1>1, <2>1, <2>2
  <2>4. next[n].site \notin {Spawn, Signal}
    BY <2>2, <2>3 DEF Top
  <2> HIDE DEF next
  <2>5. \A i \in 2..(n + 1) : i # n + 1 => /\ i \in 2..n /\ i - 1 \in 1..n
                                           /\ next[i] = stack[i] /\ next[i - 1] = stack[i - 1]
    BY <2>2
  <2>6. InterruptsListed(program, next)
    <3>1. ASSUME NEW i \in 2..(n + 1), NEW kind \in {Spawn, Signal}, next[i - 1].site = kind
          PROVE  /\ next[i].func \in Funcs
                 /\ \E s \in DOMAIN program.registry : \E m \in DOMAIN program.registry[s] :
                       program.registry[s][m].kind = kind /\ next[i].func \in program.registry[s][m].runs
      <4>1. i # n + 1
        BY <2>2, <2>4, <3>1
      <4>2. i \in 2..Len(stack) /\ next[i] = stack[i] /\ stack[i - 1].site = kind
        BY <2>5, <3>1, <4>1
      <4>3. QED
        BY <4>2 DEF InterruptsListed
    <3>2. QED
      BY <2>2, <3>1 DEF InterruptsListed
  <2>7. QED
    BY <2>1, <2>6 DEF next
<1>4. CASE stack' = Front(stack) /\ Len(stack) > 1
  <2>1. /\ Len(Front(stack)) = Len(stack) - 1
        /\ \A i \in 2..Len(Front(stack)) : /\ i \in 2..Len(stack)
                                           /\ Front(stack)[i] = stack[i] /\ Front(stack)[i - 1] = stack[i - 1]
    BY <1>1, <1>4 DEF Front
  <2> DEFINE rest == Front(stack)
  <2> HIDE DEF rest
  <2>2. InterruptsListed(program, rest)
    <3>1. ASSUME NEW i \in 2..Len(rest), NEW kind \in {Spawn, Signal}, rest[i - 1].site = kind
          PROVE  /\ rest[i].func \in Funcs
                 /\ \E s \in DOMAIN program.registry : \E m \in DOMAIN program.registry[s] :
                       program.registry[s][m].kind = kind /\ rest[i].func \in program.registry[s][m].runs
      <4>1. i \in 2..Len(stack) /\ rest[i] = stack[i] /\ stack[i - 1].site = kind
        BY <2>1, <3>1 DEF rest
      <4>2. QED
        BY <4>1 DEF InterruptsListed
    <3>2. QED
      BY <3>1 DEF InterruptsListed
  <2>3. QED
    BY <1>4, <2>2 DEF rest
<1>5. QED
  BY <1>2, <1>3, <1>4

\* A step of CallEffects that publishes decides the records and the locks.
LEMMA ClientsStepSound ==
    ASSUME ClientsSound, ClientsStep
    PROVE  ClientsSound'
<1> DEFINE extra == {Spawn, Signal}
<1>1. Sound(extra) /\ Next /\ Sound(extra)'
  BY NextSound DEF ClientsSound, ClientsStep
<1> HIDE DEF extra
<1>2. CASE phase = "run"
  <2>1. /\ program' = program /\ phase' = phase /\ manifest' = manifest
        /\ \/ stack' = stack
           \/ \E frame : stack' = Append(stack, frame)
           \/ stack' = Front(stack) /\ Len(stack) > 1
        /\ \A x \in dirty' : x \in dirty \/ Explained(program, x)
    BY <1>1, <1>2, NextRuns DEF ClientsStep
  <2>2. stack # <<>> /\ Top.site \in {Spawn, Signal} => Len(stack') < Len(stack)
    BY DEF ClientsStep
  <2>3. InterruptsListed(program, stack')
    BY <1>1, <1>2, <2>1, <2>2, StepListed DEF ClientsSound
  <2>4. QED
    BY <1>1, <1>2, <2>1, <2>3 DEF ClientsSound, extra
<1>3. CASE phase # "run"
  <2>1. CASE CertifyRoots
    <3>1. /\ program \in Programs /\ program' = Certified(program) /\ phase = "roots" /\ phase' = "rows"
          /\ manifest' = manifest
      BY <1>1, <2>1 DEF CertifyRoots, ClientsStep, Sound, Staged
    <3>2. ClientSound(program')
      BY <3>1, CertifiedClient
    <3>3. QED
      BY <1>1, <3>1, <3>2 DEF ClientsSound, extra
  <2>2. CASE ResolveCalls \/ \E c \in analysis.sccs : Collect(c)
    <3>1. /\ program' = program /\ phase # "roots" /\ phase' # "run" /\ manifest' = manifest
      BY <1>3, <2>2 DEF ResolveCalls, Collect, ClientsStep
    <3>2. QED
      BY <1>1, <1>3, <3>1 DEF ClientsSound, extra
  <2>3. CASE Publish
    <3>1. /\ phase = "summaries" /\ phase' = "run" /\ program' = program /\ DOMAIN memo = analysis.sccs
          /\ stack' = <<Outside(Omega)>> /\ dirty' = dirty
      BY <2>3 DEF Publish
    <3>2. manifest' = AssembleDispositionArtifacts(program, Facts(program))
      BY <3>1 DEF ClientsStep
    <3>3. dirty = {} /\ analysis.edges = Edges(program) /\ ClientSound(program)
      BY <1>1, <3>1 DEF ClientsSound, Sound, Staged, CallGraph
    <3>4. FactsSay(program, Facts(program))
      BY <1>1, <3>1, <3>3, FactsSaid
    <3>5. manifest'.facts = Facts(program) /\ manifest'.locks = Locks(program, Facts(program))
      BY <3>2 DEF AssembleDispositionArtifacts
    <3>6. ManifestSays(program, manifest')
      BY <3>3, <3>4, <3>5, LocksSay DEF ManifestSays
    <3>7. InterruptsListed(program, stack')
      BY <3>1 DEF InterruptsListed
    <3>8. QED
      BY <1>1, <3>1, <3>3, <3>6, <3>7 DEF ClientsSound, extra
  <2>4. QED
    BY <1>1, <1>3, <2>1, <2>2, <2>3 DEF Next, Enter, Call, WriteOutside, Return, Running
<1>4. QED
  BY <1>2, <1>3

\* A registration the program makes may run.
LEMMA RegisteredMayRun ==
    ASSUME NEW kind, NEW f \in Registered(kind)
    PROVE  \E s \in DOMAIN program.registry : \E n \in DOMAIN program.registry[s] :
              program.registry[s][n].kind = kind /\ f \in program.registry[s][n].runs
BY DEF Registered, Range

\* A thread or a handler starts in code outside the module, which enters the registered function.
LEMMA InterruptSound ==
    ASSUME ClientsSound, NEW kind \in {Spawn, Signal}, NEW f \in Funcs, Interrupt(kind, f)
    PROVE  ClientsSound'
<1> DEFINE extra == {Spawn, Signal}
           n == Len(stack)
           once == Append(stack, Outside(kind))
           next == Append(once, Frame(f, Omega))
<1>1. /\ Sound(extra) /\ Running /\ phase = "run" /\ Top.func \in Funcs /\ f \in Registered(kind)
      /\ stack' = stack \o <<Outside(kind), Frame(f, Omega)>> /\ dirty' = dirty /\ manifest' = manifest
      /\ ClientSound(program)
  BY DEF ClientsSound, Interrupt, Running
<1>2. /\ Ready(program) /\ StackSound(program, stack, extra) /\ n \in 1..n
      /\ stack \in Seq(Frames(program, extra))
  BY <1>1, RunningStack DEF StackSound
<1>3. /\ Outside(kind) \in Frames(program, extra) /\ Frame(f, Omega) \in Frames(program, extra)
      /\ Outside(kind).func = Omega /\ Outside(kind).site = kind
      /\ Frame(f, Omega).func = f /\ Frame(f, Omega).site = Omega
  BY DEF Outside, Frame, Frames
<1>4. PICK s \in DOMAIN program.registry : \E m \in DOMAIN program.registry[s] :
         program.registry[s][m].kind = kind /\ f \in program.registry[s][m].runs
  BY <1>1, RegisteredMayRun
<1>5. f \in program.entered
  BY <1>1, <1>4 DEF ClientSound, RegistrationSound
<1>6. kind \notin DOMAIN program.site /\ Omega \notin DOMAIN program.site
  BY <1>1, <1>2 DEF ClientSound, Ready
<1> HIDE DEF extra
<1>7. StackSound(program, once, extra)
  <2>1. Linked(program, stack[n], Outside(kind))
    BY <1>3, <1>6 DEF Linked
  <2>2. QED
    BY <1>2, <1>3, <2>1, StackPush
<1>8. /\ once \in Seq(Frames(program, extra)) /\ Len(once) = n + 1 /\ once[n + 1] = Outside(kind)
      /\ \A j \in 1..n : once[j] = stack[j]
  BY <1>2, <1>3
<1> HIDE DEF once
<1>9. StackSound(program, next, extra)
  <2>1. Linked(program, once[Len(once)], Frame(f, Omega))
    BY <1>3, <1>5, <1>6, <1>8 DEF Linked
  <2>2. QED
    BY <1>2, <1>3, <1>7, <2>1, StackPush
<1>10. /\ Len(next) = n + 2 /\ next[n + 2] = Frame(f, Omega) /\ next[n + 1] = Outside(kind)
       /\ \A j \in 1..n : next[j] = stack[j]
  BY <1>2, <1>3, <1>8
<1>11. stack' = next
  BY <1>1, <1>2, <1>3 DEF next, once
<1> HIDE DEF next
<1>12. Sound(extra)'
  <2>1. dirty' \cap analysis.stationary = {}
    BY <1>1 DEF Sound, StationaryHolds
  <2>2. QED
    BY <1>1, <1>9, <1>11, <2>1, RunningSound
<1>13. Top.site \notin {Spawn, Signal}
  <2>1. n \in 2..n
    BY <1>1, <1>2, ProgramAssumption DEF StackSound, Top
  <2>2. Linked(program, stack[n - 1], stack[n])
    BY <1>2, <2>1 DEF StackSound
  <2>3. QED
    BY <1>1, <2>2, ClientAssumption, ProgramAssumption DEF Linked, Top, ClientSound
<1>14. InterruptsListed(program, next)
  <2>1. ASSUME NEW i \in 2..(n + 2), NEW k \in {Spawn, Signal}, next[i - 1].site = k
        PROVE  /\ next[i].func \in Funcs
               /\ \E r \in DOMAIN program.registry : \E m \in DOMAIN program.registry[r] :
                     program.registry[r][m].kind = k /\ next[i].func \in program.registry[r][m].runs
    <3>1. CASE i = n + 2
      <4>1. next[i].func = f /\ k = kind
        BY <1>3, <1>10, <2>1, <3>1
      <4>2. QED
        BY <1>4, <4>1
    <3>2. CASE i = n + 1
      BY <1>2, <1>10, <1>13, <2>1, <3>2 DEF Top
    <3>3. CASE i \in 2..n
      <4>1. next[i] = stack[i] /\ next[i - 1] = stack[i - 1]
        BY <1>2, <1>10, <3>3
      <4>2. InterruptsListed(program, stack)
        BY <1>1 DEF ClientsSound
      <4>3. QED
        BY <2>1, <3>3, <4>1, <4>2 DEF InterruptsListed
    <3>4. QED
      BY <1>2, <3>1, <3>2, <3>3
  <2>2. QED
    BY <1>2, <1>10, <2>1 DEF InterruptsListed
<1>15. program' = program /\ phase' = phase
  BY <1>1 DEF Running
<1>16. QED
  BY <1>1, <1>11, <1>12, <1>14, <1>15 DEF ClientsSound, extra

\* Every step keeps the client invariant.
LEMMA ClientsNextSound ==
    ASSUME ClientsSound, [ClientsNext]_<<vars, manifest>>
    PROVE  ClientsSound'
<1>1. CASE ClientsStep
  BY <1>1, ClientsStepSound
<1>2. CASE \E kind \in {Spawn, Signal}, f \in Funcs : Interrupt(kind, f)
  BY <1>2, InterruptSound
<1>3. CASE UNCHANGED <<vars, manifest>>
  <2>1. Sound({Spawn, Signal})'
    BY <1>3, NextSound DEF ClientsSound
  <2>2. QED
    BY <1>3, <2>1 DEF ClientsSound, vars
<1>4. QED
  BY <1>1, <1>2, <1>3 DEF ClientsNext

(***************************************************************************)
(* What a sound state says of locks, writes and marks                      *)
(***************************************************************************)

\* Frames of the module with none of outside code between them are a path of calls, of at least
\* one call when they are not the same frame.
LEMMA FramesPath ==
    ASSUME NEW p, NEW st, NEW extra, Ready(p), StackSound(p, st, extra),
           NEW i \in 1..Len(st), NEW j \in 1..Len(st), i < j, \A k \in i..j : st[k].func \in Funcs
    PROVE  st[j].func \in Closure(Funcs, Callees(Edges(p), {st[i].func}), CallPairs(Edges(p)))
<1> DEFINE edges == Edges(p)
           part == Closure(Funcs, Callees(edges, {st[i].func}), CallPairs(edges))
           f == st[i].func
           h == st[i + 1].func
<1>1. /\ i \in i..j /\ i + 1 \in i..j /\ i + 1 \in 2..Len(st) /\ (i + 1) - 1 = i /\ i + 1 <= j
      /\ \A k \in (i + 1)..j : k \in i..j
  OBVIOUS
<1>2. f \in Funcs /\ h \in Funcs /\ Linked(p, st[i], st[i + 1])
  BY <1>1 DEF StackSound
<1>3. st[i + 1].site \in DOMAIN p.site
  BY <1>2, ProgramAssumption DEF Linked
<1>4. PICK t : /\ <<f, st[i + 1].site, t>> \in edges
               /\ h = IF t \in Funcs THEN t ELSE Omega
  BY <1>2, <1>3, LinkedEdge
<1>5. t = h
  BY <1>2, <1>4, ProgramAssumption
<1>6. \A k \in (i + 1)..j : st[k].func # Omega
  BY <1>1, ProgramAssumption
<1>7. st[j].func \in Reachable(edges, h)
  BY <1>1, <1>6 DEF StackSound, ChainsReach
<1> HIDE DEF edges, f, h
<1>8. h \in Callees(edges, {f})
  <2> DEFINE e == <<f, st[i + 1].site, t>>
  <2>1. e \in edges /\ e[1] = f /\ e[3] = t
    BY <1>4
  <2> HIDE DEF e
  <2>2. QED
    BY <1>2, <1>5, <2>1 DEF Callees
<1> DEFINE whole == Closure(Funcs, Callees(edges, {f}), CallPairs(edges))
<1>9. /\ whole \in SUBSET Funcs /\ h \in whole
      /\ \A e \in edges : e[1] \in whole /\ e[3] \in Funcs => e[3] \in whole
  <2>1. Callees(edges, {f}) \in SUBSET Funcs
    BY DEF Callees
  <2>2. \A e \in edges : e[3] \in Funcs => <<e[1], e[3]>> \in CallPairs(edges)
    BY DEF CallPairs, Internal
  <2>3. whole \in SUBSET Funcs /\ h \in whole
    BY <1>8, <2>1, ClosureSeed, ClosureInside
  <2>4. ASSUME NEW e \in edges, e[1] \in whole, e[3] \in Funcs
        PROVE  e[3] \in whole
    <3>1. <<e[1], e[3]>> \in CallPairs(edges)
      BY <2>2, <2>4
    <3>2. QED
      BY <2>1, <2>4, <3>1, ClosureStep
  <2>5. QED
    BY <2>3, <2>4
<1> HIDE DEF whole
<1>10. Reachable(edges, h) \subseteq whole
  BY <1>2, <1>9, ReachLeast
<1>11. QED
  BY <1>7, <1>10 DEF whole, edges, f

\* A set of naturals that is not empty has a least member.
LEMMA MinOfNaturals ==
    ASSUME NEW S \in SUBSET Nat, S # {}
    PROVE  Min(S) \in S /\ \A y \in S : Min(S) <= y
<1>1. \E x \in S : \A y \in S : x <= y
  <2> DEFINE T == {n \in Nat : \A x \in S : n <= x}
  <2> SUFFICES ASSUME ~ \E x \in S : \A y \in S : x <= y
               PROVE  FALSE
    OBVIOUS
  <2>1. 0 \in T
    OBVIOUS
  <2>2. ASSUME NEW n \in Nat, n \in T
        PROVE  n + 1 \in T
    <3>1. n \notin S
      BY <2>2
    <3>2. QED
      BY <2>2, <3>1
  <2>3. Nat \subseteq T
    <3> HIDE DEF T
    <3>1. QED
      BY <2>1, <2>2, NaturalsBySuccessor
  <2>4. PICK x \in S : TRUE
    OBVIOUS
  <2>5. x + 1 \in T
    BY <2>3
  <2>6. QED
    BY <2>4, <2>5
<1>2. QED
  BY <1>1 DEF Min

\* Rows and lines of the ledger tell reads and writes, nothing else.
LEMMA RowAccess ==
    ASSUME NEW p, NEW f, NEW r \in LocalRows(p, f)
    PROVE  r.access \in Accesses
<1>1. PICK s \in p.body[f] : r \in StatementRows(p, s)
  BY DEF LocalRows
<1>2. ASSUME NEW q, r \in PointerRows(p, q)
      PROVE  r.access = q.access
  <2>1. r = FallbackRow(p, q) \/ r \in NamedRows(p, q) \/ r \in ExternalRow(p, q)
    BY <1>2 DEF PointerRows
  <2>2. CASE r = FallbackRow(p, q)
    BY <2>2 DEF FallbackRow, Unknown, Row
  <2>3. CASE r \in NamedRows(p, q)
    BY <2>3 DEF NamedRows, Named, Row
  <2>4. CASE r \in ExternalRow(p, q)
    BY <2>4 DEF ExternalRow, Unknown, Row
  <2>5. QED
    BY <2>1, <2>2, <2>3, <2>4
<1>3. CASE r \in DirectRows(p, s)
  BY <1>3 DEF DirectRows, Named, Row, Accesses
<1>4. CASE r \in ConstantOperandRows(p, s)
  BY <1>4 DEF ConstantOperandRows, Named, Row, Accesses
<1>5. CASE r \in FillRows(p, s)
  <2> DEFINE q == Request("mod", s.at, FALSE, TRUE, s.line)
  <2>1. r = Named("mod", FillTarget(p, s), "aliased") \/ r \in PointerRows(p, q)
    BY <1>5 DEF FillRows, When
  <2>2. q.access = "mod"
    BY DEF Request
  <2> HIDE DEF q
  <2>3. r.access = "mod"
    BY <1>2, <2>1, <2>2 DEF Named, Row
  <2>4. QED
    BY <2>3 DEF Accesses
<1>6. CASE \E q \in EdgeAccesses(s) : r \in RequestRows(p, q)
  <2>1. PICK q \in EdgeAccesses(s) : r \in RequestRows(p, q)
    BY <1>6
  <2>2. q.access \in Accesses
    BY DEF EdgeAccesses, When, Request, Accesses
  <2>3. r.access = q.access
    BY <1>2, <2>1 DEF RequestRows, Named, Row
  <2>4. QED
    BY <2>2, <2>3
<1>7. QED
  BY <1>1, <1>3, <1>4, <1>5, <1>6 DEF StatementRows

\* No thread takes a lock it already holds.
LEMMA SoundLocksOnce ==
    ASSUME ClientsSound, NEW lock \in manifest.locks, NEW i \in DOMAIN stack, NEW j \in DOMAIN stack,
           i < j, {stack[i].func, stack[j].func} \subseteq lock.accessors
    PROVE  ~CertificateCovers(i, j)
<1> DEFINE edges == Edges(program)
           out == OutsideBetween(i, j)
<1>1. phase = "run" /\ LockSays(program, lock) /\ InterruptsListed(program, stack)
  BY DEF ClientsSound, ManifestSays
<1>2. /\ Ready(program) /\ analysis.edges = edges /\ StackSound(program, stack, {Spawn, Signal})
  BY <1>1, RunningStack DEF ClientsSound, CallGraph
<1>3. /\ i \in 1..Len(stack) /\ j \in 1..Len(stack) /\ Len(stack) \in Nat
      /\ \A k \in 1..Len(stack) : stack[k] \in Frames(program, {Spawn, Signal})
  BY <1>2 DEF StackSound
<1>4. \A k \in 1..Len(stack) : stack[k].func \in Funcs \cup {Omega}
  BY <1>3 DEF Frames
<1>5. stack[i].func \in Funcs /\ stack[j].func \in Funcs
  BY <1>1 DEF LockSays
<1>6. \A k \in i..j : k \in 1..Len(stack) /\ (k \notin out => stack[k].func \in Funcs)
  BY <1>3, <1>4, <1>5 DEF OutsideBetween
<1>7. out \in SUBSET Nat /\ \A k \in out : k \in (i + 1)..(j - 1) /\ stack[k].func = Omega
  BY <1>3 DEF OutsideBetween
<1> HIDE DEF out, edges
<1>8. CASE out = {}
  <2>1. stack[j].func \in Closure(Funcs, Callees(edges, {stack[i].func}), CallPairs(edges))
    BY <1>2, <1>3, <1>6, <1>8, FramesPath DEF edges
  <2>2. AccessorPath(edges, lock.accessors)
    BY <2>1 DEF AccessorPath
  <2>3. QED
    BY <1>1, <2>2 DEF LockSays, edges
<1>9. CASE out # {}
  <2> DEFINE k == Min(out)
  <2>1. k \in out /\ \A y \in out : k <= y
    BY <1>7, <1>9, MinOfNaturals
  <2> HIDE DEF k
  <2>2. /\ k \in (i + 1)..(j - 1) /\ stack[k].func = Omega /\ k \in 2..Len(stack)
        /\ k + 1 \in 2..Len(stack) /\ (k + 1) - 1 = k /\ k - 1 \in i..j /\ k + 1 \in i..j
    BY <1>3, <1>7, <2>1
  <2>3. \A m \in i..(k - 1) : m \in i..j /\ m \notin out
    BY <1>3, <2>1, <2>2
  <2>4. ~Unresolved(stack[k].site)
    <3> SUFFICES ASSUME NEW e \in edges, e[2] = stack[k].site, e[3] = Omega
                 PROVE  FALSE
      BY <1>2 DEF Unresolved
    <3>1. e[2] \in DOMAIN program.site /\ e[1] = program.site[e[2]].caller /\ e[1] \in Funcs
      BY <1>2, EdgeOfSite DEF edges
    <3>2. Linked(program, stack[k - 1], stack[k])
      BY <1>2, <2>2 DEF StackSound
    <3>3. stack[k - 1].func = e[1]
      BY <3>1, <3>2 DEF Linked
    <3>4. stack[k - 1].func \in Reachable(edges, stack[i].func)
      <4>1. \A m \in i..(k - 1) : stack[m].func # Omega
        BY <1>6, <2>3, ProgramAssumption
      <4>2. i <= k - 1 /\ k - 1 \in 1..Len(stack)
        BY <1>3, <2>2
      <4>3. QED
        BY <1>2, <1>3, <4>1, <4>2 DEF StackSound, ChainsReach, edges
    <3>5. UnknownCalleePath(edges, lock.accessors)
      BY <3>1, <3>3, <3>4 DEF UnknownCalleePath
    <3>6. QED
      BY <1>1, <3>5 DEF LockSays, edges
  <2>5. ~(Cardinality(out) = 1 /\ stack[k].site = Signal /\ OneKindEach)
    <3> SUFFICES ASSUME Cardinality(out) = 1, stack[k].site = Signal, OneKindEach
                 PROVE  FALSE
      OBVIOUS
    <3>1. out = {k}
      <4>1. out \subseteq (i + 1)..(j - 1) /\ i + 1 \in Int /\ j - 1 \in Int
        BY <1>3, <1>7
      <4>2. IsFiniteSet(out)
        <5> DEFINE low == i + 1
                   high == j - 1
        <5> HIDE DEF low, high
        <5>1. low \in Int /\ high \in Int /\ out \subseteq low..high
          BY <4>1 DEF low, high
        <5>2. IsFiniteSet(low..high)
          BY <5>1, FS_Interval
        <5>3. QED
          BY <5>1, <5>2, FS_Subset
      <4>3. PICK x : out = {x}
        BY <4>2, FS_Singleton
      <4>4. QED
        BY <2>1, <4>3
    <3> DEFINE f == stack[k + 1].func
    <3>2. /\ f \in Funcs
          /\ \E s \in DOMAIN program.registry : \E n \in DOMAIN program.registry[s] :
                program.registry[s][n].kind = Signal /\ f \in program.registry[s][n].runs
      BY <1>1, <2>2 DEF InterruptsListed
    <3> HIDE DEF f
    <3>3. MayRun(program, Signal, f)
      <4>1. PICK s \in DOMAIN program.registry : \E n \in DOMAIN program.registry[s] :
               program.registry[s][n].kind = Signal /\ f \in program.registry[s][n].runs
        BY <3>2
      <4>2. PICK n \in DOMAIN program.registry[s] :
               program.registry[s][n].kind = Signal /\ f \in program.registry[s][n].runs
        BY <4>1
      <4>3. ClientSound(program)
        BY <1>1 DEF ClientsSound
      <4>4. /\ Len(program.registry[s]) \in Nat /\ DOMAIN program.registry[s] = 1..Len(program.registry[s])
            /\ Len(program.registry[s]) <= 1 /\ RegistrationSound(program, program.registry[s][n])
        BY <4>3 DEF ClientSound, OneKindEach
      <4>5. n = Len(program.registry[s]) /\ program.registry[s] # <<>>
        BY <4>4
      <4>6. program.registry[s][n] \in Resolved(program, s)
        BY <4>5 DEF Resolved
      <4>7. f \in RegistryEntries(program, program.registry[s][n])
        BY <4>2, <4>4 DEF RegistrationSound, RegistryEntries
      <4>8. QED
        BY <4>2, <4>6, <4>7 DEF MayRun
    <3>4. stack[j].func \in Reachable(edges, f)
      <4>1. \A m \in (k + 1)..j : m \in i..j /\ m \notin out
        BY <1>3, <2>2, <3>1
      <4>2. \A m \in (k + 1)..j : stack[m].func # Omega
        BY <1>6, <4>1, ProgramAssumption
      <4>3. k + 1 <= j /\ k + 1 \in 1..Len(stack)
        BY <1>3, <2>2
      <4>4. QED
        BY <1>2, <1>3, <4>2, <4>3 DEF StackSound, ChainsReach, edges, f
    <3>5. PICK e \in Ledger(program, stack[j].func) : \E x \in e.targets : ~Marked(program, Signal, x)
      BY <1>1 DEF LockSays
    <3>6. PICK x \in e.targets : ~Marked(program, Signal, x)
      BY <3>5
    <3>7. PICK r \in LocalRows(program, stack[j].func) : r.access = e.access /\ x \in r.scope
      BY <1>2, <1>5, <3>6, LedgerInRows
    <3>8. r.access \in Accesses /\ x \in CandidateUnion(LocalRows(program, stack[j].func), r.access)
      BY <3>7, RowAccess, RowCandidate
    <3>9. Marked(program, Signal, x)
      BY <3>2, <3>3, <3>4, <3>8 DEF Marked, edges
    <3>10. QED
      BY <3>6, <3>9
  <2>6. QED
    BY <1>9, <2>4, <2>5 DEF CertificateCovers, out, k
<1>10. QED
  BY <1>8, <1>9

\* Whoever touches the storage a lock guards takes it.
LEMMA SoundGuards ==
    ASSUME ClientsSound, NEW lock \in manifest.locks, phase = "run", Top.func \in Funcs,
           NEW s \in program.body[Top.func], NEW access \in Accesses, Touched(s, access) \cap lock.guards # {}
    PROVE  Top.func \in lock.accessors
<1>1. Ready(program) /\ LockSays(program, lock)
  BY RunningStack DEF ClientsSound, ManifestSays
<1>2. PICK x \in Touched(s, access) : x \in lock.guards
  OBVIOUS
<1>3. x # NoGlobal
  BY <1>1, TouchedGlobals
<1>4. PICK e \in Ledger(program, Top.func) : e.access = access /\ e.line = s.line /\ x \in e.targets
  BY <1>1, <1>3, LedgerCovers
<1>5. QED
  BY <1>1, <1>2, <1>4 DEF LockSays

\* The client invariant gives sound locks.
LEMMA SoundLocks ==
    ASSUME ClientsSound
    PROVE  LocksSound
BY SoundLocksOnce, SoundGuards DEF LocksSound

\* What a global recorded as never written owns is written through rows without a name alone.
LEMMA SoundUnwritten ==
    ASSUME ClientsSound
    PROVE  UnwrittenStaysUnwritten
<1> SUFFICES ASSUME NEW g \in DOMAIN manifest.facts, ~manifest.facts[g].written,
                    NEW x \in StorageClosure(program, g) \cap dirty
             PROVE  Overflowing(x)
  BY DEF UnwrittenStaysUnwritten
<1>1. phase = "run"
  BY DEF ClientsSound
<1>2. FactsSay(program, manifest.facts) /\ Explained(program, x)
  BY <1>1 DEF ClientsSound, ManifestSays
<1>3. g \in Subjects(program)
  BY <1>2 DEF FactsSay
<1>4. x \notin Written(program) /\ x \notin program.exported
  BY <1>2, <1>3 DEF FactsSay
<1>5. x \in program.defined
  BY <1>3 DEF StorageClosure, StorageMembers, Subjects
<1>6. PICK f \in Funcs : \E r \in LocalRows(program, f) : r.access = "mod" /\ x \in r.scope
  BY <1>2, <1>4 DEF Explained
<1>7. PICK r \in LocalRows(program, f) : r.access = "mod" /\ x \in r.scope
  BY <1>6
<1>8. CASE r.target = Omega
  BY <1>7, <1>8 DEF Overflowing
<1>9. CASE r.target # Omega
  <2>1. x = r.target
    BY <1>7, <1>9, RowNames
  <2>2. r \in RowsOfModule(program)
    BY <1>7 DEF RowsOfModule
  <2>3. x \in Written(program)
    BY <1>5, <1>7, <1>9, <2>1, <2>2 DEF Written
  <2>4. QED
    BY <1>4, <2>3
<1>10. QED
  BY <1>8, <1>9

\* What runs under the frame of a thread or a handler is reached from a registered function.
LEMMA SoundMarks ==
    ASSUME ClientsSound
    PROVE  ContextsMarked
<1> SUFFICES ASSUME OneKindEach, NEW i \in 2..Len(stack), NEW kind \in {Spawn, Signal},
                    stack[i - 1].site = kind, OutsideBetween(i, Len(stack) + 1) = {},
                    NEW s \in program.body[Top.func], NEW access \in Accesses,
                    NEW g \in DOMAIN manifest.facts,
                    Touched(s, access) \cap StorageClosure(program, g) # {}
             PROVE  IF kind = Spawn THEN manifest.facts[g].thread ELSE manifest.facts[g].signal
  BY DEF ContextsMarked
<1>1. phase = "run"
  BY DEF ClientsSound
<1>2. /\ Ready(program) /\ StackSound(program, stack, {Spawn, Signal}) /\ ClientSound(program)
      /\ InterruptsListed(program, stack) /\ FactsSay(program, manifest.facts)
      /\ \A k \in 1..Len(stack) : stack[k] \in Frames(program, {Spawn, Signal})
      /\ Len(stack) \in Nat /\ Len(stack) \in i..Len(stack)
  <2>1. /\ Ready(program) /\ StackSound(program, stack, {Spawn, Signal}) /\ ClientSound(program)
        /\ InterruptsListed(program, stack) /\ FactsSay(program, manifest.facts)
    BY <1>1, RunningStack DEF ClientsSound, ManifestSays
  <2>2. stack \in Seq(Frames(program, {Spawn, Signal}))
    BY <2>1 DEF StackSound
  <2>3. \A k \in 1..Len(stack) : stack[k] \in Frames(program, {Spawn, Signal})
    BY <2>2
  <2>4. Len(stack) \in Nat /\ Len(stack) \in i..Len(stack)
    BY <2>2
  <2>5. QED
    BY <2>1, <2>3, <2>4
<1> DEFINE f == stack[i].func
<1>3. /\ f \in Funcs
      /\ \E r \in DOMAIN program.registry : \E n \in DOMAIN program.registry[r] :
            program.registry[r][n].kind = kind /\ f \in program.registry[r][n].runs
  BY <1>2 DEF InterruptsListed
<1>4. \A k \in i..Len(stack) : stack[k].func # Omega
  <2>1. \A k \in i..Len(stack) : k = i \/ k \in (i + 1)..((Len(stack) + 1) - 1)
    BY <1>2
  <2>2. QED
    BY <1>3, <2>1, ProgramAssumption DEF OutsideBetween
<1>5. Top.func \in Reachable(Edges(program), f)
  BY <1>2, <1>4 DEF StackSound, ChainsReach, Top
<1>6. Top.func \in Funcs
  BY <1>3, <1>5, ReachSelf
<1> HIDE DEF f
<1>7. MayRun(program, kind, f)
  <2>1. PICK r \in DOMAIN program.registry : \E n \in DOMAIN program.registry[r] :
           program.registry[r][n].kind = kind /\ f \in program.registry[r][n].runs
    BY <1>3
  <2>2. PICK n \in DOMAIN program.registry[r] :
           program.registry[r][n].kind = kind /\ f \in program.registry[r][n].runs
    BY <2>1
  <2>3. /\ Len(program.registry[r]) \in Nat /\ DOMAIN program.registry[r] = 1..Len(program.registry[r])
        /\ Len(program.registry[r]) <= 1 /\ RegistrationSound(program, program.registry[r][n])
    BY <1>2 DEF ClientSound, OneKindEach
  <2>4. n = Len(program.registry[r]) /\ program.registry[r] # <<>>
    BY <2>3
  <2>5. program.registry[r][n] \in Resolved(program, r)
    BY <2>4 DEF Resolved
  <2>6. f \in RegistryEntries(program, program.registry[r][n])
    BY <2>2, <2>3 DEF RegistrationSound, RegistryEntries
  <2>7. QED
    BY <2>2, <2>5, <2>6 DEF MayRun
<1>8. PICK x \in Touched(s, access) : x \in StorageClosure(program, g)
  OBVIOUS
<1>9. x # NoGlobal
  BY <1>2, <1>6, TouchedGlobals
<1>10. PICK r \in LocalRows(program, Top.func) : r.access = access /\ x \in r.scope
  BY <1>2, <1>6, <1>9, LocalRowsCover
<1>11. x \in CandidateUnion(LocalRows(program, Top.func), access)
  BY <1>10, RowCandidate
<1>12. Marked(program, kind, x)
  BY <1>3, <1>5, <1>7, <1>11 DEF Marked
<1>13. QED
  BY <1>2, <1>8, <1>12 DEF FactsSay

(***************************************************************************)
(* Theorems                                                                *)
(***************************************************************************)

\* Every reachable state of the execution with threads and handlers is sound.
THEOREM ClientsInvariant == ClientsSpec => []ClientsSound
<1>1. ClientsInit => ClientsSound
  BY ClientsInitSound
<1>2. ClientsSound /\ [ClientsNext]_<<vars, manifest>> => ClientsSound'
  BY ClientsNextSound
<1>3. QED
  BY <1>1, <1>2, PTL DEF ClientsSpec

\* Everything the analysis promised of calls alone still holds when registered functions start at
\* any time: summaries, ledgers, stationary globals, the rewrite plan and the clean components.
THEOREM ClientsKeepEffects ==
    ClientsSpec => [](/\ SummariesExact /\ StationaryHolds /\ AccessesAttributed
                      /\ ContextThreaded /\ CleanComponentsClosed)
<1>1. ClientsSound => /\ SummariesExact /\ StationaryHolds /\ AccessesAttributed
                      /\ ContextThreaded /\ CleanComponentsClosed
  BY SoundAttributes, SoundThreads, SoundCloses DEF ClientsSound, Sound
<1>2. QED
  BY <1>1, ClientsInvariant, PTL

\* A certified mutex is never taken by a thread that holds it, and whoever touches what it guards
\* holds it (mutex_certificate, group_mutex_certificate).
THEOREM ClientsLocks == ClientsSpec => []LocksSound
<1>1. ClientsSound => LocksSound
  BY SoundLocks
<1>2. QED
  BY <1>1, ClientsInvariant, PTL

\* A global recorded as never written, and the literals folded into it, are not written.
THEOREM ClientsUnwritten == ClientsSpec => []UnwrittenStaysUnwritten
<1>1. ClientsSound => UnwrittenStaysUnwritten
  BY SoundUnwritten
<1>2. QED
  BY <1>1, ClientsInvariant, PTL

\* What a thread or a handler touches is marked as touched by one.
THEOREM ClientsMarked == ClientsSpec => []ContextsMarked
<1>1. ClientsSound => ContextsMarked
  BY SoundMarks
<1>2. QED
  BY <1>1, ClientsInvariant, PTL

=============================================================================
