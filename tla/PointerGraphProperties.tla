----------------------- MODULE PointerGraphProperties -----------------------
(***************************************************************************)
(* What the pointer graph promises of every run of the program.            *)
(***************************************************************************)
EXTENDS GraphExecution

Tracked(o) == o[1] # "tail"
Covered(n, c) ==
  \/ \E x \in Held(solution, n) : x[1] = c[2] /\ c[3] \in Offsets(x[2], Window)
  \/ Foreign \in Held(solution, n) /\ c[2] \in solution.escaped
MayName(n, o) == o \in ObjectsHeld(solution, n) \/ (Foreign \in Held(solution, n) /\ o \in solution.escaped)

\* Every pointer a value or a place in memory ever holds is among the facts
\* the graph gives its node, at an offset they admit: arguments and results
\* through direct and indirect calls, tails bound by position, detours through
\* integers, cycles of arithmetic, what library functions return, store and
\* keep, and what code that is not in sight may write (lower_stmt).  The values
\* of an audited function are exempt, for it only reads what it has from its
\* tail; what it stores or returns is not.  A list's storage is no client memory.
ListStorage == {x[1] : x \in {y \in DOMAIN memory : IsPtr(memory[y]) /\ memory[y][2][1] = "tail"}}
PointersCovered ==
  phase = "run" =>
    /\ \A n \in DOMAIN env :
         IsPtr(env[n]) /\ Tracked(env[n][2]) /\ (n[1] = "return" \/ Home(n) \notin solution.audited)
           => Covered(n, env[n])
    /\ \A x \in DOMAIN memory :
         IsPtr(memory[x]) /\ Tracked(x[1]) /\ Tracked(memory[x][2]) /\ x[1] \notin ListStorage
           => Covered(x[1], memory[x])

\* What a statement reads and writes through, as it stands.  A printf whose
\* format holds %n writes through its tail.
WritesTail(format) ==
  ~(/\ IsPtr(format) /\ format[2][1] = "global" /\ format[2][2] \in DOMAIN program.format
    /\ format[3] + 1 \in DOMAIN program.format[format[2][2]] /\ program.format[format[2][2]][format[3] + 1])
LibraryUses(at) ==
  LET s == At(program, at)
      c == Contracts[s.x.callee]
      tail == {k \in DOMAIN s.in : k > c.fixed}
      Cells(ks) == {In(at, k) : k \in ks}
      unsafe == c.policy = "scanf" \/ (c.policy = "printf" /\ WritesTail(In(at, FormatArg[s.x.callee])))
  IN  [ reads |-> Cells(c.reads \cup (IF c.policy = "printf" THEN tail ELSE {}) \cup (IF c.copies THEN {2} ELSE {})),
        writes |-> Cells(c.writes \cup (IF unsafe THEN tail ELSE {}) \cup (IF c.copies THEN {1} ELSE {})
                          \cup (IF c.stores THEN {2} ELSE {})) ]
\* The tail of a function that hands it to a v*printf.
SinkUses(at) ==
  LET s == At(program, at)
      list == In(at, VaListSinks[s.x.callee].list)
      handed == IF Reachable(list) /\ Place(list) \in DOMAIN memory THEN {memory[Place(list)]} ELSE {}
      cells == UNION {{memory[x] : x \in {y \in DOMAIN memory : y[1] = h[2] /\ y[1][1] = "tail"}} : h \in {z \in handed : IsPtr(z)}}
  IN  [reads |-> cells, writes |-> IF WritesTail(In(at, VaListSinks[s.x.callee].format)) THEN cells ELSE {}]
Uses(at) ==
  LET s == At(program, at) IN
  CASE s.op = "load" -> [reads |-> {In(at, 1)}, writes |-> {}]
    [] s.op \in {"store", "memset"} -> [reads |-> {}, writes |-> {In(at, 1)}]
    [] s.op \in {"memcpy", "vacopy"} -> [reads |-> {In(at, 2)}, writes |-> {In(at, 1)}]
    [] s.op = "vastart" -> [reads |-> {}, writes |-> {In(at, 1)}]
    [] s.op = "vaend" -> [reads |-> {In(at, 1)}, writes |-> {In(at, 1)}]
    [] s.op = "call" /\ ~Inside(at) /\ HasContract(program, s) -> LibraryUses(at)
    [] s.op = "call" /\ ~Inside(at) /\ IsSink(s) -> SinkUses(at)
    [] OTHER -> [reads |-> {}, writes |-> {}]

\* Every object a statement reads or writes is named by an access edge of its
\* function, from which mod/ref rows are made, or has escaped to the code that
\* is called there; an audited function's reads of its tail are edges of
\* whoever passed it.
HasEdge(f, kinds, end, c) ==
  \E e \in graph.edges : e.kind \in kinds /\ e.owner \in f /\ MayName(e[end], c[2])
AccessesCovered ==
  phase = "run" =>
    \A at \in {x \in Statements(program) : Ready(x)} :
      LET owner == IF at[1] \in solution.audited THEN DOMAIN program.body ELSE {at[1]}
          Left(c) == Seed("external", at) \in graph.seeds /\ c[2] \in solution.escaped
          Client(cells) == {c \in cells : Reachable(c) /\ Tracked(c[2]) /\ c[2][1] # "library" /\ ~Left(c)}
      IN  /\ \A c \in Client(Uses(at).reads) : HasEdge(owner, {"load", "memcpy"}, "src", c)
          /\ \A c \in Client(Uses(at).writes) : HasEdge({at[1]}, {"store", "memcpy"}, "dst", c)

\* Together: whatever the lowered program does when it runs, the pointers it
\* holds and the objects it reads and writes are in the graph (lower_stmt).
ExecutionsCovered == PointersCovered /\ AccessesCovered

\* A value proved to come from one allocation never points elsewhere, and one
\* proved empty never points at all (allocation_storage_roots).
RootsSound ==
  phase = "run" =>
    \A r \in roots :
      r[1] \in DOMAIN env /\ IsPtr(env[r[1]]) => r[2] = RootedAt(env[r[1]][2])

\* A pointer made from an integer of no known origin and assumed to name no
\* storage is never used as an address unless the report of assumed tags says
\* by which way it left its function (collect_inttoptr_local_uses).
AddressOperands(at) ==
  LET s == At(program, at) IN
  IF s.op \in {"load", "store", "gep", "memset", "icall"} THEN {1} ELSE IF s.op = "memcpy" THEN {1, 2} ELSE {}
AssumedTagsCounted ==
  phase = "run" =>
    /\ \A c \in {env[n] : n \in DOMAIN env} \cup {memory[x] : x \in DOMAIN memory} :
         IsTag(c) /\ c[3] # "local" => \E t \in graph.tags : t.at = c[2] /\ t.uses[c[3]]
    /\ \A at \in {x \in Statements(program) : Ready(x)} :
         \A k \in AddressOperands(at) : ~(IsTag(In(at, k)) /\ In(at, k)[3] = "local")

\* What the graph proves of single values holds: both of the above.
ValueProofsSound == RootsSound /\ AssumedTagsCounted

\* Inferred lanes are exact: where a cycle of constant displacements is made a
\* lane, its modulus is the greatest common divisor of the sums of the closed
\* walks through it, neither finer (offsets would be lost) nor coarser.
WalkSums(arcs) ==
  LET nodes == {e.src : e \in arcs}
      walk[n \in 0 .. Cardinality(nodes)] ==
        IF n = 0 THEN {<<m, m, 0>> : m \in nodes}
        ELSE LET before == walk[n - 1]
             IN  UNION {{<<w[1], e.dst, w[3] + e.delta.offset>> : e \in {a \in arcs : a.src = w[2]}} : w \in before}
  IN  UNION {walk[n] : n \in DOMAIN walk}
Strides(arcs) == {AbsOf(w[3]) : w \in {x \in WalkSums(arcs) : x[1] = x[2]}}
SumOf(arcs) ==
  LET total[s \in SUBSET arcs] ==
        IF s = {} THEN 0 ELSE LET e == CHOOSE x \in s : TRUE IN AbsOf(e.delta.offset) + total[s \ {e}]
  IN  total[arcs]
LanesExact ==
  phase \in {"roots", "run"} /\ program.lanes =>
    \A c \in CyclicComponents(drawn) :
      LET arcs == Internal(Arcs(drawn), c)
          stride == Gcd(Strides(arcs))
          Made(e) == [e EXCEPT !.delta = Lane(stride, @.offset)]
      IN  (\A e \in arcs : IsExact(e.delta)) =>
            \A e \in arcs :
              IF stride \notin 1 .. MaxOffset \/ e.delta = Exact(0) THEN e \in graph.edges
              ELSE Made(e) \in graph.edges \/ (SumOf(arcs) > MaxWide /\ e \in graph.edges)
=============================================================================
