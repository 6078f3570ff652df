---------------------------- MODULE NaiveSolution ----------------------------
(***************************************************************************)
(* The least solution, by naive iteration of what every constraint asks.   *)
(* The facts are kept as a set of cell and fact pairs.  It shares nothing  *)
(* with the solver but the reading of the constraints.                     *)
(***************************************************************************)
EXTENDS AndersenSolve

Onto(cell, facts) == {<<cell, fact>> : fact \in facts}

AskedBy(owner, join, v) ==
  UNION {
    CASE join[1] = "load" -> Onto(join[2], At(v, o))
      [] join[1] = "gep" -> {<<join[3], RequestedField(o, join[2])>>}
      [] join[1] = "store" ->
           IF join[2] \notin Regions THEN Onto(o, At(v, join[2]))
           ELSE {<<o, join[2]>>} \cup
                (IF join[3] = NoLabel THEN {} ELSE {<<o, join[3]>>, <<join[2], join[3]>>})
    : o \in PointeesOf(At(v, owner))}

Bulk(m, v) ==
  LET contents == UNION {At(v, o) : o \in PointeesOf(At(v, Source(m)))}
  IN  UNION {Onto(t, contents) : t \in PointeesOf(At(v, Destination(m)))}

Asked(sys, v) ==
  sys.addrs \cup {<<r, r>> : r \in RegionsOf(sys)}
  \cup (UNION {Onto(e[2], At(v, e[1])) : e \in sys.copies})
  \cup (UNION {AskedBy(j[1], j[2], v) : j \in sys.joins})
  \cup UNION {Bulk(m, v) : m \in sys.memcpys}

AskedDirect(sys, v) ==
  (UNION {IF j[2][1] = "gep" THEN {} ELSE At(v, j[1]) \cap Objects : j \in sys.joins})
  \cup UNION {(At(v, Destination(m)) \cap Objects) \cup
              (IF PointeesOf(At(v, Destination(m))) = {} THEN {}
               ELSE At(v, Source(m)) \cap Objects)
             : m \in sys.memcpys}

\* What is known so far, and what one round of asking every constraint adds.
Guesses ==
  [facts : SUBSET (Cells \X Facts), fields : SUBSET FieldCells, direct : SUBSET Objects]

Asking(systems, guess) ==
  LET direct == guess.direct \cup UNION {AskedDirect(sys, guess.facts) : sys \in systems}
      facts == guess.facts
                 \cup (UNION {Asked(sys, guess.facts) : sys \in systems})
                 \cup UNION {Onto(e[2], At(guess.facts, e[1])) :
                              e \in Overlapping(guess.fields, guess.direct)}
  IN  [ facts |-> facts, direct |-> direct,
        fields |-> guess.fields \cup {UnknownField(o) : o \in direct}
                     \cup ({a[2] : a \in facts} \cap FieldCells) ]

Least(systems) ==
  LET closure[guess \in Guesses] ==
        IF Asking(systems, guess) = guess THEN guess
        ELSE closure[Asking(systems, guess)]
      least == closure[[facts |-> {}, fields |-> {}, direct |-> {}]]
  IN  [ value |-> [c \in Cells |-> At(least.facts, c)],
        fields |-> least.fields, direct |-> least.direct ]
=============================================================================
