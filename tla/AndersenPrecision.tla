-------------------------- MODULE AndersenPrecision --------------------------
(***************************************************************************)
(* The worklist algorithm computes no more than the constraints ask for.   *)
(* Solutions pairs programs with solutions of all their systems; the       *)
(* solver must stay below each of them at every step.  With QuiescentSound *)
(* this makes the result the least solution, so it does not depend on the  *)
(* order in which cells were taken, on when cycles were collapsed, or on   *)
(* when a call binding was found.                                          *)
(*                                                                         *)
(* A root that refuses a lane makes an order-dependent choice, so a known  *)
(* solution refuses none and the cap has room for every lane of it.        *)
(***************************************************************************)
EXTENDS AndersenSolve

CONSTANT Solutions   \* pairs of a program and a solution of it

ASSUME SolutionAssumption ==
  /\ Solutions \subseteq [program : Programs,
                          solution : [value : Tables(Facts), fields : SUBSET FieldCells,
                                      direct : SUBSET Objects]]
  /\ \A known \in Solutions : \A o \in Objects :
       Cardinality(LanesOf(known.solution.fields, o)) <= LaneCap
  /\ \A known \in Solutions :
       IsSolution({known.program.base} \cup known.program.calls,
                  known.solution.value, known.solution.fields, known.solution.direct)
  /\ \A known \in Solutions : \A system \in {known.program.base} \cup known.program.calls :
       GrantsFields(system, known.solution.value, known.solution.fields)

(***************************************************************************)
(* Every fact, field and direct access the solver holds is in every        *)
(* solution: merging a copy cycle, factoring a memcpy through its summary  *)
(* cell and joining overlapping fields add nothing of their own.  Summary  *)
(* cells are the solver's and appear in no constraint.                     *)
(***************************************************************************)
Precise ==
  LET value == Value(solve)
  IN  \A sol \in {known.solution : known \in {k \in Solutions : k.program = program}} :
        /\ \A c \in Nodes \cup Pointees : value[c] \subseteq sol.value[c]
        /\ solve.fields \subseteq sol.fields
        /\ solve.direct \subseteq sol.direct
=============================================================================
