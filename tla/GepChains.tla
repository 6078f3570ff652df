------------------------------ MODULE GepChains ------------------------------
(***************************************************************************)
(* Two pointers into one allocation, each moved by a chain of GEPs.  Beside *)
(* the location the solver derives for a pointer (its field cell), the     *)
(* specification keeps the concrete byte offset one execution of the       *)
(* analysed program reaches.  A GEP whose index is not constant adds any   *)
(* offset its location stands for.                                         *)
(***************************************************************************)
EXTENDS FieldLocations

CONSTANTS
  Pointers,   \* the pointers
  Geps,       \* the GEP instructions, [byte_off, lane] as in the PIR
  Widths,     \* access widths, {} for an unknown extent
  Window,     \* bound on the concrete offsets an execution reaches
  MaxGeps     \* bound on the length of a chain

ASSUME ChainAssumption ==
  /\ \A g \in Geps :
       /\ g.byte_off \subseteq I64
       /\ \A lane \in g.lane : lane.modulus \in Nat /\ lane.residue \in I64
  /\ \A w \in Widths : w \subseteq Nat /\ \A m, n \in w : m = n
  /\ Window \subseteq Int /\ 0 \in Window
  /\ MaxGeps \in Nat

VARIABLES
  location,   \* FieldLocation derived for each pointer
  offset,     \* concrete offset of each pointer
  length      \* GEPs applied to each pointer so far

vars == <<location, offset, length>>

Init ==
  /\ location = [p \in Pointers |-> Exact(0)]
  /\ offset = [p \in Pointers |-> 0]
  /\ length = [p \in Pointers |-> 0]

\* The solver's nested GEP: the new location is the old one plus the delta,
\* root-relative; a no-op sum keeps the old field cell.
Gep(p, g) ==
  LET delta == from_gep(g.byte_off, g.lane)
  IN  /\ length[p] < MaxGeps
      /\ \E step \in Offsets(delta, Window) :
           /\ offset[p] + step \in Window
           /\ offset' = [offset EXCEPT ![p] = @ + step]
      /\ location' = [location EXCEPT ![p] = add(@, delta)]
      /\ length' = [length EXCEPT ![p] = @ + 1]

Next == \E p \in Pointers, g \in Geps : Gep(p, g)

Spec == Init /\ [][Next]_vars

-----------------------------------------------------------------------------
(***************************************************************************)
(* Chains never lose the address: whatever GEPs were applied, in whatever  *)
(* order, with overflow and with lanes of different moduli, the concrete   *)
(* offset is one the derived location stands for (FieldLocation::add).     *)
(***************************************************************************)
ChainSound == \A p \in Pointers : offset[p] \in Offsets(location[p], Window)

(***************************************************************************)
(* The two relations are safe and exact.  On locations that chains reach,  *)
(* may_alias holds just when some pair of executions reaches one address,  *)
(* and may_overlap with known widths just when some pair touches one byte. *)
(* A false negative loses a flow between fields; a false positive joins    *)
(* unrelated fields of every structure.  The window is wider than any      *)
(* least common multiple.                                                  *)
(***************************************************************************)
Span(l, w) == UNION {o .. o + Bytes(w) - 1 : o \in Offsets(l, Window)}

RelationsExact ==
  \A p, q \in Pointers :
    /\ may_alias(location[p], location[q])
         <=> Offsets(location[p], Window) \cap Offsets(location[q], Window) # {}
    /\ \A v, w \in Widths \ {{}} :
         may_overlap(Region(location[p], v), Region(location[q], w))
           <=> Span(location[p], v) \cap Span(location[q], w) # {}
=============================================================================
