--------------------------- MODULE FieldLocations ---------------------------
(***************************************************************************)
(* The algebra of field locations: where inside an allocation a pointer    *)
(* may point.  A location is an exact byte offset, an affine lane (every   *)
(* offset congruent to a residue), or unknown.  The inclusion solver adds  *)
(* locations when GEPs nest and asks whether two locations may denote the  *)
(* same storage (FieldLocation, FieldRegion in pangs-solve; GepLane in     *)
(* pangs-pir).                                                             *)
(*                                                                         *)
(* Offsets are i64 in the code, and every addition is checked.  MinOffset  *)
(* and MaxOffset stand for i64::MIN and i64::MAX.                          *)
(***************************************************************************)
EXTENDS Integers, FiniteSets

CONSTANTS
  MinOffset,  \* i64::MIN
  MaxOffset   \* i64::MAX

ASSUME OffsetAssumption ==
  MinOffset \in Int /\ MaxOffset \in Nat \ {0} /\ MinOffset < 0

I64 == MinOffset .. MaxOffset

(***************************************************************************)
(* Lanes.                                                                  *)
(***************************************************************************)
\* Euclid's algorithm on u64.
gcd_u64[operands \in Nat \X Nat] ==
  LET lhs == operands[1]
      rhs == operands[2]
  IN  IF rhs = 0 THEN lhs ELSE gcd_u64[<<rhs, lhs % rhs>>]

Unknown == [kind |-> "unknown"]
Exact(offset) == [kind |-> "exact", offset |-> offset]

\* GepLane::new: a modulus that is zero or does not fit i64 gives no lane, and
\* the callers turn "no lane" into Unknown; the residue is normalised.
Lane(modulus, residue) ==
  IF modulus \in 1 .. MaxOffset
    THEN [kind |-> "lane", modulus |-> modulus, residue |-> residue % modulus]
    ELSE Unknown

\* Lane arithmetic with a checked residue sum: overflow gives no lane.
CheckedLane(modulus, residue) ==
  IF residue \in I64 THEN Lane(modulus, residue) ELSE Unknown

IsUnknown(l) == l.kind = "unknown"
IsExact(l)   == l.kind = "exact"
IsLane(l)    == l.kind = "lane"

ExactLocations == {Exact(o) : o \in I64}
AllLanes ==
  UNION {{Lane(m, r) : r \in 0 .. m - 1} : m \in 1 .. MaxOffset}
FieldLocationValues == ExactLocations \cup AllLanes \cup {Unknown}

\* FieldLocation::from_gep: an exact offset wins over a lane, a lane over
\* nothing.  A missing operand is written {}, a present one is a singleton.
from_gep(byte_off, lane) ==
  IF byte_off # {} THEN Exact(CHOOSE o \in byte_off : TRUE)
  ELSE IF lane # {} THEN LET given == CHOOSE x \in lane : TRUE
                         IN  Lane(given.modulus, given.residue)
  ELSE Unknown

(***************************************************************************)
(* FieldLocation::add: the location of a GEP by delta from base.           *)
(***************************************************************************)
\* Saturating instead of giving up.
AddSaturating(lhs, rhs) ==
  Exact(IF lhs + rhs > MaxOffset THEN MaxOffset
        ELSE IF lhs + rhs < MinOffset THEN MinOffset ELSE lhs + rhs)

AddExact(lhs, rhs) ==
  IF lhs + rhs \in I64 THEN Exact(lhs + rhs) ELSE Unknown

add(base, delta) ==
  IF IsUnknown(base) \/ IsUnknown(delta) THEN Unknown
  ELSE IF IsExact(base) /\ IsExact(delta) THEN AddExact(base.offset, delta.offset)
  ELSE IF IsExact(delta) THEN CheckedLane(base.modulus, base.residue + delta.offset)
  ELSE IF IsExact(base)  THEN CheckedLane(delta.modulus, delta.residue + base.offset)
  ELSE CheckedLane(gcd_u64[<<base.modulus, delta.modulus>>], base.residue + delta.residue)

(***************************************************************************)
(* FieldLocation::may_alias: can the two locations be the same address?    *)
(***************************************************************************)
OnLane(offset, lane) == offset % lane.modulus = lane.residue

may_alias(l, r) ==
  \/ IsUnknown(l) \/ IsUnknown(r)
  \/ IsExact(l) /\ IsExact(r) /\ l.offset = r.offset
  \/ IsExact(l) /\ IsLane(r)  /\ OnLane(l.offset, r)
  \/ IsLane(l)  /\ IsExact(r) /\ OnLane(r.offset, l)
  \/ /\ IsLane(l) /\ IsLane(r)
     /\ LET modulus == gcd_u64[<<l.modulus, r.modulus>>]
        IN  l.residue % modulus = r.residue % modulus

(***************************************************************************)
(* FieldRegion: a location accessed with a width.  Width {} is an access   *)
(* of unknown extent; {0} is an address identity, which occupies one byte. *)
(***************************************************************************)
Region(location, width) == [location |-> location, width |-> width]

\* Is some integer in min .. max congruent to residue?
congruence_in_range(residue, modulus, min, max) ==
  /\ min <= max
  /\ min + (((residue % modulus) - min) % modulus) <= max

Bytes(width) == IF width = {0} THEN 1 ELSE CHOOSE w \in width : TRUE

\* The last byte of the exact access left out.
LastByteMissed(lane, lane_width, exact, exact_width) ==
  congruence_in_range(lane.residue - exact, lane.modulus,
                      -(lane_width - 1), exact_width - 2)

lane_overlaps_exact(lane, lane_width, exact, exact_width) ==
  congruence_in_range(lane.residue - exact, lane.modulus,
                      -(lane_width - 1), exact_width - 1)

may_overlap(l, r) ==
  \/ IsUnknown(l.location) \/ IsUnknown(r.location)
  \/ l.width = {} \/ r.width = {}
  \/ /\ IsExact(l.location) /\ IsExact(r.location)
     /\ l.location.offset < r.location.offset + Bytes(r.width)
     /\ r.location.offset < l.location.offset + Bytes(l.width)
  \/ /\ IsExact(l.location) /\ IsLane(r.location)
     /\ lane_overlaps_exact(r.location, Bytes(r.width),
                            l.location.offset, Bytes(l.width))
  \/ /\ IsLane(l.location) /\ IsExact(r.location)
     /\ lane_overlaps_exact(l.location, Bytes(l.width),
                            r.location.offset, Bytes(r.width))
  \/ /\ IsLane(l.location) /\ IsLane(r.location)
     /\ congruence_in_range(l.location.residue - r.location.residue,
                            gcd_u64[<<l.location.modulus, r.location.modulus>>],
                            -(Bytes(l.width) - 1), Bytes(r.width) - 1)

(***************************************************************************)
(* What a location means: the offsets of a window it stands for.           *)
(***************************************************************************)
StandsFor(l, offset) ==
  \/ IsUnknown(l)
  \/ IsExact(l) /\ offset = l.offset
  \/ IsLane(l) /\ OnLane(offset, l)

Offsets(l, window) == {o \in window : StandsFor(l, o)}
=============================================================================
