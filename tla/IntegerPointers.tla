--------------------------- MODULE IntegerPointers ---------------------------
(***************************************************************************)
(* Pointers that are turned into integers and back (pangs-pag): which      *)
(* detours lose nothing, which integers name no storage, where an integer  *)
(* may have its address from, and what is done with a pointer made from an *)
(* integer.                                                                *)
(*                                                                         *)
(* p.literal gives integer literals their value.  Addresses are the        *)
(* numbers 0 .. AllOnes; those below ReservedLimit, and as many minus one  *)
(* at the top, are reserved: no storage is there.                          *)
(***************************************************************************)
EXTENDS PirStatements

CONSTANTS
  AllOnes,        \* the highest address, 2^bits - 1
  ReservedLimit   \* RESERVED_LOW_ADDRESS_LIMIT, 4096

DefinedOnce(body, v) == Cardinality(Definitions(body, v)) = 1

(***************************************************************************)
(* Lossless round trips (collect_lossless_pointer_round_trips): every use  *)
(* of the integer turns it back, further on and at the same width.         *)
(***************************************************************************)
LosslessPtrToInt(body) ==
  {i \in DOMAIN body :
     /\ body[i].op = "ptrtoint" /\ body[i].x.as # "lossy"
     /\ UsesOf(body, body[i].dest) # {} /\ DefinedOnce(body, body[i].dest)
     /\ \A j \in UsesOf(body, body[i].dest) :
          body[j].op = "inttoptr" /\ body[j].x.as = "exact" /\ j > i}

\* The pointer a conversion gives back.
Restored(body, j) ==
  {body[i].in[1] : i \in {k \in LosslessPtrToInt(body) : body[k].dest = body[j].in[1]}}

(***************************************************************************)
(* What a pointer made from an integer is used for, followed through       *)
(* copies (collect_inttoptr_local_uses).                                   *)
(***************************************************************************)
\* A mutant: copies are not followed.
LocalCopiesNone(body, v) == {v}
LocalCopies(body, v) ==
  LET Grow(known) == known \cup {body[i].dest : i \in {j \in DOMAIN body :
                        body[j].op = "assign" /\ Inputs(body[j]) \cap known # {}}}
  IN  Fixpoint(Grow, {v}, ValuesOf(body))

\* The operands a statement takes as addresses.
Addresses(s) ==
  CASE s.op \in {"load", "store", "gep", "memset", "icall"} -> {s.in[1]}
    [] s.op = "memcpy" -> Inputs(s)
    [] s.op = "unknown" /\ s.x.reason = "inline_asm" -> Inputs(s)
    [] OTHER -> {}
StoredValues(s) == IF s.op = "store" THEN {s.in[2]} ELSE {}
PassedValues(s) == IF s.op \in {"call", "icall"} THEN Elements(Args(s)) ELSE {}
ReturnedValues(s) == IF s.op = "return" THEN Inputs(s) ELSE {}

UsedAs(body, v, Role(_)) == \E i \in DOMAIN body : Role(body[i]) \cap LocalCopies(body, v) # {}
LocalUses(body, v) ==
  [ address |-> UsedAs(body, v, Addresses), memory |-> UsedAs(body, v, StoredValues),
    call |-> UsedAs(body, v, PassedValues), returned |-> UsedAs(body, v, ReturnedValues) ]

(***************************************************************************)
(* Literals that name no storage (is_reserved_non_address_inttoptr): small *)
(* numbers, small negative numbers, and the bit patterns of the latter.    *)
(***************************************************************************)
IsReserved(n) ==
  IF n < 0 THEN -n < ReservedLimit
  ELSE n < ReservedLimit \/ (n <= AllOnes /\ AllOnes - n < ReservedLimit - 1)

is_reserved_non_address_inttoptr(p, s) ==
  s.x.as = "exact" /\ s.in[1] \in DOMAIN p.literal /\ IsReserved(p.literal[s.in[1]])

(***************************************************************************)
(* Where an integer has its address from (collect_pointer_integer_origins) *)
(* through copies and arithmetic; not complete when a part of it is not    *)
(* understood.                                                             *)
(***************************************************************************)
NoOrigin == [sources |-> {}, complete |-> FALSE]

RECURSIVE Trace(_, _, _, _, _)
Trace(p, body, v, before, visiting) ==
  IF ~Defined(body, v) THEN [sources |-> {}, complete |-> v \in DOMAIN p.literal]
  ELSE LET i == CHOOSE k \in Definitions(body, v) : TRUE
           s == body[i]
           parts == {Trace(p, body, x, i, visiting \cup {i}) : x \in Inputs(s)}
       IN IF i >= before \/ ~DefinedOnce(body, v) \/ i \in visiting THEN NoOrigin
          ELSE IF s.op = "ptrtoint" /\ s.x.as # "lossy" THEN [sources |-> Inputs(s), complete |-> TRUE]
          ELSE IF s.op \in {"assign", "scalar"} /\ s.in # <<>>
            THEN [sources |-> UNION {o.sources : o \in parts}, complete |-> \A o \in parts : o.complete]
          ELSE NoOrigin

\* The origin proof of a conversion, when there is one.
Origin(p, body, j) ==
  {o \in {Trace(p, body, body[j].in[1], j, {})} : body[j].x.as = "exact" /\ o.sources # {}}
==============================================================================
