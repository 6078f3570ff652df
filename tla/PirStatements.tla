--------------------------- MODULE PirStatements ---------------------------
(***************************************************************************)
(* Programs in the pointer IR (pangs-pir): functions with bodies of        *)
(* statements over named values, and the table of library functions whose  *)
(* effects on client memory are known.  Names are strings; a value's name  *)
(* is its own throughout a program, and a value's one use of "null", of a  *)
(* literal or of a symbol's name stands for that constant.  Types, widths  *)
(* and source places are left out but for what decides a conversion.       *)
(***************************************************************************)
EXTENDS Integers, Sequences, FiniteSets

Statement(op, dest, operands, detail) ==
  [op |-> op, dest |-> dest, in |-> operands, x |-> detail]
Plain == [none |-> 0]
NoValue == ""

Alloca(d) == Statement("alloca", d, <<>>, Plain)
Assign(d, sources) == Statement("assign", d, sources, Plain)
ScalarOp(d, l, r) == Statement("scalar", d, <<l, r>>, Plain)
Load(d, address) == Statement("load", d, <<address>>, Plain)
Store(address, value) == Statement("store", NoValue, <<address, value>>, Plain)
GepBy(d, base, delta) == Statement("gep", d, <<base>>, [delta |-> delta])
\* A conversion is "exact" when integer and pointer have the same width in an
\* integral address space, and "compared" when lowering proved that the
\* integer is only compared.
PtrToInt(d, s, conversion) == Statement("ptrtoint", d, <<s>>, [as |-> conversion])
IntToPtr(d, s, conversion) == Statement("inttoptr", d, <<s>>, [as |-> conversion])
Memcpy(dst, src) == Statement("memcpy", NoValue, <<dst, src>>, Plain)
Memset(dst, byte) == Statement("memset", NoValue, <<dst, byte>>, Plain)
\* An instruction lowering does not know: "inline_asm", or anything else.
Opaque(reason, operands, results) ==
  Statement("unknown", NoValue, operands, [reason |-> reason, results |-> results])
Return(v) == Statement("return", NoValue, <<v>>, Plain)
\* A call's signature: how many fixed parameters, and whether more may follow.
Signature(fixed, vararg) == [fixed |-> fixed, vararg |-> vararg]
CallDirect(d, callee, sig, args) ==
  Statement("call", d, args, [callee |-> callee, sig |-> sig])
CallIndirect(d, operand, sig, args) ==
  Statement("icall", d, <<operand>> \o args, [sig |-> sig])
\* va_arg proven to read one slot of the tail, or every slot from one on.
VarArg(d, index, rest) == Statement("vaarg", d, <<>>, [index |-> index, rest |-> rest])
VaStart(list) == Statement("vastart", NoValue, <<list>>, Plain)
VaEnd(list) == Statement("vaend", NoValue, <<list>>, Plain)
VaCopy(dst, src) == Statement("vacopy", NoValue, <<dst, src>>, Plain)

Elements(seq) == {seq[i] : i \in DOMAIN seq}
Inputs(s) == Elements(s.in)
Args(s) == IF s.op = "icall" THEN Tail(s.in) ELSE s.in
Positions(s, values) == {i \in DOMAIN Args(s) : Args(s)[i] \in values}

Statements(p) == UNION {{<<f, i>> : i \in DOMAIN p.body[f]} : f \in DOMAIN p.body}
At(p, at) == p.body[at[1]][at[2]]
Definitions(body, v) == {i \in DOMAIN body : body[i].dest = v}
Defined(body, v) == Definitions(body, v) # {}
Definition(body, v) ==
  body[CHOOSE i \in Definitions(body, v) : \A j \in Definitions(body, v) : i <= j]
UsesOf(body, v) == {i \in DOMAIN body : v \in Inputs(body[i])}
ValuesOf(body) == UNION {Inputs(body[i]) \cup {body[i].dest} : i \in DOMAIN body}

MayCarryPointer(p, v) == v \notin p.scalars
External(p, f) == f \notin DOMAIN p.body
Params(p, f) == p.params[f]

\* What a growing set comes to.
Fixpoint(Grow(_), start, space) ==
  LET grown[s \in SUBSET space] == LET next == Grow(s) IN IF next = s THEN s ELSE grown[next]
  IN  grown[start]

(***************************************************************************)
(* Library functions (external_call_contract).  One entry per row of the   *)
(* table that differs in what the graph tells apart: where the result      *)
(* comes from, which arguments are read and written, what is copied,       *)
(* stored or kept, and what the arguments after the fixed ones are.        *)
(***************************************************************************)
Contract(fixed, vararg, result, reads, writes) ==
  [ fixed |-> fixed, vararg |-> vararg, result |-> result, reads |-> reads, writes |-> writes,
    copies |-> FALSE, stores |-> FALSE, keeps |-> FALSE, policy |-> "plain" ]

Contracts ==
  [ malloc |-> Contract(1, FALSE, <<"fresh">>, {}, {}),
    realloc |-> Contract(2, FALSE, <<"alias_or_fresh", 1>>, {}, {}),
    free |-> Contract(1, FALSE, <<"void">>, {}, {}),
    strdup |-> Contract(1, FALSE, <<"fresh">>, {1}, {}),
    strchr |-> Contract(2, FALSE, <<"alias", 1>>, {1}, {}),
    strlen |-> Contract(1, FALSE, <<"scalar">>, {1}, {}),
    strcmp |-> Contract(2, FALSE, <<"scalar">>, {1, 2}, {}),
    strcpy |-> Contract(2, FALSE, <<"alias", 1>>, {2}, {1}),
    memcpy |-> [Contract(3, FALSE, <<"alias", 1>>, {}, {}) EXCEPT !.copies = TRUE],
    memset |-> Contract(3, FALSE, <<"alias", 1>>, {}, {1}),
    strtok |-> [Contract(2, FALSE, <<"kept">>, {1, 2}, {1}) EXCEPT !.keeps = TRUE],
    strtoul |-> [Contract(3, FALSE, <<"scalar">>, {1}, {}) EXCEPT !.stores = TRUE],
    getenv |-> Contract(1, FALSE, <<"object">>, {1}, {}),
    ctype_b_loc |-> Contract(0, FALSE, <<"ctype">>, {}, {}),
    realpath |-> Contract(2, FALSE, <<"alias_or_fresh", 2>>, {1}, {2}),
    fread |-> Contract(4, FALSE, <<"scalar">>, {}, {1}),
    open |-> Contract(2, TRUE, <<"scalar">>, {1}, {}),
    fcntl |-> [Contract(2, TRUE, <<"scalar">>, {}, {}) EXCEPT !.policy = "no_tail"],
    printf |-> [Contract(1, TRUE, <<"scalar">>, {1}, {}) EXCEPT !.policy = "printf"],
    fprintf |-> [Contract(2, TRUE, <<"scalar">>, {2}, {}) EXCEPT !.policy = "printf"],
    sprintf |-> [Contract(2, TRUE, <<"scalar">>, {2}, {1}) EXCEPT !.policy = "printf"],
    snprintf |-> [Contract(3, TRUE, <<"scalar">>, {2, 3}, {1}) EXCEPT !.policy = "printf"],
    sscanf |-> [Contract(2, TRUE, <<"scalar">>, {1, 2}, {}) EXCEPT !.policy = "scanf"] ]

(***************************************************************************)
(* proven_external_call_contract: the table speaks of a function only when *)
(* the module merely declares it, with the shape the table gives it, and   *)
(* the call has that shape too (matches_signature).                        *)
(***************************************************************************)
HasContract(p, s) ==
  LET c == s.x.callee IN
  /\ External(p, c) /\ c \in DOMAIN p.declared /\ p.declared[c] = s.x.sig
  /\ c \in DOMAIN Contracts
  /\ s.x.sig = Signature(Contracts[c].fixed, Contracts[c].vararg)
  /\ IF Contracts[c].vararg THEN Len(s.in) >= Contracts[c].fixed
     ELSE Len(s.in) = Contracts[c].fixed
  /\ Contracts[c].result = <<"void">> => s.dest = NoValue
  /\ Contracts[c].policy = "no_tail" => Len(s.in) = Contracts[c].fixed
=============================================================================
