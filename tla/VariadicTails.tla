---------------------------- MODULE VariadicTails ----------------------------
(***************************************************************************)
(* What a variadic function does with the arguments after its fixed ones   *)
(* (its tail), as pangs-pag proves it from the bodies: the tail is bound   *)
(* slot by slot, or handed on to a standard v*printf with a format that    *)
(* writes nothing, or audited to be only read.  Anything not proved is a   *)
(* boundary: the arguments escape.                                         *)
(***************************************************************************)
EXTENDS PirStatements, FieldLocations

Failed == "?"

\* local_alloca_roots: the allocations a value is derived from, whatever the
\* way; exact_local_alloca_root follows no displacement.
RECURSIVE AllocaRoots(_, _, _, _)
AllocaRoots(body, v, exact, visiting) ==
  IF v \in visiting \/ ~Defined(body, v) THEN {Failed}
  ELSE LET s == Definition(body, v) IN
    CASE s.op = "alloca" -> {v}
      [] s.op = "assign" \/ (s.op = "gep" /\ (exact => s.x.delta = Exact(0))) ->
           UNION {AllocaRoots(body, x, exact, visiting \cup {v}) : x \in Inputs(s)}
      [] OTHER -> {Failed}
OnlyRoot(roots) == IF Cardinality(roots) = 1 THEN CHOOSE r \in roots : TRUE ELSE Failed
unique_local_alloca_root(body, v) == OnlyRoot(AllocaRoots(body, v, FALSE, {}))
exact_local_alloca_root(body, v) == OnlyRoot(AllocaRoots(body, v, TRUE, {}))

\* Values derived from roots: by any source of a copy, or by every source.
local_pointer_derivatives(body, roots) ==
  LET Grow(known) == known \cup
        {body[i].dest : i \in {j \in DOMAIN body :
           body[j].op \in {"assign", "gep"} /\ Inputs(body[j]) \cap known # {}}}
  IN  Fixpoint(Grow, roots, ValuesOf(body) \cup roots)
unchanged_pointer_derivatives(body, root) ==
  LET Grow(known) == known \cup
        {body[i].dest : i \in {j \in DOMAIN body :
           body[j].op \in {"assign", "gep"} /\ body[j].in # <<>> /\ Inputs(body[j]) \subseteq known}}
  IN  Fixpoint(Grow, {root}, ValuesOf(body) \cup {root})

\* A local slot only ever loaded and stored, in whole.
local_slot_uses_are_confined(body, root) ==
  LET derived == local_pointer_derivatives(body, {root})
      Whole(v) == v \notin derived \/ exact_local_alloca_root(body, v) = root
  IN  \A i \in DOMAIN body : LET s == body[i] IN
        CASE s.op = "assign" -> TRUE
          [] s.op = "gep" /\ s.x.delta = Exact(0) -> Whole(s.in[1])
          [] s.op = "load" -> Whole(s.in[1])
          [] s.op = "store" -> s.in[2] \notin derived /\ Whole(s.in[1])
          [] OTHER -> Inputs(s) \cap derived = {}

\* value_is_unchanged_copy: through copies, and through such slots when all
\* that is stored there is the value.
UnchangedCopies(body, source) ==
  LET slot == [i \in {j \in DOMAIN body : body[j].op \in {"store", "load"}} |-> exact_local_alloca_root(body, body[i].in[1])]
      StoresTo(r) == {i \in DOMAIN slot : body[i].op = "store" /\ slot[i] = r}
      confined == {r \in {slot[i] : i \in DOMAIN slot} \ {Failed} : local_slot_uses_are_confined(body, r)}
      Copied(values, slots) == {body[i].dest : i \in {j \in DOMAIN body :
           \/ body[j].op = "assign" /\ body[j].in # <<>> /\ Inputs(body[j]) \subseteq values
           \/ body[j].op = "load" /\ slot[j] \in slots}}
      Filled(values) == {r \in confined : StoresTo(r) # {} /\ \A i \in StoresTo(r) : body[i].in[2] \in values}
      Grow(values) == values \cup Copied(values, Filled(values))
  IN  Fixpoint(Grow, {source}, ValuesOf(body) \cup {source})

(***************************************************************************)
(* Formats.  p.format[g][k + 1] says of the constant string g whether its  *)
(* tail from byte k on is free of %n (format_is_proven_percent_n_free).    *)
(* constant_format_bytes follows copies and constant displacements; a      *)
(* format that is anything else is not known.                              *)
(***************************************************************************)
RECURSIVE Formats(_, _, _)
Formats(p, v, visiting) ==
  LET defs == {at \in Statements(p) : At(p, at).dest = v} IN
  IF v \in DOMAIN p.format THEN {<<v, 0>>}
  ELSE IF v \in visiting \/ Cardinality(defs) # 1 THEN {<<Failed, 0>>}
  ELSE LET s == At(p, CHOOSE at \in defs : TRUE)
           from == UNION {Formats(p, x, visiting \cup {v}) : x \in Inputs(s)}
       IN CASE s.op = "assign" -> from
            [] s.op = "gep" /\ IsExact(s.x.delta) /\ s.x.delta.offset >= 0 -> {<<k[1], k[2] + s.x.delta.offset>> : k \in from}
            [] OTHER -> {<<Failed, 0>>}
constant_formats_are_percent_n_free(p, v) ==
  LET found == Formats(p, v, {}) IN
  /\ found # {}
  /\ \A k \in found : /\ k[1] # Failed
                      /\ k[2] + 1 \in DOMAIN p.format[k[1]] /\ p.format[k[1]][k[2] + 1]

FormatArg == [printf |-> 1, fprintf |-> 2, sprintf |-> 2, snprintf |-> 3]
SafePrintf(p, s) ==  \* proven_printf_effect
  /\ s.x.callee \in DOMAIN FormatArg /\ FormatArg[s.x.callee] \in DOMAIN s.in
  /\ constant_formats_are_percent_n_free(p, s.in[FormatArg[s.x.callee]])
Written(s) == IF s.x.callee \in {"sprintf", "snprintf"} THEN {1} ELSE {}

\* standard_va_list_sink: the v*printf functions.
Sink(fixed, format, list) == [fixed |-> fixed, format |-> format, list |-> list]
VaListSinks == [vprintf |-> Sink(2, 1, 2), vfprintf |-> Sink(3, 2, 3), vsnprintf |-> Sink(4, 3, 4)]

(***************************************************************************)
(* Positional binding (positionally_modeled_vararg_functions): every       *)
(* va_arg of the function is understood, all its callers are in sight and  *)
(* every one of them passes enough.                                        *)
(***************************************************************************)
Exported(p, f) == f \in p.exports \/ (p.library /\ f \in p.marked) \/ (~p.library /\ f = "main")
CallsOf(p, f) == {at \in Statements(p) : At(p, at).op = "call" /\ At(p, at).x.callee = f}
VarArgs(p, f) == {i \in DOMAIN p.body[f] : p.body[f][i].op = "vaarg"}
OpaqueVa(s) == s.op = "unknown" /\ s.x.reason = "va_arg"

positionally_modeled_vararg_functions(p) ==
  {f \in DOMAIN p.body \cap DOMAIN p.params :
     /\ f \in p.variadic /\ f \notin p.taken /\ ~Exported(p, f)
     /\ VarArgs(p, f) # {} /\ \A i \in DOMAIN p.body[f] : ~OpaqueVa(p.body[f][i])
     /\ CallsOf(p, f) # {}
     /\ \A at \in CallsOf(p, f), i \in VarArgs(p, f) :
          Len(At(p, at).in) > Len(Params(p, f)) + p.body[f][i].x.index}

(***************************************************************************)
(* Forwarders (internal_vfprintf_forwarder_format_index): a variadic       *)
(* function that opens its tail and hands it, once, to a v*printf or to a  *)
(* function that does so, together with a format that is one of its own    *)
(* parameters unchanged, and does nothing else with it.                    *)
(***************************************************************************)
ListUses(body, op) == {body[i].in[1] : i \in {j \in DOMAIN body : body[j].op = op}}
ListRoots(body, op) == {unique_local_alloca_root(body, v) : v \in ListUses(body, op)}

\* va_list_uses_are_confined: but for copies, the opening and the closing,
\* only the one call sees what is derived from the list.
va_list_uses_are_confined(body, derived, call, list, opens) ==
  \A i \in DOMAIN body : LET s == body[i] IN
    \/ Inputs(s) \cap derived = {}
    \/ s.op \in {"assign", "gep"} /\ s.dest \in derived /\ Inputs(s) \subseteq derived
    \/ opens /\ s.op \in {"vastart", "vaend"}
    \/ i = call /\ Positions(s, derived) = {list}

RECURSIVE FixedForwarders(_, _, _)
\* forwarding_call_arg_indexes: the format and list positions a call forwards.
Forwarding(p, s, visiting) ==
  IF s.x.callee \in DOMAIN VaListSinks
    THEN LET k == VaListSinks[s.x.callee]
         IN IF Len(s.in) = k.fixed THEN {<<k.format, k.list>>} ELSE {}
    ELSE {c \in FixedForwarders(p, s.x.callee, visiting) :
            c = <<0, 0>> \/ {c[1], c[2]} \subseteq DOMAIN s.in}

\* compute_fixed_vfprintf_forwarder: the format and list parameters of a
\* function that forwards both; <<0, 0>> when that needs the answer itself.
Takes(s, i, known) == {k \in DOMAIN known : s.in[i] \in known[k]}
CouldForward(s, copies, derived) ==
  s.op = "call" /\ \E i, j \in DOMAIN s.in :
    i # j /\ \E k \in Takes(s, i, copies), l \in Takes(s, j, derived) : k # l
ForwardingCalls(p, f, copies, derived, visiting) ==
  UNION {{i} \X Forwarding(p, p.body[f][i], visiting \cup {f}) :
         i \in {j \in DOMAIN p.body[f] : CouldForward(p.body[f][j], copies, derived)}}
\* Which parameters of its own a call c[1] forwards at the positions c[2].
ForwardedParams(body, copies, derived, c) ==
  Takes(body[c[1]], c[2][1], copies)
    \X {k \in Takes(body[c[1]], c[2][2], derived) : va_list_uses_are_confined(body, derived[k], c[1], c[2][2], FALSE)}
Agreed(body, copies, derived, found) ==
  IF \E c \in found : c[2] = <<0, 0>> THEN {<<0, 0>>}
  ELSE LET pairs == [c \in found |-> ForwardedParams(body, copies, derived, c)]
           single == {c \in found : Cardinality(pairs[c]) = 1 /\ \A k \in pairs[c] : k[1] # k[2]}
       IN IF Cardinality(single) = 1 THEN UNION {pairs[c] : c \in single} ELSE {}

FixedForwarders(p, f, visiting) ==
  IF External(p, f) \/ f \in p.variadic THEN {}
  ELSE IF f \in visiting THEN {<<0, 0>>}
  ELSE LET copies == [k \in DOMAIN Params(p, f) |-> UnchangedCopies(p.body[f], Params(p, f)[k])]
           derived == [k \in DOMAIN Params(p, f) |-> unchanged_pointer_derivatives(p.body[f], Params(p, f)[k])]
       IN  Agreed(p.body[f], copies, derived, ForwardingCalls(p, f, copies, derived, visiting))

\* The calls that are handed the opened lists, with the positions they forward.
TailSinks(p, f, lists) ==
  {s \in UNION {{i} \X Forwarding(p, p.body[f][i], {}) : i \in {j \in DOMAIN p.body[f] :
                  p.body[f][j].op = "call" /\ Inputs(p.body[f][j]) \cap lists # {}}} :
     s[2] # <<0, 0>> /\ p.body[f][s[1]].in[s[2][2]] \in lists}
FormatHandedOn(p, f, opened, lists, s) ==
  LET call == p.body[f][s[1]]
      formats == {k \in DOMAIN Params(p, f) : call.in[s[2][1]] \in UnchangedCopies(p.body[f], Params(p, f)[k])}
  IN  IF /\ unique_local_alloca_root(p.body[f], call.in[s[2][2]]) \in opened
         /\ va_list_uses_are_confined(p.body[f], lists, s[1], s[2][2], TRUE)
        THEN formats ELSE {}
OnlyOne(found) == IF Cardinality(found) = 1 THEN found ELSE {}
FormatForwarded(p, f, opened, lists) ==
  OnlyOne(UNION {FormatHandedOn(p, f, opened, lists, s) : s \in OnlyOne(TailSinks(p, f, lists))})
OpensProperly(body, opened) ==
  opened # {} /\ Failed \notin opened /\ ListRoots(body, "vaend") \subseteq opened
Forwarded(p, f, opened) ==
  IF OpensProperly(p.body[f], opened)
    THEN FormatForwarded(p, f, opened, local_pointer_derivatives(p.body[f], opened)) ELSE {}
ForwardedFormat(p, f) ==
  IF External(p, f) \/ f \notin p.variadic THEN {} ELSE Forwarded(p, f, ListRoots(p.body[f], "vastart"))

(***************************************************************************)
(* The audit (tail_entry_is_read_only): starting from a function that      *)
(* opens its tail, or from one handed the list or pointers taken from it,  *)
(* every use of the list and of what was read from it is a read, in the    *)
(* functions they are passed on to as well.  A cycle is refused.           *)
(***************************************************************************)
Entry(f, opens, lists, tails) == [f |-> f, opens |-> opens, lists |-> lists, tails |-> tails]

Lists(p, e) ==
  LET body == p.body[e.f]
      own == IF e.opens THEN ListRoots(body, "vastart") ELSE {}
  IN  local_pointer_derivatives(body, own \cup {Params(p, e.f)[k] : k \in e.lists})

\* What is read from a list, or from what was read from it.
Taken(p, e) ==
  LET body == p.body[e.f]
      lists == Lists(p, e)
      Delivers(s, known) ==
        \/ s.op = "load" /\ s.in[1] \in lists \cup known
        \/ s.op \in {"assign", "gep"} /\ Inputs(s) \cap known # {}
        \/ s.op = "vaarg"
      Grow(known) == known \cup {body[i].dest : i \in {j \in DOMAIN body :
                       Delivers(body[j], known) /\ MayCarryPointer(p, body[j].dest)}}
  IN  Fixpoint(Grow, {Params(p, e.f)[k] : k \in e.tails}, ValuesOf(body) \cup Elements(Params(p, e.f)))

RECURSIVE tail_entry_is_read_only(_, _, _)

\* tail_call_is_read_only
PassedOn(p, s, lists, tails, visiting) ==
  LET listed == Positions(s, lists)
      taken == Positions(s, tails) \ listed
      c == s.x.callee
  IN  IF ~External(p, c)
        THEN /\ listed \cup taken \subseteq 1 .. s.x.sig.fixed
             /\ tail_entry_is_read_only(p, Entry(c, FALSE, listed, taken), visiting)
      ELSE IF c \in DOMAIN VaListSinks
        THEN /\ Len(s.in) = VaListSinks[c].fixed /\ listed = {VaListSinks[c].list} /\ taken = {}
             /\ constant_formats_are_percent_n_free(p, s.in[VaListSinks[c].format])
      ELSE /\ listed = {} /\ HasContract(p, s)
           /\ LET k == Contracts[c] IN
              /\ k.keeps => 1 \notin taken
              /\ k.copies => 1 \notin taken
              /\ k.result[1] \in {"alias", "alias_or_fresh"} => k.result[2] \notin taken
              /\ \A i \in taken : IF i > k.fixed THEN SafePrintf(p, s) /\ i \notin Written(s)
                                  ELSE i \notin k.writes /\ i \in k.reads

\* A mutant: a store elsewhere is taken for a read of what it stores.
UseIsReadOrKept(p, s, lists, tails, visiting) ==
  \/ Inputs(s) \cap (lists \cup tails) = {}
  \/ s.op \in {"assign", "gep", "load", "vastart", "vaend"}
  \/ s.op = "store" /\ s.in[1] \notin tails
  \/ s.op = "call" /\ PassedOn(p, s, lists, tails, visiting)
\* tail_use_is_read_only
UseIsRead(p, s, lists, tails, visiting) ==
  \/ Inputs(s) \cap (lists \cup tails) = {}
  \/ s.op \in {"assign", "gep"} /\ (s.dest \in lists \cup tails \/ ~MayCarryPointer(p, s.dest))
  \/ s.op = "load"
  \/ s.op = "store" /\ s.in[1] \in lists /\ s.in[2] \notin lists
  \/ s.op = "memcpy" /\ s.in[1] \notin lists \cup tails /\ s.in[2] \in tails \ lists
  \/ s.op \in {"vastart", "vaend"} /\ s.in[1] \in lists
  \/ s.op = "call" /\ PassedOn(p, s, lists, tails, visiting)

tail_entry_is_read_only(p, e, visiting) ==
  /\ e \notin visiting /\ ~External(p, e.f)
  /\ LET body == p.body[e.f]
         opened == ListRoots(body, "vastart")
     IN /\ IF e.opens THEN OpensProperly(body, opened)
           ELSE ListUses(body, "vastart") \cup ListUses(body, "vaend") = {}
        /\ e.lists \cup e.tails \subseteq DOMAIN Params(p, e.f)
        /\ LET lists == Lists(p, e)
               tails == Taken(p, e)
           IN /\ \A i \in DOMAIN body : body[i].op \in {"assign", "load", "gep"} =>
                   ~(body[i].dest \in lists \cap tails)
              /\ \A i \in DOMAIN body : UseIsRead(p, body[i], lists, tails, visiting \cup {e})

variadic_tail_is_read_only(p, f) ==
  ~External(p, f) /\ f \in p.variadic /\ tail_entry_is_read_only(p, Entry(f, TRUE, {}, {}), {})

(***************************************************************************)
(* What a direct variadic call comes to (direct_vararg_call_treatment).    *)
(***************************************************************************)
IsBenign(p, s) ==
  \/ SafePrintf(p, s)
  \/ \E k \in ForwardedFormat(p, s.x.callee) :
       k \in DOMAIN s.in /\ constant_formats_are_percent_n_free(p, s.in[k])
  \/ variadic_tail_is_read_only(p, s.x.callee)

ConsumesTail(body) ==
  \E i \in DOMAIN body : body[i].op \in {"vaarg", "vastart", "vaend", "vacopy"} \/ OpaqueVa(body[i])

Treatment(p, s) ==
  LET c == s.x.callee IN
  IF External(p, c) /\ HasContract(p, [s EXCEPT !.dest = NoValue]) THEN "contract"
  ELSE IF IsBenign(p, s) THEN "read_only"
  ELSE IF External(p, c) THEN "boundary"
  ELSE IF c \in positionally_modeled_vararg_functions(p) THEN "positional"
  ELSE IF ConsumesTail(p.body[c]) THEN "boundary" ELSE "unused"
=============================================================================
