------------------------ MODULE SteensgaardProperties ------------------------
(***************************************************************************)
(* What the base tier promises when it stops, and what never happens on    *)
(* the way there.                                                          *)
(***************************************************************************)
EXTENDS Steensgaard

Roots == {c \in Class \ spare : rep[c] = c}
TargetsOf(v) == IF pointee[rep[v]] = NoClass THEN {} ELSE {rep[pointee[rep[v]]]}

(***************************************************************************)
(* At rest, an indirect call passes its arguments to the parameters of     *)
(* every compatible function in its operand's class, and takes its result, *)
(* whichever of the two came to the class first and however often the      *)
(* class was joined in between (process_class, the processed frontier in   *)
(* join).  An operand proven empty calls nothing.                          *)
(***************************************************************************)
IndirectCalls == {site \in Listed(program.indirect) : ~IsEmpty(program.operand[site])}

PassedTo(src, dst) ==
  PointerTransfer(program, src, dst) =>
    IF src \in program.empty THEN "empty" \in facts[rep[dst]] ELSE rep[src] = rep[dst]

CallsBound ==
  AtRest => \A site \in IndirectCalls :
    \A c \in TargetsOf(program.operand[site]) :
      \A f \in {g \in fns[c] : <<site, g>> \in program.compatible} :
        /\ \A i \in DOMAIN Args(site) \cap DOMAIN Params(f) :
             \A v \in Params(f)[i] : PassedTo(Args(site)[i], v)
        /\ \A v \in program.ret[f], x \in program.result[site] : PassedTo(v, x)

(***************************************************************************)
(* At rest, an indirect call whose operand may come from outside, or that  *)
(* may call an external function, has published what its arguments point   *)
(* to, and its result is external (apply_external_call).                   *)
(***************************************************************************)
MayLeave(site, c) ==
  "ext" \in facts[c] \/ \E f \in fns[c] \cap program.external : <<site, f>> \in program.compatible

UnknownCallsPublish ==
  AtRest => \A site \in IndirectCalls :
    \A c \in {d \in TargetsOf(program.operand[site]) : MayLeave(site, d)} :
      /\ \A i \in DOMAIN Args(site) :
           \/ Args(site)[i] \in program.empty
           \/ \E d \in TargetsOf(Args(site)[i]) : Escape \subseteq facts[d]
      /\ \A v \in program.result[site] : "ext" \in facts[rep[v]]

(***************************************************************************)
(* At rest, a function foreign code can reach takes its parameters from    *)
(* outside and publishes what it returns (process_class).                  *)
(***************************************************************************)
EscapedFunctionsAreOpen ==
  AtRest => \A c \in Roots : \A f \in (IF "esc" \in facts[c] THEN fns[c] ELSE {}) :
    /\ \A i \in DOMAIN Params(f) : \A v \in Params(f)[i] : "ext" \in facts[rep[v]]
    /\ \A v \in program.ret[f] \ program.empty :
         \E d \in TargetsOf(v) : Escape \subseteq facts[d]

(***************************************************************************)
(* Together: at rest, every way control can enter or leave is accounted    *)
(* for (process_class, consider_indirect_pair).                            *)
(***************************************************************************)
CallsClosed == CallsBound /\ UnknownCallsPublish /\ EscapedFunctionsAreOpen

(***************************************************************************)
(* An allocation escapes as a whole: once it has escaped, every region of  *)
(* it is in an escaped class, those made later included                    *)
(* (assert_field_root_coherence); at rest it has escaped if one region of  *)
(* it is in such a class.  The reason it escaped for has a name, which the *)
(* regions made later take on (field_class panics without one).            *)
(***************************************************************************)
EscapeIsWhole ==
  /\ \A k \in DOMAIN cells : k[1] \in DOMAIN escaped => Escape \subseteq facts[rep[cells[k]]]
  /\ \A o \in DOMAIN escaped : escaped[o] # {}
  /\ AtRest => \A c \in Roots :
       "alloc" \in facts[c] => {g[1] : g \in regions[c]} \subseteq DOMAIN escaped

(***************************************************************************)
(* What the solver asserts of itself when the queue is empty (run), and    *)
(* already of each join, holds at every step.                              *)
(*   OneHop: a value never falls together with a location, which alone can *)
(*   escape or hold functions and regions (assert_one_hop_invariant).      *)
(*   NullIsolated: the null constants of the program stay by themselves,   *)
(*   each place that could touch one tests for it first                    *)
(*   (assert_canonical_null_isolated).                                     *)
(*   FieldsCoherent: a region of an allocation is found in its class       *)
(*   (assert_field_root_coherence).                                        *)
(***************************************************************************)
Members(c) == {n \in Class \ spare : rep[n] = c}

OneHop ==
  \A c \in {d \in Roots : Members(d) \cap Values # {}} :
    /\ Members(c) \subseteq Values
    /\ "esc" \notin facts[c] /\ fns[c] = {} /\ regions[c] = {}

\* Proven empty, and made by no instruction, call or caller.
CanonicalNulls(p) ==
  {v \in p.empty :
     /\ Producers(p, v) = {} /\ v \notin p.entry
     /\ \A f \in Functions : v \notin p.ret[f] /\ \A i \in DOMAIN p.params[f] : v \notin p.params[f][i]
     /\ \A site \in Sites : v \notin p.result[site]
     /\ \A seed \in Listed(p.seeds) :
          seed.kind \in {"int_to_ptr", "unknown_result", "vararg_list"} => seed.at # v}

NullIsolated ==
  \A v \in CanonicalNulls(program) :
    /\ "empty" \in facts[rep[v]] /\ facts[rep[v]] \cap {"ext", "esc"} = {}
    /\ pointee[rep[v]] = NoClass

FieldsCoherent == \A k \in DOMAIN cells : \E g \in regions[rep[cells[k]]] : g[1] = k[1]

AssertionsHold == OneHop /\ NullIsolated /\ FieldsCoherent
=============================================================================
