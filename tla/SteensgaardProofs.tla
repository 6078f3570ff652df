------------------------- MODULE SteensgaardProofs -------------------------
(***************************************************************************)
(* The base tier, for every program.                                       *)
(*                                                                         *)
(* TypeInv: every call on the agenda can be made when its turn comes,      *)
(* because what it needs exists or is made by a call before it (AgendaOK). *)
(*                                                                         *)
(* EscapeInv: a class is queued, or the agenda says it is to be worked     *)
(* off, or it is settled: its pairs considered, its calls opened, its      *)
(* functions published, its allocations escaped (WorkedOff).               *)
(*                                                                         *)
(* CallsInv: whatever working off a class found due has been done, or      *)
(* waits on the agenda.  The one fact a handler relies on across a join is *)
(* that two classes are one or the join that makes them one is being made  *)
(* (Same): a pointer still points to where it did while the join of what   *)
(* two classes point to is under way.                                      *)
(*                                                                         *)
(* At rest queue and agenda are empty, so everything has been done.        *)
(*                                                                         *)
(* AssertInv: a class is a value's or a location's, no null constant is    *)
(* joined with anything, and every call on the agenda keeps it so (Sound). *)
(***************************************************************************)
EXTENDS SteensgaardProperties, TLAPS

(***************************************************************************)
(* The calls on the agenda.  A term can be evaluated once what it is made  *)
(* of exists; a call makes one term evaluable, and needs some.             *)
(***************************************************************************)
Live == Class \ spare

Resolved ==
  {Of(c) : c \in Live}
  \cup {PointeeOf(v) : v \in {c \in Live : pointee[rep[c]] # NoClass}}
  \cup {CellOf(k[1], k[2]) : k \in DOMAIN cells}

Given(call) ==
  IF call.call = "pointee_of" THEN {PointeeOf(call.of)}
  ELSE IF call.call = "field_class" THEN {CellOf(call.root, call.region)}
  ELSE {}

Needed(p, call) ==
  IF call.call \in {"pointee_of", "replay_gep_transfers", "process_class", "widen"} THEN {Of(call.of)}
  ELSE IF call.call \in {"join", "unify_pointees"} THEN {call.left, call.right}
  ELSE IF call.call = "add_content_edge" THEN {call.src, call.dst}
  ELSE IF call.call = "add_gep_transfer" THEN {PointeeOf(call.src)}
  ELSE IF call.call = "set_facts" THEN {call.of}
  ELSE IF call.call = "register" THEN {PointeeOf(p.operand[call.site])}
  ELSE IF call.call = "shift" THEN {Of(call.of), PointeeOf(call.transfer.dst)}
  ELSE IF call.call = "shifted_field_class" THEN {PointeeOf(call.dst)}
  ELSE {}

CallNames ==
  {"pointee_of", "field_class", "join", "unify_pointees", "add_content_edge", "add_gep_transfer",
   "set_facts", "escape_allocation_fields", "apply_external_call", "publish_arguments",
   "apply_vararg_call", "bind_indirect_call", "register", "bind_arguments",
   "replay_gep_transfers", "process_class", "shift", "shifted_field_class", "widen"}

Reasons == LabelKinds \X (Nodes \cup Sites \cup {NoClass})

\* What a call carries.
Typed(call) ==
  /\ call.call \in CallNames
  /\ call.call \in {"apply_external_call", "publish_arguments", "apply_vararg_call",
                    "bind_indirect_call", "register", "bind_arguments"} => call.site \in Sites
  /\ call.call \in {"bind_indirect_call", "bind_arguments"} => call.function \in Functions
  /\ call.call \in {"publish_arguments", "apply_vararg_call", "bind_arguments"} =>
       call.from \in Nat \ {0}
  /\ call.call = "add_gep_transfer" => call.dst \in Values
  /\ call.call = "shift" => call.transfer.dst \in Values
  /\ call.call = "shifted_field_class" => call.dst \in Values
  /\ call.call = "set_facts" =>
       /\ call.names \subseteq FactNames /\ call.labels \subseteq Reasons
       /\ call.names \cap Escape # {} => call.labels # {}
  /\ call.call = "escape_allocation_fields" => call.labels \subseteq Reasons /\ call.labels # {}

CallOK(p, call, known) == Typed(call) /\ Needed(p, call) \subseteq known

(***************************************************************************)
(* A list of calls can be made in its order: each call has what it needs,  *)
(* from before or from an earlier one.                                     *)
(***************************************************************************)
Proper(s) == \E S : s \in Seq(S)

InTurn(p, s, i, known) ==
  /\ Typed(s[i])
  /\ \A t \in Needed(p, s[i]) : t \in known \/ \E j \in 1 .. i - 1 : t \in Given(s[j])

BatchOK(p, b, known) == Proper(b) /\ \A i \in DOMAIN b : InTurn(p, b, i, known)

AgendaOK(p, s, known) ==
  /\ Proper(s)
  /\ \A i \in DOMAIN s :
       \/ InTurn(p, s, i, known)
       \/ s[i].call = "in_any_order" /\ \A b \in s[i].batches : BatchOK(p, b, known)

\* A call that is still to be made.
Awaits(s, call) ==
  \/ \E i \in DOMAIN s : s[i] = call
  \/ \E i \in DOMAIN s :
       s[i].call = "in_any_order" /\ \E b \in s[i].batches : \E k \in DOMAIN b : b[k] = call

(***************************************************************************)
(* Lists of calls.                                                         *)
(***************************************************************************)
\* Where the calls of two lists are in their concatenation.
LEMMA Concatenation ==
  ASSUME NEW a, NEW b, Proper(a), Proper(b)
  PROVE  /\ Proper(a \o b)
         /\ Len(a) \in Nat /\ Len(b) \in Nat
         /\ DOMAIN a = 1 .. Len(a) /\ DOMAIN b = 1 .. Len(b)
         /\ DOMAIN (a \o b) = 1 .. Len(a) + Len(b)
         /\ \A i \in 1 .. Len(a) : (a \o b)[i] = a[i]
         /\ \A i \in 1 .. Len(b) : (a \o b)[Len(a) + i] = b[i]
<1>1. PICK S : a \in Seq(S) BY DEF Proper
<1>2. PICK T : b \in Seq(T) BY DEF Proper
<1>3. a \in Seq(S \cup T) /\ b \in Seq(S \cup T) BY <1>1, <1>2
<1>4. a \o b \in Seq(S \cup T) BY <1>3
<1> QED BY <1>3, <1>4 DEF Proper

\* Every call of a concatenation comes from one of the two lists, and none is lost.
LEMMA Parts ==
  ASSUME NEW a, NEW b, Proper(a), Proper(b)
  PROVE  /\ \A i \in DOMAIN a : i \in DOMAIN (a \o b) /\ (a \o b)[i] = a[i]
         /\ \A i \in DOMAIN b : \E j \in DOMAIN (a \o b) : (a \o b)[j] = b[i]
         /\ \A i \in DOMAIN (a \o b) : \/ i \in DOMAIN a /\ (a \o b)[i] = a[i]
                                      \/ \E j \in DOMAIN b : (a \o b)[i] = b[j]
<1>1. \A i \in DOMAIN a : i \in DOMAIN (a \o b) /\ (a \o b)[i] = a[i] BY Concatenation
<1>2. \A i \in DOMAIN b : Len(a) + i \in DOMAIN (a \o b) /\ (a \o b)[Len(a) + i] = b[i]
  BY Concatenation
<1>3. \A i \in DOMAIN (a \o b) : \/ i \in DOMAIN a /\ (a \o b)[i] = a[i]
                                 \/ \E j \in DOMAIN b : (a \o b)[i] = b[j]
  <2> SUFFICES ASSUME NEW i \in DOMAIN (a \o b), i \notin DOMAIN a
               PROVE  \E j \in DOMAIN b : (a \o b)[i] = b[j]
    BY Concatenation
  <2>1. i - Len(a) \in DOMAIN b /\ i = Len(a) + (i - Len(a)) BY Concatenation
  <2> QED BY <1>2, <2>1
<1> QED BY <1>1, <1>2, <1>3

\* Where the calls of a list are once its head is made.
LEMMA Remainder ==
  ASSUME NEW s, Proper(s), s # <<>>
  PROVE  /\ Proper(Tail(s))
         /\ Len(s) \in Nat \ {0} /\ DOMAIN s = 1 .. Len(s)
         /\ Len(Tail(s)) = Len(s) - 1
         /\ Head(s) = s[1]
         /\ \A i \in 1 .. Len(s) - 1 : Tail(s)[i] = s[i + 1]
<1>1. PICK S : s \in Seq(S) BY DEF Proper
<1>2. Tail(s) \in Seq(S) BY <1>1
<1> QED BY <1>1, <1>2 DEF Proper

\* More can be evaluated, later.
LEMMA LaterOK ==
  ASSUME NEW p, NEW s, NEW known, NEW later, known \subseteq later, AgendaOK(p, s, known)
  PROVE  AgendaOK(p, s, later)
BY DEF AgendaOK, BatchOK, InTurn

\* A call with what it needs, and a list without calls in any order.
LEMMA BatchIsAgenda ==
  ASSUME NEW p, NEW b, NEW known, BatchOK(p, b, known)
  PROVE  AgendaOK(p, b, known)
BY DEF AgendaOK, BatchOK

\* Nothing to do is in order.
LEMMA EmptyOK ==
  ASSUME NEW p, NEW known
  PROVE  BatchOK(p, <<>>, known) /\ AgendaOK(p, <<>>, known)
<1>1. <<>> \in Seq({})
  OBVIOUS
<1> QED BY <1>1 DEF AgendaOK, BatchOK, Proper

\* A single call that has what it needs is in order.
LEMMA OneOK ==
  ASSUME NEW p, NEW c, NEW known, CallOK(p, c, known)
  PROVE  BatchOK(p, <<c>>, known) /\ AgendaOK(p, <<c>>, known)
<1>1. <<c>> \in Seq({c}) /\ DOMAIN <<c>> = {1} /\ <<c>>[1] = c
  OBVIOUS
<1>2. BatchOK(p, <<c>>, known) BY <1>1 DEF BatchOK, InTurn, CallOK, Proper
<1> QED BY <1>2, BatchIsAgenda

\* A list of calls that uses what an earlier list makes.
LEMMA ThenOK ==
  ASSUME NEW p, NEW a, NEW b, NEW known, NEW made, BatchOK(p, a, known),
         BatchOK(p, b, known \cup made),
         \A t \in made : t \in known \/ \E j \in DOMAIN a : t \in Given(a[j])
  PROVE  BatchOK(p, a \o b, known)
<1>1. Proper(a) /\ Proper(b) BY DEF BatchOK
<1>2. DOMAIN (a \o b) = 1 .. Len(a) + Len(b) /\ Proper(a \o b) BY <1>1, Concatenation
<1>3. ASSUME NEW i \in DOMAIN (a \o b) PROVE InTurn(p, a \o b, i, known)
  <2>1. CASE i \in 1 .. Len(a)
    <3>1. InTurn(p, a, i, known) BY <1>1, <2>1, Concatenation DEF BatchOK
    <3>2. (a \o b)[i] = a[i] /\ \A j \in 1 .. i - 1 : (a \o b)[j] = a[j]
      BY <1>1, <2>1, Concatenation
    <3> QED BY <3>1, <3>2 DEF InTurn
  <2>2. CASE i \notin 1 .. Len(a)
    <3> DEFINE k == i - Len(a)
    <3>1. k \in DOMAIN b /\ (a \o b)[i] = b[k] /\ k \in Nat BY <1>1, <1>2, <2>2, Concatenation
    <3>2. InTurn(p, b, k, known \cup made) BY <3>1 DEF BatchOK
    <3>3. \A j \in 1 .. k - 1 : Len(a) + j \in 1 .. i - 1 /\ (a \o b)[Len(a) + j] = b[j]
      BY <1>1, <1>2, <2>2, <3>1, Concatenation
    <3>4. \A j \in DOMAIN a : j \in 1 .. i - 1 /\ (a \o b)[j] = a[j]
      BY <1>1, <1>2, <2>2, Concatenation
    <3> QED BY <3>1, <3>2, <3>3, <3>4 DEF InTurn
  <2> QED BY <2>1, <2>2
<1> QED BY <1>2, <1>3 DEF BatchOK

\* The head is made and others take its place.
LEMMA NextOK ==
  ASSUME NEW p, NEW s, s # <<>>, NEW a, NEW known, NEW later, known \subseteq later,
         AgendaOK(p, s, known), AgendaOK(p, a, later), Given(Head(s)) \subseteq later
  PROVE  AgendaOK(p, a \o Tail(s), later)
<1> DEFINE b == Tail(s)
<1>1. Proper(a) /\ Proper(s) BY DEF AgendaOK
<1>2. Proper(b) BY <1>1, Remainder
<1>3. DOMAIN (a \o b) = 1 .. Len(a) + Len(b) /\ Proper(a \o b) BY <1>1, <1>2, Concatenation
<1>4. ASSUME NEW i \in DOMAIN (a \o b)
      PROVE  \/ InTurn(p, a \o b, i, later)
             \/ /\ (a \o b)[i].call = "in_any_order"
                /\ \A c \in (a \o b)[i].batches : BatchOK(p, c, later)
  <2>1. CASE i \in 1 .. Len(a)
    <3>1. (a \o b)[i] = a[i] /\ \A j \in 1 .. i - 1 : (a \o b)[j] = a[j]
      BY <1>1, <1>2, <2>1, Concatenation
    <3>2. i \in DOMAIN a BY <1>1, <1>2, <2>1, Concatenation
    <3> QED BY <3>1, <3>2 DEF InTurn, AgendaOK
  <2>2. CASE i \notin 1 .. Len(a)
    <3> DEFINE k == i - Len(a) + 1
    <3>1. k - 1 \in DOMAIN b /\ (a \o b)[i] = b[k - 1] /\ k - 1 \in Nat /\ k - 1 # 0
      BY <1>1, <1>2, <1>3, <2>2, Concatenation
    <3>2. k \in DOMAIN s /\ b[k - 1] = s[k] BY <1>1, <1>2, <3>1, Remainder, Concatenation
    <3>3. ASSUME InTurn(p, s, k, known) PROVE InTurn(p, a \o b, i, later)
      <4>1. ASSUME NEW t \in Needed(p, s[k]), t \notin later
            PROVE  \E j \in 1 .. i - 1 : t \in Given((a \o b)[j])
        <5>1. PICK j \in 1 .. k - 1 : t \in Given(s[j]) BY <3>3, <4>1 DEF InTurn
        <5>2. j # 1 BY <1>1, <4>1, <5>1, Remainder
        <5>3. j - 1 \in 1 .. Len(b) /\ b[j - 1] = s[j]
          BY <1>1, <1>2, <3>1, <3>2, <5>1, <5>2, Remainder, Concatenation
        <5>4. Len(a) + (j - 1) \in 1 .. i - 1 /\ (a \o b)[Len(a) + (j - 1)] = b[j - 1]
          BY <1>1, <1>2, <1>3, <2>2, <5>1, <5>2, <5>3, Concatenation
        <5> QED BY <5>1, <5>3, <5>4
      <4> QED BY <3>1, <3>2, <3>3, <4>1 DEF InTurn
    <3>4. ASSUME s[k].call = "in_any_order", \A c \in s[k].batches : BatchOK(p, c, known)
          PROVE  \A c \in s[k].batches : BatchOK(p, c, later)
      BY <3>4 DEF BatchOK, InTurn
    <3> QED BY <3>1, <3>2, <3>3, <3>4 DEF AgendaOK
  <2> QED BY <2>1, <2>2
<1> QED BY <1>3, <1>4 DEF AgendaOK

\* Two lists in order, one after the other.
LEMMA AppendOK ==
  ASSUME NEW p, NEW a, NEW b, NEW known, AgendaOK(p, a, known), AgendaOK(p, b, known)
  PROVE  AgendaOK(p, a \o b, known)
<1>1. Proper(a) /\ Proper(b) BY DEF AgendaOK
<1>2. DOMAIN (a \o b) = 1 .. Len(a) + Len(b) /\ Proper(a \o b) BY <1>1, Concatenation
<1>3. ASSUME NEW i \in DOMAIN (a \o b)
      PROVE  \/ InTurn(p, a \o b, i, known)
             \/ /\ (a \o b)[i].call = "in_any_order"
                /\ \A c \in (a \o b)[i].batches : BatchOK(p, c, known)
  <2>1. CASE i \in 1 .. Len(a)
    <3>1. (a \o b)[i] = a[i] /\ \A j \in 1 .. i - 1 : (a \o b)[j] = a[j]
      BY <1>1, <2>1, Concatenation
    <3>2. i \in DOMAIN a BY <1>1, <2>1, Concatenation
    <3> QED BY <3>1, <3>2 DEF InTurn, AgendaOK
  <2>2. CASE i \notin 1 .. Len(a)
    <3> DEFINE k == i - Len(a)
    <3>1. k \in DOMAIN b /\ (a \o b)[i] = b[k] /\ k \in Nat BY <1>1, <1>2, <2>2, Concatenation
    <3>2. \A j \in 1 .. k - 1 : Len(a) + j \in 1 .. i - 1 /\ (a \o b)[Len(a) + j] = b[j]
      BY <1>1, <1>2, <2>2, <3>1, Concatenation
    <3> QED BY <3>1, <3>2 DEF InTurn, AgendaOK
  <2> QED BY <2>1, <2>2
<1> QED BY <1>2, <1>3 DEF AgendaOK

\* Lists in order, made in any order.
LEMMA AnyOrderOK ==
  ASSUME NEW p, NEW batches, NEW known, \A b \in batches : BatchOK(p, b, known)
  PROVE  AgendaOK(p, AnyOrder(batches), known)
<1> DEFINE c == [call |-> "in_any_order", batches |-> batches]
<1>1. <<c>> \in Seq({c}) /\ DOMAIN <<c>> = {1} /\ <<c>>[1] = c
  OBVIOUS
<1>2. c.call = "in_any_order" /\ c.batches = batches
  OBVIOUS
<1> HIDE DEF c
<1>3. AgendaOK(p, <<c>>, known) BY <1>1, <1>2 DEF AgendaOK, Proper
<1>4. AgendaOK(p, <<>>, known) BY EmptyOK
<1>5. AnyOrder(batches) = IF batches = {} THEN <<>> ELSE <<c>> BY DEF AnyOrder, c
<1> QED BY <1>3, <1>4, <1>5

(***************************************************************************)
(* What is still to be made.                                               *)
(***************************************************************************)
LEMMA AwaitsAppend ==
  ASSUME NEW a, NEW b, Proper(a), Proper(b), NEW call
  PROVE  Awaits(a \o b, call) <=> Awaits(a, call) \/ Awaits(b, call)
<1> DEFINE whole == a \o b
<1>1. /\ \A i \in DOMAIN a : i \in DOMAIN whole /\ whole[i] = a[i]
      /\ \A i \in DOMAIN b : \E j \in DOMAIN whole : whole[j] = b[i]
      /\ \A i \in DOMAIN whole : \/ i \in DOMAIN a /\ whole[i] = a[i]
                                \/ \E j \in DOMAIN b : whole[i] = b[j]
  BY Parts
<1> HIDE DEF whole
<1>2. Awaits(a, call) => Awaits(whole, call) BY <1>1 DEF Awaits
<1>3. Awaits(b, call) => Awaits(whole, call) BY <1>1 DEF Awaits
<1>4. Awaits(whole, call) => Awaits(a, call) \/ Awaits(b, call) BY <1>1 DEF Awaits
<1> QED BY <1>2, <1>3, <1>4 DEF whole

\* What waits behind the head waits; what waits is the head, in it or behind it.
LEMMA AwaitsRest ==
  ASSUME NEW s, Proper(s), s # <<>>, NEW call
  PROVE  /\ Awaits(Tail(s), call) => Awaits(s, call)
         /\ Awaits(s, call) =>
              \/ Awaits(Tail(s), call)
              \/ Head(s) = call
              \/ /\ Head(s).call = "in_any_order"
                 /\ \E b \in Head(s).batches : \E k \in DOMAIN b : b[k] = call
<1>1. \A i \in DOMAIN Tail(s) : i + 1 \in DOMAIN s /\ Tail(s)[i] = s[i + 1]
  BY Remainder, Concatenation
<1>2. \A i \in DOMAIN s : \/ s[i] = Head(s)
                          \/ \E j \in DOMAIN Tail(s) : s[i] = Tail(s)[j]
  <2> SUFFICES ASSUME NEW i \in DOMAIN s, i # 1
               PROVE  \E j \in DOMAIN Tail(s) : s[i] = Tail(s)[j]
    BY Remainder
  <2>1. i - 1 \in DOMAIN Tail(s) /\ Tail(s)[i - 1] = s[i] BY Remainder, Concatenation
  <2> QED BY <2>1
<1> DEFINE rest == Tail(s)  first == Head(s)
<1> HIDE DEF rest, first
<1>3. /\ \A i \in DOMAIN rest : \E j \in DOMAIN s : rest[i] = s[j]
      /\ \A i \in DOMAIN s : s[i] = first \/ \E j \in DOMAIN rest : s[i] = rest[j]
  BY <1>1, <1>2, Zenon DEF rest, first
<1>4. Awaits(rest, call) => Awaits(s, call) BY <1>3 DEF Awaits
<1>5. Awaits(s, call) =>
        \/ Awaits(rest, call)
        \/ first = call
        \/ first.call = "in_any_order" /\ \E b \in first.batches : \E k \in DOMAIN b : b[k] = call
  BY <1>3 DEF Awaits
<1> QED BY <1>4, <1>5 DEF rest, first

\* A call that is made leaves the list, the others stay.
LEMMA AwaitsNext ==
  ASSUME NEW s, Proper(s), s # <<>>, NEW a, Proper(a), NEW call,
         Head(s).call # "in_any_order", Awaits(s, call), call # Head(s)
  PROVE  Awaits(a \o Tail(s), call)
BY AwaitsRest, AwaitsAppend, Remainder

\* What the head calls waits afterwards.
LEMMA AwaitsNew ==
  ASSUME NEW s, Proper(s), s # <<>>, NEW a, Proper(a), NEW call, Awaits(a, call)
  PROVE  Awaits(a \o Tail(s), call)
BY AwaitsAppend, Remainder

\* Calls made in any order all wait.
LEMMA AwaitsAnyOrder ==
  ASSUME NEW batches, NEW b \in batches, NEW k \in DOMAIN b
  PROVE  Awaits(AnyOrder(batches), b[k])
<1> DEFINE c == [call |-> "in_any_order", batches |-> batches]
<1>1. AnyOrder(batches) = <<c>> /\ c.call = "in_any_order" /\ c.batches = batches
  BY DEF AnyOrder
<1>2. DOMAIN <<c>> = {1} /\ <<c>>[1] = c
  OBVIOUS
<1> HIDE DEF c
<1> QED BY <1>1, <1>2 DEF Awaits

\* Nothing is lost when one of several lists is begun.
LEMMA AwaitsChosen ==
  ASSUME NEW s, Proper(s), s # <<>>, Head(s).call = "in_any_order", NEW b \in Head(s).batches,
         Proper(b), NEW call, call # Head(s), Awaits(s, call)
  PROVE  Awaits((b \o AnyOrder(Head(s).batches \ {b})) \o Tail(s), call)
<1> DEFINE others == Head(s).batches \ {b}
<1>1. Proper(AnyOrder(others))
  <2>1. <<>> \in Seq({}) /\ <<[call |-> "in_any_order", batches |-> others]>>
                              \in Seq({[call |-> "in_any_order", batches |-> others]})
    OBVIOUS
  <2> QED BY <2>1 DEF AnyOrder, Proper
<1>2. Proper(b \o AnyOrder(others)) BY <1>1, Concatenation
<1>3. CASE Awaits(Tail(s), call) BY <1>2, <1>3, AwaitsAppend, Remainder
<1>4. ASSUME NEW c \in Head(s).batches, NEW k \in DOMAIN c, c[k] = call
      PROVE  Awaits(b \o AnyOrder(others), call)
  <2>1. CASE c = b
    <3>1. Awaits(b, call) BY <1>4, <2>1 DEF Awaits
    <3> QED BY <1>1, <3>1, AwaitsAppend
  <2>2. CASE c # b
    <3>1. c \in others BY <2>2
    <3>2. Awaits(AnyOrder(others), call) BY <1>4, <3>1, AwaitsAnyOrder
    <3> QED BY <1>1, <3>2, AwaitsAppend
  <2> QED BY <2>1, <2>2
<1>5. CASE \E c \in Head(s).batches : \E k \in DOMAIN c : c[k] = call
  <2>1. Awaits(b \o AnyOrder(others), call) BY <1>4, <1>5
  <2> QED BY <1>2, <2>1, AwaitsAppend, Remainder
<1> QED BY <1>3, <1>5, AwaitsRest

(***************************************************************************)
(* The types.                                                              *)
(***************************************************************************)
\* A program, with at most one certified place for each value.
ProgramOK ==
  /\ program.edges \in Seq(EdgeShapes) /\ program.seeds \in Seq(SeedShapes)
  /\ program.indirect \in Seq(Sites)
  /\ program.entry \in SUBSET Values
  /\ program.operand \in [Sites -> Values]
  /\ program.args \in [Sites -> Seq(Values)]
  /\ program.result \in [Sites -> SUBSET Values]
  /\ program.fixed \in [Sites -> Nat]
  /\ program.params \in [Functions -> Seq(SUBSET Values)]
  /\ program.ret \in [Functions -> SUBSET Values]
  /\ program.external \in SUBSET Functions
  /\ \A v \in Values : \A a \in program.exact[v] : a.root \in Allocations
  /\ \A site \in Sites : AtMostOne(program.result[site])
  /\ \A f \in Functions :
       AtMostOne(program.ret[f]) /\ \A i \in DOMAIN program.params[f] : AtMostOne(program.params[f][i])

TodoOK ==
  /\ todo.edges \in Seq(EdgeShapes) /\ todo.calls \in Seq(Sites) /\ todo.seeds \in Seq(SeedShapes)
  /\ todo.entry \in SUBSET Values
  /\ todo = [edges |-> todo.edges, calls |-> todo.calls, seeds |-> todo.seeds, entry |-> todo.entry]

\* Representatives represent themselves; a name not in use stands alone.
GraphOK ==
  /\ spare \subseteq Spare
  /\ rep \in [Class -> Class]
  /\ \A c \in Class : rep[rep[c]] = rep[c] /\ (rep[c] \in spare => rep[c] = c)
  /\ \A c \in spare : rep[c] = c
  /\ size \in [Class -> Nat]
  /\ pointee \in [Class -> Live \cup {NoClass}]
  /\ cells = [k \in DOMAIN cells |-> cells[k]] 
  /\ \A k \in DOMAIN cells : k = <<k[1], k[2]>> /\ cells[k] \in Live

FactsOK ==
  /\ facts \in [Class -> SUBSET FactNames]
  /\ sources \in [Class -> SUBSET Reasons]

ContentOK ==
  /\ sites \in [Class -> SUBSET Sites] /\ fns \in [Class -> SUBSET Functions]
  /\ opened \in [Class -> SUBSET Sites]
  /\ swept \in [Class -> [sites : SUBSET Sites, fns : SUBSET Functions]]
  /\ regions = [c \in Class |-> regions[c]] /\ spread = [c \in Class |-> spread[c]]
  /\ shifts = [c \in Class |-> shifts[c]]
  /\ \A c \in Class : Proper(shifts[c]) /\ \A t \in Transfers(c) : t.dst \in Values
  /\ \A c \in spare : sites[c] = {} /\ fns[c] = {} /\ regions[c] = {} /\ pointee[c] = NoClass

\* What escapes does so for a reason.
EscapeOK ==
  /\ escaped = [o \in DOMAIN escaped |-> escaped[o]]
  /\ \A o \in DOMAIN escaped : escaped[o] \subseteq Reasons /\ escaped[o] # {}
  /\ \A c \in Class : facts[c] \cap Escape # {} => sources[c] # {}

OnceOK ==
  /\ worklist \subseteq Live
  /\ externals \subseteq Sites /\ published \subseteq Functions /\ pairs \subseteq Sites \X Functions

TypeInv ==
  /\ ProgramOK /\ TodoOK /\ GraphOK /\ FactsOK /\ ContentOK /\ EscapeOK /\ OnceOK
  /\ AgendaOK(program, agenda, Resolved)

(***************************************************************************)
(* What is done stays done, and what is not is still to be done.           *)
(***************************************************************************)
\* Two classes are one, or the call being made makes them one.
Joining(x, y) ==
  /\ Calling("join")
  /\ {Find(Head(agenda).left), Find(Head(agenda).right)} = {rep[x], rep[y]}
Same(x, y) == rep[x] = rep[y] \/ Joining(x, y)

Points(v) == pointee[rep[v]] # NoClass
TargetIs(v, y) == Points(v) /\ y \in Live /\ Same(pointee[rep[v]], y)

\* What a pointer designates has escaped; a call is registered there.
Escaped(v) == \E y \in Class : TargetIs(v, y) /\ Escape \subseteq facts[rep[y]]
Registered(v, site) == \E y \in Class : TargetIs(v, y) /\ site \in sites[rep[y]]

Publishing(v) ==
  \E labels \in SUBSET Reasons : Awaits(agenda, Give(PointeeOf(v), Escape, labels))
Flows(src, dst) ==
  \/ PassedTo(src, dst)
  \/ src \notin program.empty /\ Awaits(agenda, Join(Of(src), Of(dst)))
  \/ src \in program.empty /\ Awaits(agenda, Give(Of(dst), {"empty"}, {}))

\* A class that is neither queued nor being worked off has been.
Pending(c) ==
  \/ c \in worklist
  \/ \E d \in Class : rep[d] = c /\ Awaits(agenda, Process(d))
Settled(c) ==
  /\ sites[c] \X fns[c] \subseteq pairs
  /\ "ext" \in facts[c] => sites[c] \subseteq opened[c]
  /\ "esc" \in facts[c] => fns[c] \subseteq published
  /\ "alloc" \in facts[c] => {g[1] : g \in regions[c]} \subseteq DOMAIN escaped

WorkedOff == \A c \in Live : rep[c] = c => Pending(c) \/ Settled(c)
SweptDone == \A c \in Class : swept[c].sites \X swept[c].fns \subseteq pairs
SpreadDone == \A c \in Class : {g[1] : g \in spread[c]} \subseteq DOMAIN escaped
FieldsEscaped ==
  \A k \in DOMAIN cells : k[1] \in DOMAIN escaped => Escape \subseteq facts[rep[cells[k]]]

EscapeInv == WorkedOff /\ SweptDone /\ SpreadDone /\ FieldsEscaped

CallsRegistered ==
  \A site \in IndirectCalls : \A v \in {program.operand[site]} :
    \/ \E i \in DOMAIN todo.calls : todo.calls[i] = site
    \/ Awaits(agenda, Register(site))
    \/ Registered(v, site)

ExternalDue(site) == site \in externals \/ Awaits(agenda, ApplyExternal(site))
OpenedDone == \A c \in Class : \A site \in opened[c] : ExternalDue(site)

\* The arguments and the result of a call to outside.
PublishDue(site) == \E j \in Nat \ {0} : Awaits(agenda, PublishFrom(site, j))
ArgumentOut(site, i, v) ==
  \/ v \in program.empty
  \/ Escaped(v) \/ Publishing(v)
  \/ \E j \in 1 .. i : Awaits(agenda, PublishFrom(site, j))
ResultIn(site, v) ==
  \/ "ext" \in facts[rep[v]]
  \/ Awaits(agenda, Give(Of(v), External, {}))
  \/ PublishDue(site)
ExternalsDone ==
  \A site \in externals :
    /\ \A i \in DOMAIN Args(site) : \A v \in {Args(site)[i]} : ArgumentOut(site, i, v)
    /\ \A v \in program.result[site] : ResultIn(site, v)

\* A call bound to a function.
BindDue(site, f) == \E j \in Nat \ {0} : Awaits(agenda, BindFrom(site, f, j))
ArgumentBound(site, f, i, a, v) ==
  Flows(a, v) \/ \E j \in 1 .. i : Awaits(agenda, BindFrom(site, f, j))
ResultBound(site, f, v, x) == Flows(v, x) \/ BindDue(site, f)
Bound(site, f) ==
  /\ f \in program.external => ExternalDue(site)
  /\ \A i \in DOMAIN Args(site) \cap DOMAIN Params(f) :
       \A a \in {Args(site)[i]}, v \in Params(f)[i] : ArgumentBound(site, f, i, a, v)
  /\ \A v \in program.ret[f], x \in program.result[site] : ResultBound(site, f, v, x)
PairsDone ==
  \A site \in Sites, f \in Functions :
    <<site, f>> \in pairs \cap program.compatible => Awaits(agenda, Bind(site, f)) \/ Bound(site, f)

PublishedDone ==
  \A f \in published :
    /\ \A i \in DOMAIN Params(f) : \A v \in Params(f)[i] : "ext" \in facts[rep[v]]
    /\ \A v \in program.ret[f] \ program.empty : Escaped(v) \/ Publishing(v)

CallsInv ==
  CallsRegistered /\ OpenedDone /\ ExternalsDone /\ PairsDone /\ PublishedDone

(***************************************************************************)
(* Classes and terms.                                                      *)
(***************************************************************************)
LEMMA NodesLive ==
  ASSUME GraphOK
  PROVE  Nodes \subseteq Live /\ Values \subseteq Live /\ Allocations \subseteq Live
         /\ Functions \subseteq Live /\ Live \subseteq Class /\ NoClass \notin Class
BY SteensgaardAssumption DEF GraphOK, Live, Class, Nodes, Owners

\* The representative of a class in use is in use and represents itself (find).
LEMMA RepLive ==
  ASSUME GraphOK, NEW c \in Live
  PROVE  c \in Class /\ rep[c] \in Live /\ rep[rep[c]] = rep[c]
BY DEF GraphOK, Live

\* A term stands for a node, for what one points to or for a region.
LEMMA TermsResolved ==
  ASSUME GraphOK
  PROVE  /\ \A c : Of(c) \in Resolved <=> c \in Live
         /\ \A v : PointeeOf(v) \in Resolved <=> v \in Live /\ pointee[rep[v]] # NoClass
         /\ \A o, region : CellOf(o, region) \in Resolved <=> <<o, region>> \in DOMAIN cells
BY DEF Resolved, Of, PointeeOf, CellOf, GraphOK

\* A term that can be evaluated names a representative in use.
LEMMA FindLive ==
  ASSUME GraphOK, NEW t \in Resolved
  PROVE  Find(t) \in Live /\ rep[Find(t)] = Find(t)
<1>1. CASE \E c \in Live : t = Of(c)
  BY <1>1, RepLive DEF Of, Find
<1>2. CASE \E v \in Live : t = PointeeOf(v) /\ pointee[rep[v]] # NoClass
  <2>1. PICK v \in Live : t = PointeeOf(v) /\ pointee[rep[v]] # NoClass BY <1>2
  <2>2. rep[v] \in Class BY RepLive DEF Live
  <2>3. pointee[rep[v]] \in Live BY <2>1, <2>2 DEF GraphOK
  <2>4. Find(t) = rep[pointee[rep[v]]] BY <2>1 DEF PointeeOf, Find
  <2> QED BY <2>3, <2>4, RepLive
<1>3. CASE \E k \in DOMAIN cells : t = CellOf(k[1], k[2])
  <2>1. PICK k \in DOMAIN cells : t = CellOf(k[1], k[2]) BY <1>3
  <2>2. k = <<k[1], k[2]>> /\ cells[k] \in Live BY <2>1 DEF GraphOK
  <2>3. Find(t) = rep[cells[k]] BY <2>1, <2>2 DEF CellOf, Find
  <2> QED BY <2>2, <2>3, RepLive
<1> QED BY <1>1, <1>2, <1>3 DEF Resolved

(***************************************************************************)
(* Before the solver starts.                                               *)
(***************************************************************************)
\* A certified place is in the allocation the storage roots name.
LEMMA PlacesCertified ==
  ASSUME NEW p, NEW v \in Values
  PROVE  \A a \in ExactAddresses(p)[v] : a.root \in p.root[v]
BY DEF ExactAddresses, Within

\* The program that is read, and what is still to be read of it, are well formed.
LEMMA InitProgram ==
  ASSUME Init
  PROVE  ProgramOK /\ TodoOK
<1>1. PICK p \in Programs :
        /\ program = [x \in DOMAIN p \cup {"exact"} |->
                        IF x = "exact" THEN ExactAddresses(p) ELSE p[x]]
        /\ todo = [edges |-> p.edges, calls |-> p.indirect, seeds |-> p.seeds, entry |-> p.entry]
  BY DEF Init
<1>2. p \in ProgramShapes BY ProgramAssumption
<1>3. /\ program.edges = p.edges /\ program.seeds = p.seeds /\ program.indirect = p.indirect
      /\ program.entry = p.entry /\ program.operand = p.operand /\ program.args = p.args
      /\ program.result = p.result /\ program.fixed = p.fixed /\ program.params = p.params
      /\ program.ret = p.ret /\ program.external = p.external
      /\ program.exact = ExactAddresses(p)
  BY <1>1, <1>2 DEF ProgramShapes
<1>4. \A v \in Values : p.root[v] \subseteq Allocations BY <1>2 DEF ProgramShapes
<1>5. \A v \in Values : \A a \in program.exact[v] : a.root \in Allocations
  BY <1>3, <1>4, PlacesCertified
<1>6. ProgramOK BY <1>2, <1>3, <1>5, ProgramAssumption DEF ProgramShapes, ProgramOK
<1>7. TodoOK BY <1>1, <1>2 DEF TodoOK, ProgramShapes
<1> QED BY <1>6, <1>7

\* Before it starts the solver is well formed (Solver::new).
LEMMA InitTypes ==
  ASSUME Init
  PROVE  TypeInv
<1>1. ProgramOK /\ TodoOK BY InitProgram
<1>2. Class \cap spare = Spare /\ Live = Nodes
  BY SteensgaardAssumption DEF Init, Class, Live, Nodes, Owners
<1>3. GraphOK
  <2>1. \A k \in Allocations \X {Home} : k = <<k[1], k[2]>> /\ k[1] \in Live
    BY <1>2 DEF Nodes, Owners
  <2> QED BY <1>2, <2>1 DEF Init, GraphOK
<1>4. FactsOK BY DEF Init, FactsOK, FactNames
<1>5. ContentOK
  <2>1. <<>> \in Seq({}) /\ Proper(<<>>) BY DEF Proper
  <2>2. \A c \in Class : Transfers(c) = {} BY DEF Init, Transfers
  <2>3. Nothing \in [sites : SUBSET Sites, fns : SUBSET Functions] BY DEF Nothing
  <2>4. \A c \in spare : c \notin Functions /\ c \notin Allocations
    BY SteensgaardAssumption DEF Init
  <2> QED BY <2>1, <2>2, <2>3, <2>4 DEF Init, ContentOK, Class
<1>6. EscapeOK BY DEF Init, EscapeOK, Escape
<1>7. OnceOK BY DEF Init, OnceOK
<1>8. AgendaOK(program, agenda, Resolved) BY EmptyOK DEF Init
<1> QED BY <1>1, <1>3, <1>4, <1>5, <1>6, <1>7, <1>8 DEF TypeInv

\* Before it starts nothing is due.
LEMMA InitSettled ==
  ASSUME Init
  PROVE  EscapeInv /\ CallsInv
<1>1. WorkedOff
  <2> SUFFICES ASSUME NEW c \in Class PROVE Settled(c) BY DEF WorkedOff, Live
  <2>1. facts[c] \subseteq {"empty"} BY DEF Init
  <2>2. sites[c] \X fns[c] = {} BY DEF Init
  <2> QED BY <2>1, <2>2 DEF Settled
<1>2. SweptDone /\ SpreadDone /\ FieldsEscaped
  BY DEF Init, SweptDone, SpreadDone, FieldsEscaped, Nothing
<1>3. CallsRegistered
  <2>1. PICK p \in Programs :
          /\ program = [x \in DOMAIN p \cup {"exact"} |->
                          IF x = "exact" THEN ExactAddresses(p) ELSE p[x]]
          /\ todo.calls = p.indirect
    BY DEF Init
  <2>2. program.indirect = todo.calls BY <2>1, ProgramAssumption DEF ProgramShapes
  <2> QED BY <2>2 DEF CallsRegistered, IndirectCalls, Listed
<1>4. OpenedDone /\ ExternalsDone /\ PairsDone /\ PublishedDone
  BY DEF Init, OpenedDone, ExternalsDone, PairsDone, PublishedDone
<1> QED BY <1>1, <1>2, <1>3, <1>4 DEF EscapeInv, CallsInv

(***************************************************************************)
(* Types, step by step.                                                    *)
(***************************************************************************)
\* The head of the agenda can be made.
LEMMA HeadOK ==
  ASSUME NEW p, NEW s, NEW known, AgendaOK(p, s, known), s # <<>>
  PROVE  \/ CallOK(p, Head(s), known)
         \/ Head(s).call = "in_any_order" /\ \A b \in Head(s).batches : BatchOK(p, b, known)
<1>1. Proper(s) BY DEF AgendaOK
<1>2. 1 \in DOMAIN s /\ Head(s) = s[1] BY <1>1, Remainder
<1> QED BY <1>2 DEF AgendaOK, InTurn, CallOK

\* The call being made is well formed and has what it needs.
LEMMA CalledOK ==
  ASSUME TypeInv, NEW name, Calling(name), name \in CallNames
  PROVE  /\ CallOK(program, Head(agenda), Resolved)
         /\ agenda # <<>> /\ Proper(agenda) /\ Head(agenda).call = name
<1>1. agenda # <<>> /\ Head(agenda).call = name BY DEF Calling
<1>2. AgendaOK(program, agenda, Resolved) BY DEF TypeInv
<1>3. name # "in_any_order" BY DEF CallNames
<1> QED BY <1>1, <1>2, <1>3, HeadOK DEF AgendaOK

\* The call returns.
LEMMA ReturnOK ==
  ASSUME NEW p, NEW s, s # <<>>, NEW known, NEW later, known \subseteq later,
         AgendaOK(p, s, known), Given(Head(s)) \subseteq later
  PROVE  AgendaOK(p, Tail(s), later)
<1>1. AgendaOK(p, <<>>, later) BY EmptyOK
<1>2. AgendaOK(p, <<>> \o Tail(s), later) BY <1>1, NextOK
<1>3. Proper(s) BY DEF AgendaOK
<1>4. PICK S : s \in Seq(S) BY <1>3 DEF Proper
<1>5. Tail(s) \in Seq(S) BY <1>4
<1>6. <<>> \o Tail(s) = Tail(s) BY <1>5
<1> QED BY <1>2, <1>6

\* A program that stays stays well formed.
LEMMA StillProgram ==
  ASSUME ProgramOK, program' = program
  PROVE  ProgramOK'
BY DEF ProgramOK

\* What is still to be read stays well formed.
LEMMA StillTodo ==
  ASSUME TodoOK, todo' = todo
  PROVE  TodoOK'
BY DEF TodoOK

\* Classes that stay the same give the same terms.
LEMMA StillGraph ==
  ASSUME GraphOK, UNCHANGED <<graphVars, cells>>
  PROVE  GraphOK' /\ Resolved' = Resolved /\ Live' = Live
BY DEF GraphOK, graphVars, Resolved, Live

\* Facts that stay stay well formed.
LEMMA StillFacts ==
  ASSUME FactsOK, UNCHANGED factVars
  PROVE  FactsOK'
BY DEF FactsOK, factVars

\* What is in the classes stays well formed.
LEMMA StillContent ==
  ASSUME ContentOK, UNCHANGED <<graphVars, callVars, regions, shifts, spread>>
  PROVE  ContentOK'
BY DEF ContentOK, graphVars, callVars, Transfers

\* Escapes that stay keep their reasons.
LEMMA StillEscape ==
  ASSUME EscapeOK, UNCHANGED <<factVars, escaped>>
  PROVE  EscapeOK'
BY DEF EscapeOK, factVars

\* What is done once stays well formed.
LEMMA StillOnce ==
  ASSUME OnceOK, spare' = spare, UNCHANGED <<worklist, onceVars>>
  PROVE  OnceOK'
BY DEF OnceOK, onceVars, Live

\* What is given is given to classes in use, and no escape without a reason.
LEMMA GrantOK ==
  ASSUME GraphOK, FactsOK, EscapeOK, worklist \subseteq Live, NEW given, NEW labels,
         Grant(given, labels), spare' = spare,
         \A g \in given : g[1] \in Live, \A l \in labels : l[1] \in Live /\ l[2] \in Reasons,
         \A c \in Class : GainedFacts(given, c) \cap Escape # {} =>
                            GainedLabels(labels, c) \cup sources[c] # {}
  PROVE  /\ FactsOK'
         /\ \A c \in Class : facts[c] \subseteq facts'[c] /\ sources[c] \subseteq sources'[c]
         /\ \A c \in Class : facts'[c] \cap Escape # {} => sources'[c] # {}
         /\ worklist \subseteq worklist' /\ worklist' \subseteq Live
         /\ \A c \in Class : facts'[c] # facts[c] => c \in worklist'
<1>1. \A c \in Class : facts'[c] = facts[c] \cup GainedFacts(given, c)
                       /\ sources'[c] = sources[c] \cup GainedLabels(labels, c)
  BY DEF Grant
<1>2. \A c \in Class : GainedFacts(given, c) \subseteq FactNames
                       /\ GainedLabels(labels, c) \subseteq Reasons
  BY DEF GainedFacts, GainedLabels
<1>3. FactsOK' BY <1>2 DEF Grant, FactsOK
<1>4. \A c \in Class : GainedFacts(given, c) # {} => c \in Live
  BY DEF GainedFacts
<1>5. \A c \in Class : GainedLabels(labels, c) # {} => c \in Live
  BY DEF GainedLabels
<1>6. Gaining(given, labels) \subseteq Live BY <1>4, <1>5 DEF Gaining
<1>7. worklist' = worklist \cup Gaining(given, labels) BY DEF Grant
<1>8. \A c \in Class : facts'[c] # facts[c] => c \in worklist'
  BY <1>1, <1>7 DEF Gaining
<1>9. \A c \in Class : facts'[c] \cap Escape # {} => sources'[c] # {}
  BY <1>1 DEF EscapeOK
<1> QED BY <1>1, <1>3, <1>6, <1>7, <1>8, <1>9

\* Calls that make no others and no class.
LEMMA SetFactsTypes ==
  ASSUME TypeInv, SetFacts
  PROVE  TypeInv'
<1> DEFINE call == Head(agenda)
           given == {Find(call.of)} \X call.names
           labels == {Find(call.of)} \X call.labels
<1>1. CallOK(program, call, Resolved) /\ agenda # <<>> /\ call.call = "set_facts"
  BY CalledOK DEF SetFacts, CallNames
<1>2. /\ call.of \in Resolved /\ call.names \subseteq FactNames /\ call.labels \subseteq Reasons
      /\ call.names \cap Escape # {} => call.labels # {}
  BY <1>1 DEF CallOK, Typed, Needed
<1>3. Find(call.of) \in Live BY <1>2, FindLive DEF TypeInv
<1>4. /\ Grant(given, labels) /\ Return
      /\ UNCHANGED <<readVars, graphVars, contentVars, callVars, shiftVars, fieldVars, onceVars>>
  BY DEF SetFacts
<1> HIDE DEF call
<1>5. \A c \in Class : GainedFacts(given, c) \cap Escape # {} =>
                         GainedLabels(labels, c) \cup sources[c] # {}
  <2> SUFFICES ASSUME NEW c \in Class, NEW f \in GainedFacts(given, c), f \in Escape
               PROVE  GainedLabels(labels, c) # {}
    OBVIOUS
  <2>1. c = Find(call.of) /\ f \in call.names BY DEF GainedFacts
  <2>2. PICK l \in call.labels : TRUE BY <1>2, <2>1
  <2>3. <<c, l>> \in labels BY <2>1, <2>2
  <2> QED BY <2>3 DEF GainedLabels
<1>6. \A g \in given : g[1] \in Live BY <1>3
<1>7. \A l \in labels : l[1] \in Live /\ l[2] \in Reasons BY <1>2, <1>3
<1> HIDE DEF given, labels
<1>8. GraphOK' /\ Resolved' = Resolved /\ Live' = Live
  BY <1>4, StillGraph DEF TypeInv, fieldVars
<1>9. /\ FactsOK' /\ worklist' \subseteq Live
      /\ \A c \in Class : facts'[c] \cap Escape # {} => sources'[c] # {}
  BY <1>4, <1>5, <1>6, <1>7, GrantOK DEF TypeInv, OnceOK, graphVars
<1>10. EscapeOK' BY <1>4, <1>9 DEF TypeInv, EscapeOK, fieldVars
<1>11. OnceOK' BY <1>4, <1>8, <1>9 DEF TypeInv, OnceOK, onceVars
<1>12. ContentOK' BY <1>4, StillContent DEF TypeInv, shiftVars
<1>13. ProgramOK' /\ TodoOK' BY <1>4, StillProgram, StillTodo DEF TypeInv, readVars
<1>14. AgendaOK(program', agenda', Resolved')
  BY <1>1, <1>4, <1>8, ReturnOK DEF TypeInv, Return, readVars, Given, call
<1> QED BY <1>8, <1>9, <1>10, <1>11, <1>12, <1>13, <1>14 DEF TypeInv

\* Calls that find nothing to do return.
LEMMA IdleReturnTypes ==
  ASSUME TypeInv, PointeeKnown \/ JoinedAlready \/ FieldKnown \/ NothingToReplay
  PROVE  TypeInv'
<1>1. Return /\ UNCHANGED <<readVars, classVars>> /\ agenda # <<>>
  BY DEF PointeeKnown, JoinedAlready, FieldKnown, NothingToReplay, Calling
<1>2. UNCHANGED <<readVars, worklist, graphVars, factVars, contentVars, callVars, shiftVars,
                  fieldVars, onceVars>>
  BY <1>1 DEF classVars, knownVars
<1>3. GraphOK' /\ Resolved' = Resolved /\ Live' = Live
  BY <1>2, StillGraph DEF TypeInv, fieldVars
<1>4. Given(Head(agenda)) \subseteq Resolved
  <2>1. CASE PointeeKnown
    <3>1. CallOK(program, Head(agenda), Resolved) /\ Head(agenda).call = "pointee_of"
      BY <2>1, CalledOK DEF PointeeKnown, CallNames
    <3>2. Of(Head(agenda).of) \in Resolved BY <3>1 DEF CallOK, Needed
    <3>3. pointee[rep[Head(agenda).of]] # NoClass BY <2>1 DEF PointeeKnown
    <3>4. PointeeOf(Head(agenda).of) \in Resolved BY <3>2, <3>3, TermsResolved DEF TypeInv
    <3> QED BY <3>1, <3>4 DEF Given
  <2>2. CASE FieldKnown
    <3>1. Head(agenda).call = "field_class"
          /\ <<Head(agenda).root, Head(agenda).region>> \in DOMAIN cells
      BY <2>2 DEF FieldKnown, Calling
    <3>2. CellOf(Head(agenda).root, Head(agenda).region) \in Resolved
      BY <3>1, TermsResolved DEF TypeInv
    <3> QED BY <3>1, <3>2 DEF Given
  <2>3. CASE JoinedAlready \/ NothingToReplay
    BY <2>3 DEF JoinedAlready, NothingToReplay, Calling, Given
  <2> QED BY <2>1, <2>2, <2>3
<1>5. AgendaOK(program', agenda', Resolved')
  BY <1>1, <1>2, <1>3, <1>4, ReturnOK DEF TypeInv, Return, readVars
<1>6. FactsOK' /\ ContentOK' /\ EscapeOK' /\ OnceOK' /\ ProgramOK' /\ TodoOK'
  <2>1. spare' = spare BY <1>2 DEF graphVars
  <2> QED BY <1>2, <2>1, StillFacts, StillContent, StillEscape, StillOnce, StillProgram, StillTodo
          DEF TypeInv, shiftVars, fieldVars, readVars
<1> QED BY <1>3, <1>5, <1>6 DEF TypeInv

\* add_content_edge keeps the state well formed.
LEMMA AddContentEdgeTypes ==
  ASSUME TypeInv, AddContentEdge
  PROVE  TypeInv'
<1>1. CallOK(program, Head(agenda), Resolved) /\ agenda # <<>>
      /\ Head(agenda).call = "add_content_edge"
  BY CalledOK DEF AddContentEdge, CallNames
<1>2. Find(Head(agenda).src) \in Live
  BY <1>1, FindLive DEF TypeInv, CallOK, Needed
<1>3. /\ worklist' = worklist \cup {Find(Head(agenda).src)} /\ Return
      /\ UNCHANGED <<readVars, graphVars, factVars, callVars, shiftVars, fieldVars, onceVars>>
  BY DEF AddContentEdge
<1>4. GraphOK' /\ Resolved' = Resolved /\ Live' = Live
  BY <1>3, StillGraph DEF TypeInv, fieldVars
<1>5. AgendaOK(program', agenda', Resolved')
  BY <1>1, <1>3, <1>4, ReturnOK DEF TypeInv, Return, readVars, Given
<1>6. FactsOK' /\ ContentOK' /\ EscapeOK' /\ ProgramOK' /\ TodoOK'
  BY <1>3, StillFacts, StillContent, StillEscape, StillProgram, StillTodo
     DEF TypeInv, shiftVars, fieldVars, readVars
<1>7. OnceOK' BY <1>2, <1>3, <1>4 DEF TypeInv, OnceOK, onceVars
<1> QED BY <1>4, <1>5, <1>6, <1>7 DEF TypeInv

\* add_gep_transfer keeps the state well formed.
LEMMA AddGepTransferTypes ==
  ASSUME TypeInv, AddGepTransfer
  PROVE  TypeInv'
<1> DEFINE call == Head(agenda)
           target == Find(PointeeOf(call.src))
           transfer == [dst |-> call.dst, delta |-> call.delta]
<1>1. CallOK(program, call, Resolved) /\ agenda # <<>> /\ call.call = "add_gep_transfer"
  BY CalledOK DEF AddGepTransfer, CallNames
<1>2. PointeeOf(call.src) \in Resolved /\ call.dst \in Values BY <1>1 DEF CallOK, Needed, Typed
<1>3. target \in Live BY <1>2, FindLive DEF TypeInv
<1>4. /\ worklist' = worklist \cup {target} /\ Return
      /\ shifts' = [shifts EXCEPT ![target] = Append(@, transfer)]
      /\ UNCHANGED <<readVars, graphVars, factVars, callVars, regions, spread, fieldVars, onceVars>>
  BY DEF AddGepTransfer
<1>5. transfer.dst \in Values BY <1>2
<1> HIDE DEF target, transfer
<1>6. GraphOK' /\ Resolved' = Resolved /\ Live' = Live
  BY <1>4, StillGraph DEF TypeInv, fieldVars
<1>7. AgendaOK(program', agenda', Resolved')
  BY <1>1, <1>4, <1>6, ReturnOK DEF TypeInv, Return, readVars, Given
<1>8. ContentOK'
  <2>1. shifts' = [c \in Class |-> shifts'[c]] BY <1>4 DEF TypeInv, ContentOK
  <2>2. ASSUME NEW c \in Class
        PROVE  Proper(shifts'[c]) /\ \A t \in Transfers(c)' : t.dst \in Values
    <3>1. CASE c # target
      <4>1. shifts'[c] = shifts[c] BY <1>4, <3>1 DEF TypeInv, ContentOK
      <4> QED BY <4>1 DEF TypeInv, ContentOK, Transfers
    <3>2. CASE c = target
      <4>1. shifts'[c] = Append(shifts[c], transfer) BY <1>4, <3>2 DEF TypeInv, ContentOK
      <4>2. PICK S : shifts[c] \in Seq(S) BY DEF TypeInv, ContentOK, Proper
      <4>3. shifts[c] \in Seq(S \cup {transfer}) BY <4>2
      <4>4. shifts'[c] \in Seq(S \cup {transfer}) BY <4>1, <4>3
      <4>5. \A i \in DOMAIN shifts'[c] :
              \/ shifts'[c][i] = transfer
              \/ i \in DOMAIN shifts[c] /\ shifts'[c][i] = shifts[c][i]
        BY <4>1, <4>3
      <4>6. \A i \in DOMAIN shifts[c] : shifts[c][i].dst \in Values
        BY DEF TypeInv, ContentOK, Transfers
      <4> QED BY <1>5, <4>4, <4>5, <4>6 DEF Proper, Transfers
    <3> QED BY <3>1, <3>2
  <2> QED BY <1>4, <2>1, <2>2 DEF TypeInv, ContentOK, graphVars, callVars
<1>9. FactsOK' /\ EscapeOK' /\ ProgramOK' /\ TodoOK'
  BY <1>4, StillFacts, StillEscape, StillProgram, StillTodo DEF TypeInv, fieldVars, readVars
<1>10. OnceOK' BY <1>3, <1>4, <1>6 DEF TypeInv, OnceOK, onceVars
<1> QED BY <1>6, <1>7, <1>8, <1>9, <1>10 DEF TypeInv

\* register_indirect_calls registers a call at a class in use.
LEMMA RegisterSiteTypes ==
  ASSUME TypeInv, RegisterSite
  PROVE  TypeInv'
<1> DEFINE call == Head(agenda)
           target == Find(PointeeOf(program.operand[call.site]))
<1>1. CallOK(program, call, Resolved) /\ agenda # <<>> /\ call.call = "register"
  BY CalledOK DEF RegisterSite, CallNames
<1>2. PointeeOf(program.operand[call.site]) \in Resolved /\ call.site \in Sites
  BY <1>1 DEF CallOK, Needed, Typed
<1>3. target \in Live BY <1>2, FindLive DEF TypeInv
<1>4. /\ worklist' = worklist \cup {target} /\ Return
      /\ sites' = [sites EXCEPT ![target] = @ \cup {call.site}]
      /\ UNCHANGED <<readVars, graphVars, factVars, fns, swept, opened, shiftVars, fieldVars, onceVars>>
  BY DEF RegisterSite
<1> HIDE DEF target
<1>5. GraphOK' /\ Resolved' = Resolved /\ Live' = Live
  BY <1>4, StillGraph DEF TypeInv, fieldVars
<1>6. AgendaOK(program', agenda', Resolved')
  BY <1>1, <1>4, <1>5, ReturnOK DEF TypeInv, Return, readVars, Given
<1>7. ContentOK'
  <2>1. sites' \in [Class -> SUBSET Sites] BY <1>2, <1>4 DEF TypeInv, ContentOK
  <2>2. \A c \in spare : sites'[c] = {} BY <1>3, <1>4 DEF TypeInv, ContentOK, Live
  <2>3. /\ UNCHANGED <<fns, opened, swept, regions, shifts, spread, spare, pointee>>
        /\ ContentOK
    BY <1>4 DEF TypeInv, graphVars, shiftVars
  <2>4. \A c \in Class : Transfers(c)' = Transfers(c) BY <2>3 DEF Transfers
  <2> QED BY <2>1, <2>2, <2>3, <2>4 DEF ContentOK
<1>8. FactsOK' /\ EscapeOK' /\ ProgramOK' /\ TodoOK'
  BY <1>4, StillFacts, StillEscape, StillProgram, StillTodo DEF TypeInv, fieldVars, readVars
<1>9. OnceOK' BY <1>3, <1>4, <1>5 DEF TypeInv, OnceOK, onceVars
<1> QED BY <1>5, <1>6, <1>7, <1>8, <1>9 DEF TypeInv

\* Labels of fields, and the reasons allocations escape for.
LEMMA FieldReason ==
  ASSUME NEW labels \in SUBSET Reasons
  PROVE  FieldLabel(labels) \in Reasons
<1>1. DerivedField \in Reasons BY DEF DerivedField, Label, Reasons, LabelKinds
<1>2. labels # {} => First(labels) \in labels BY DEF First
<1> QED BY <1>1, <1>2 DEF FieldLabel

\* The regions of an allocation are in classes in use.
LEMMA FieldsLive ==
  ASSUME GraphOK, NEW owners
  PROVE  FieldsOf(owners) \subseteq Live
BY RepLive DEF FieldsOf, GraphOK

\* Allocations that escape have a reason.
LEMMA EscapedWithOK ==
  ASSUME EscapeOK, NEW owners, NEW labels \in SUBSET Reasons, labels # {} \/ owners = {},
         escaped' = EscapedWith(owners, labels)
  PROVE  /\ escaped' = [o \in DOMAIN escaped' |-> escaped'[o]]
         /\ DOMAIN escaped' = DOMAIN escaped \cup owners
         /\ \A o \in DOMAIN escaped' : escaped'[o] \subseteq Reasons /\ escaped'[o] # {}
BY DEF EscapeOK, EscapedWith

\* escape_allocation_fields gives no escape without a reason.
LEMMA EscapeAllocationFieldsTypes ==
  ASSUME TypeInv, EscapeAllocationFields
  PROVE  TypeInv'
<1> DEFINE call == Head(agenda)
           already == call.root \in DOMAIN escaped /\ escaped[call.root] # {}
           reached == IF already THEN {} ELSE FieldsOf({call.root})
           given == reached \X Escape
           labels == reached \X {FieldLabel(call.labels)}
<1>1. CallOK(program, call, Resolved) /\ agenda # <<>> /\ call.call = "escape_allocation_fields"
  BY CalledOK DEF EscapeAllocationFields, CallNames
<1>2. call.labels \subseteq Reasons /\ call.labels # {} BY <1>1 DEF CallOK, Typed
<1>3. reached \subseteq Live BY FieldsLive DEF TypeInv
<1>4. FieldLabel(call.labels) \in Reasons BY <1>2, FieldReason
<1>5. /\ escaped' = EscapedWith({call.root}, call.labels)
      /\ Grant(given, labels) /\ Return
      /\ UNCHANGED <<readVars, graphVars, contentVars, callVars, shiftVars, cells, lanes, onceVars>>
  BY DEF EscapeAllocationFields
<1> HIDE DEF reached
<1>6. \A g \in given : g[1] \in Live BY <1>3
<1>7. \A l \in labels : l[1] \in Live /\ l[2] \in Reasons BY <1>3, <1>4
<1>8. \A c \in Class : GainedFacts(given, c) \cap Escape # {} =>
                         GainedLabels(labels, c) \cup sources[c] # {}
  <2> SUFFICES ASSUME NEW c \in Class, NEW f \in GainedFacts(given, c)
               PROVE  GainedLabels(labels, c) # {}
    OBVIOUS
  <2>1. c \in reached BY DEF GainedFacts
  <2>2. <<c, FieldLabel(call.labels)>> \in labels BY <2>1
  <2> QED BY <2>2 DEF GainedLabels
<1> HIDE DEF given, labels
<1>9. GraphOK' /\ Resolved' = Resolved /\ Live' = Live
  BY <1>5, StillGraph DEF TypeInv
<1>10. /\ FactsOK' /\ worklist' \subseteq Live
       /\ \A c \in Class : facts'[c] \cap Escape # {} => sources'[c] # {}
  BY <1>5, <1>6, <1>7, <1>8, GrantOK DEF TypeInv, OnceOK, graphVars
<1>11. EscapeOK' BY <1>2, <1>5, <1>10, EscapedWithOK DEF TypeInv, EscapeOK
<1>12. OnceOK' BY <1>5, <1>9, <1>10 DEF TypeInv, OnceOK, onceVars
<1>13. ContentOK' BY <1>5, StillContent DEF TypeInv, shiftVars
<1>14. ProgramOK' /\ TodoOK' BY <1>5, StillProgram, StillTodo DEF TypeInv, readVars
<1>15. AgendaOK(program', agenda', Resolved')
  BY <1>1, <1>5, <1>9, ReturnOK DEF TypeInv, Return, readVars, Given
<1> QED BY <1>9, <1>10, <1>11, <1>12, <1>13, <1>14, <1>15 DEF TypeInv

\* A class is made for what another points to.
LEMMA NewClassUsed ==
  ASSUME GraphOK, spare # {}, spare' = spare \ {NewClass}
  PROVE  /\ NewClass \in spare /\ NewClass \in Class /\ NewClass \notin Live
         /\ rep[NewClass] = NewClass
         /\ Live' = Live \cup {NewClass}
<1>1. NewClass \in spare BY DEF NewClass
<1> QED BY <1>1 DEF GraphOK, Live, Class

\* pointee_of makes what a class points to.
LEMMA PointeeMadeTypes ==
  ASSUME TypeInv, PointeeMade
  PROVE  TypeInv' /\ Resolved \subseteq Resolved'
<1> DEFINE root == rep[Head(agenda).of]
<1>1. CallOK(program, Head(agenda), Resolved) /\ agenda # <<>>
      /\ Head(agenda).call = "pointee_of"
  BY CalledOK DEF PointeeMade, CallNames
<1>2. Head(agenda).of \in Live BY <1>1, TermsResolved DEF TypeInv, CallOK, Needed
<1>3. root \in Live /\ rep[root] = root BY <1>2, RepLive DEF TypeInv
<1>4. /\ spare # {} /\ pointee[root] = NoClass
      /\ pointee' = [pointee EXCEPT ![root] = NewClass]
      /\ worklist' = worklist \cup {root} /\ spare' = spare \ {NewClass} /\ Return
      /\ UNCHANGED <<readVars, rep, size, factVars, contentVars, callVars, shiftVars, fieldVars, onceVars>>
  BY DEF PointeeMade
<1> HIDE DEF root
<1>5. /\ NewClass \in spare /\ NewClass \in Class /\ NewClass \notin Live
      /\ rep[NewClass] = NewClass /\ Live' = Live \cup {NewClass}
  BY <1>4, NewClassUsed DEF TypeInv
<1>6. GraphOK'
  <2>1. pointee' \in [Class -> Live' \cup {NoClass}] BY <1>4, <1>5 DEF TypeInv, GraphOK
  <2>2. cells' = cells /\ \A k \in DOMAIN cells : cells[k] \in Live'
    BY <1>4, <1>5 DEF TypeInv, GraphOK, fieldVars
  <2> QED BY <1>4, <2>1, <2>2 DEF TypeInv, GraphOK
<1>7. \A v \in Live : pointee[rep[v]] # NoClass => pointee'[rep'[v]] # NoClass
  BY <1>4, RepLive DEF TypeInv, GraphOK
<1>8. Resolved \subseteq Resolved' BY <1>4, <1>5, <1>7 DEF Resolved, fieldVars
<1>9. pointee'[rep'[Head(agenda).of]] # NoClass
  BY <1>3, <1>4, <1>5, NodesLive DEF TypeInv, GraphOK, Live, root
<1>10. PointeeOf(Head(agenda).of) \in Resolved' BY <1>2, <1>5, <1>9 DEF Resolved
<1>11. AgendaOK(program', agenda', Resolved')
  BY <1>1, <1>4, <1>8, <1>10, ReturnOK DEF TypeInv, Return, readVars, Given
<1>12. ContentOK'
  <2>1. \A c \in spare' : pointee'[c] = NoClass
    BY <1>3, <1>4 DEF TypeInv, ContentOK, Live, GraphOK
  <2> QED BY <1>4, <2>1 DEF TypeInv, ContentOK, callVars, shiftVars, Transfers
<1>13. FactsOK' /\ EscapeOK' /\ ProgramOK' /\ TodoOK'
  BY <1>4, StillFacts, StillEscape, StillProgram, StillTodo DEF TypeInv, fieldVars, readVars
<1>14. OnceOK' BY <1>3, <1>4, <1>5 DEF TypeInv, OnceOK, onceVars
<1> QED BY <1>6, <1>8, <1>11, <1>12, <1>13, <1>14 DEF TypeInv

\* Two calls, the second with what the first makes.
LEMMA TwoOK ==
  ASSUME NEW p, NEW c, NEW d, NEW known, CallOK(p, c, known), CallOK(p, d, known \cup Given(c))
  PROVE  BatchOK(p, <<c, d>>, known) /\ AgendaOK(p, <<c, d>>, known)
<1> DEFINE s == <<c, d>>
<1>1. s \in Seq({c, d}) /\ DOMAIN s = {1, 2} /\ s[1] = c /\ s[2] = d
  OBVIOUS
<1> HIDE DEF s
<1>2. InTurn(p, s, 1, known) BY <1>1 DEF InTurn, CallOK
<1>3. InTurn(p, s, 2, known)
  <2>1. 1 \in 1 .. 2 - 1
    OBVIOUS
  <2> QED BY <1>1, <2>1 DEF InTurn, CallOK
<1>4. BatchOK(p, s, known) BY <1>1, <1>2, <1>3 DEF BatchOK, Proper
<1> QED BY <1>4, BatchIsAgenda DEF s

\* Three calls, each with what the earlier ones make.
LEMMA ThreeOK ==
  ASSUME NEW p, NEW c, NEW d, NEW e, NEW known, CallOK(p, c, known),
         CallOK(p, d, known \cup Given(c)), CallOK(p, e, known \cup Given(c) \cup Given(d))
  PROVE  BatchOK(p, <<c, d, e>>, known) /\ AgendaOK(p, <<c, d, e>>, known)
<1> DEFINE s == <<c, d, e>>
<1>1. s \in Seq({c, d, e}) /\ DOMAIN s = {1, 2, 3} /\ s[1] = c /\ s[2] = d /\ s[3] = e
  OBVIOUS
<1> HIDE DEF s
<1>2. InTurn(p, s, 1, known) BY <1>1 DEF InTurn, CallOK
<1>3. 1 \in 1 .. 2 - 1 /\ 1 \in 1 .. 3 - 1 /\ 2 \in 1 .. 3 - 1
  OBVIOUS
<1>4. InTurn(p, s, 2, known) BY <1>1, <1>3 DEF InTurn, CallOK
<1>5. InTurn(p, s, 3, known) BY <1>1, <1>3 DEF InTurn, CallOK
<1>6. BatchOK(p, s, known) BY <1>1, <1>2, <1>4, <1>5 DEF BatchOK, Proper
<1> QED BY <1>6, BatchIsAgenda DEF s

\* A class is told what it points to.
LEMMA PointeeSet ==
  ASSUME GraphOK, ContentOK, NEW a \in Live, NEW b \in Live, pointee[a] = NoClass,
         pointee' = [pointee EXCEPT ![a] = b], UNCHANGED <<rep, size, spare, cells>>,
         UNCHANGED <<callVars, regions, shifts, spread>>
  PROVE  GraphOK' /\ Resolved \subseteq Resolved' /\ Live' = Live /\ ContentOK'
<1>1. Live' = Live BY DEF Live
<1>2. GraphOK' BY <1>1 DEF GraphOK
<1>3. \A v \in Live : pointee[rep[v]] # NoClass => pointee'[rep'[v]] # NoClass
  BY RepLive DEF GraphOK
<1>4. Resolved \subseteq Resolved' BY <1>1, <1>3 DEF Resolved
<1>5. \A c \in spare' : pointee'[c] = NoClass BY DEF GraphOK, ContentOK, Live
<1>6. \A c \in Class : Transfers(c)' = Transfers(c) BY DEF Transfers
<1>7. ContentOK' BY <1>5, <1>6 DEF ContentOK, callVars
<1> QED BY <1>1, <1>2, <1>4, <1>7

\* unify_pointees keeps the state well formed, in each of its five cases.
LEMMA UnifyPointeesTypes ==
  ASSUME TypeInv, UnifyPointees
  PROVE  TypeInv' /\ Resolved \subseteq Resolved'
<1> DEFINE a == Find(Head(agenda).left)
           b == Find(Head(agenda).right)
<1>1. CallOK(program, Head(agenda), Resolved) /\ agenda # <<>>
      /\ Head(agenda).call = "unify_pointees"
  BY CalledOK DEF UnifyPointees, CallNames
<1>2. Head(agenda).left \in Resolved /\ Head(agenda).right \in Resolved
  BY <1>1 DEF CallOK, Needed
<1>3. a \in Live /\ b \in Live BY <1>2, FindLive DEF TypeInv
<1>4. UNCHANGED <<readVars, rep, size, spare, factVars, contentVars, callVars, shiftVars, fieldVars,
                  onceVars>>
  BY DEF UnifyPointees
<1>5. FactsOK' /\ EscapeOK' /\ ProgramOK' /\ TodoOK'
  BY <1>4, StillFacts, StillEscape, StillProgram, StillTodo DEF TypeInv, fieldVars, readVars
<1>6. Given(Head(agenda)) = {} BY <1>1 DEF Given
<1>7. \/ a = b /\ Then(<<Need(a)>>) /\ UNCHANGED <<worklist, pointee>>
      \/ /\ pointee[a] # NoClass /\ pointee[b] # NoClass
         /\ Then(<<Join(Of(pointee[a]), Of(pointee[b]))>>) /\ UNCHANGED <<worklist, pointee>>
      \/ /\ pointee[a] # NoClass /\ pointee[b] = NoClass /\ Return
         /\ pointee' = [pointee EXCEPT ![b] = rep[pointee[a]]] /\ worklist' = worklist \cup {b}
      \/ /\ pointee[a] = NoClass /\ pointee[b] # NoClass /\ Return
         /\ pointee' = [pointee EXCEPT ![a] = rep[pointee[b]]] /\ worklist' = worklist \cup {a}
      \/ Then(<<Need(a), Unify(Of(a), Of(b))>>) /\ UNCHANGED <<worklist, pointee>>
  BY DEF UnifyPointees
<1> HIDE DEF a, b
<1>8. \A c \in Live : pointee[c] # NoClass => pointee[c] \in Live /\ rep[pointee[c]] \in Live
  BY RepLive DEF TypeInv, GraphOK, Live
<1>9. Of(a) \in Resolved /\ Of(b) \in Resolved BY <1>3, TermsResolved DEF TypeInv
<1>10. ASSUME UNCHANGED <<worklist, pointee>>, NEW calls, Then(calls),
              AgendaOK(program, calls, Resolved)
       PROVE  TypeInv' /\ Resolved \subseteq Resolved'
  <2>1. GraphOK' /\ Resolved' = Resolved /\ Live' = Live
    BY <1>4, <1>10, StillGraph DEF TypeInv, fieldVars, graphVars
  <2>2. ContentOK' /\ OnceOK'
    BY <1>4, <1>10, StillContent, StillOnce DEF TypeInv, shiftVars, graphVars
  <2>3. AgendaOK(program', agenda', Resolved')
    BY <1>1, <1>4, <1>6, <1>10, <2>1, NextOK DEF TypeInv, Then, readVars
  <2> QED BY <1>5, <2>1, <2>2, <2>3 DEF TypeInv
<1>11. ASSUME NEW c \in Live, NEW d \in Live, pointee[c] = NoClass, Return,
              pointee' = [pointee EXCEPT ![c] = d], worklist' = worklist \cup {c}
       PROVE  TypeInv' /\ Resolved \subseteq Resolved'
  <2>1. GraphOK' /\ Resolved \subseteq Resolved' /\ Live' = Live /\ ContentOK'
    BY <1>4, <1>11, PointeeSet DEF TypeInv, fieldVars, shiftVars
  <2>2. OnceOK' BY <1>4, <1>11, <2>1 DEF TypeInv, OnceOK, onceVars
  <2>3. AgendaOK(program', agenda', Resolved')
    BY <1>1, <1>4, <1>6, <1>11, <2>1, ReturnOK DEF TypeInv, Return, readVars
  <2> QED BY <1>5, <2>1, <2>2, <2>3 DEF TypeInv
<1>12. CallOK(program, Need(a), Resolved) BY <1>9 DEF CallOK, Typed, Needed, Need, CallNames
<1>13. CASE a = b /\ Then(<<Need(a)>>) /\ UNCHANGED <<worklist, pointee>>
  <2>1. AgendaOK(program, <<Need(a)>>, Resolved) BY <1>12, OneOK
  <2> QED BY <1>10, <1>13, <2>1
<1>14. CASE /\ pointee[a] # NoClass /\ pointee[b] # NoClass
            /\ Then(<<Join(Of(pointee[a]), Of(pointee[b]))>>) /\ UNCHANGED <<worklist, pointee>>
  <2>1. Of(pointee[a]) \in Resolved /\ Of(pointee[b]) \in Resolved
    BY <1>3, <1>8, <1>14, TermsResolved DEF TypeInv
  <2>2. CallOK(program, Join(Of(pointee[a]), Of(pointee[b])), Resolved)
    BY <2>1 DEF CallOK, Typed, Needed, Join, CallNames
  <2>3. AgendaOK(program, <<Join(Of(pointee[a]), Of(pointee[b]))>>, Resolved) BY <2>2, OneOK
  <2> QED BY <1>10, <1>14, <2>3
<1>15. CASE Then(<<Need(a), Unify(Of(a), Of(b))>>) /\ UNCHANGED <<worklist, pointee>>
  <2>1. CallOK(program, Unify(Of(a), Of(b)), Resolved)
    BY <1>9 DEF CallOK, Typed, Needed, Unify, CallNames
  <2>2. CallOK(program, Unify(Of(a), Of(b)), Resolved \cup Given(Need(a))) BY <2>1 DEF CallOK
  <2>3. AgendaOK(program, <<Need(a), Unify(Of(a), Of(b))>>, Resolved) BY <1>12, <2>2, TwoOK
  <2> QED BY <1>10, <1>15, <2>3
<1>16. CASE /\ pointee[a] # NoClass /\ pointee[b] = NoClass /\ Return
            /\ pointee' = [pointee EXCEPT ![b] = rep[pointee[a]]] /\ worklist' = worklist \cup {b}
  BY <1>3, <1>8, <1>11, <1>16
<1>17. CASE /\ pointee[a] = NoClass /\ pointee[b] # NoClass /\ Return
            /\ pointee' = [pointee EXCEPT ![a] = rep[pointee[b]]] /\ worklist' = worklist \cup {a}
  BY <1>3, <1>8, <1>11, <1>17
<1> QED BY <1>7, <1>13, <1>14, <1>15, <1>16, <1>17

(***************************************************************************)
(* One class joins another.                                                *)
(***************************************************************************)
LEMMA MergeTables ==
  ASSUME TypeInv, NEW from \in Live, NEW to \in Live, rep[from] = from, rep[to] = to, from # to,
         Merge(from, to)
  PROVE  /\ from \in Class /\ to \in Class /\ Live' = Live /\ cells' = cells
         /\ \A c \in Class : rep'[c] = IF rep[c] = from THEN to ELSE rep[c]
         /\ \A c \in Class \ {from, to} :
              /\ pointee'[c] = pointee[c] /\ facts'[c] = facts[c] /\ sources'[c] = sources[c]
              /\ sites'[c] = sites[c] /\ fns'[c] = fns[c] /\ opened'[c] = opened[c]
              /\ regions'[c] = regions[c]
         /\ pointee'[from] = NoClass
         /\ pointee'[to] = IF pointee[to] = NoClass THEN pointee[from] ELSE pointee[to]
         /\ facts'[from] = {} /\ facts'[to] = facts[to] \cup facts[from]
         /\ sources'[from] = {} /\ sources'[to] = sources[to] \cup sources[from]
         /\ sites'[from] = {} /\ sites'[to] = sites[to] \cup sites[from]
         /\ fns'[from] = {} /\ fns'[to] = fns[to] \cup fns[from]
         /\ opened'[from] = {} /\ opened'[to] = opened[to] \cup opened[from]
         /\ regions'[from] = {} /\ regions'[to] = regions[to] \cup regions[from]
<1>1. from \in Class /\ to \in Class BY DEF Live
<1>2. /\ rep' = [c \in Class |-> IF rep[c] = from THEN to ELSE rep[c]]
      /\ pointee' = [pointee EXCEPT ![to] = IF @ = NoClass THEN pointee[from] ELSE @,
                                    ![from] = NoClass]
      /\ facts' = Moved(facts, from, to) /\ sources' = Moved(sources, from, to)
      /\ sites' = Moved(sites, from, to) /\ fns' = Moved(fns, from, to)
      /\ opened' = Moved(opened, from, to) /\ regions' = Moved(regions, from, to)
      /\ UNCHANGED <<spare, fieldVars>>
  BY DEF Merge, JoinPointees
<1>3. Live' = Live /\ cells' = cells BY <1>2 DEF Live, fieldVars
<1>4. GraphOK /\ FactsOK /\ ContentOK BY DEF TypeInv
<1>5. pointee \in [Class -> Live \cup {NoClass}] BY <1>4 DEF GraphOK
<1>6. /\ facts = [c \in Class |-> facts[c]] /\ sources = [c \in Class |-> sources[c]]
      /\ sites = [c \in Class |-> sites[c]] /\ fns = [c \in Class |-> fns[c]]
      /\ opened = [c \in Class |-> opened[c]] /\ regions = [c \in Class |-> regions[c]]
  BY <1>4 DEF FactsOK, ContentOK
<1>7. ASSUME NEW table, table = [c \in Class |-> table[c]]
      PROVE  /\ \A c \in Class \ {from, to} : Moved(table, from, to)[c] = table[c]
             /\ Moved(table, from, to)[from] = {}
             /\ Moved(table, from, to)[to] = table[to] \cup table[from]
  BY <1>1, <1>7 DEF Moved
<1>8. /\ \A c \in Class \ {from, to} : pointee'[c] = pointee[c]
      /\ pointee'[from] = NoClass
      /\ pointee'[to] = IF pointee[to] = NoClass THEN pointee[from] ELSE pointee[to]
  BY <1>1, <1>2, <1>5
<1>9. \A c \in Class : rep'[c] = IF rep[c] = from THEN to ELSE rep[c] BY <1>2
<1>10. /\ \A c \in Class \ {from, to} : facts'[c] = facts[c] /\ sources'[c] = sources[c]
       /\ facts'[from] = {} /\ facts'[to] = facts[to] \cup facts[from]
       /\ sources'[from] = {} /\ sources'[to] = sources[to] \cup sources[from]
  BY <1>2, <1>6, <1>7
<1>11. /\ \A c \in Class \ {from, to} : sites'[c] = sites[c] /\ fns'[c] = fns[c]
       /\ sites'[from] = {} /\ sites'[to] = sites[to] \cup sites[from]
       /\ fns'[from] = {} /\ fns'[to] = fns[to] \cup fns[from]
  BY <1>2, <1>6, <1>7
<1>12. /\ \A c \in Class \ {from, to} : opened'[c] = opened[c] /\ regions'[c] = regions[c]
       /\ opened'[from] = {} /\ opened'[to] = opened[to] \cup opened[from]
       /\ regions'[from] = {} /\ regions'[to] = regions[to] \cup regions[from]
  BY <1>2, <1>6, <1>7
<1> QED BY <1>1, <1>3, <1>8, <1>9, <1>10, <1>11, <1>12

\* The classes after a join are well formed.
LEMMA MergeGraph ==
  ASSUME TypeInv, NEW from \in Live, NEW to \in Live, rep[from] = from, rep[to] = to, from # to,
         Merge(from, to)
  PROVE  GraphOK' /\ Resolved \subseteq Resolved'
<1>1. /\ Live' = Live /\ cells' = cells /\ spare' = spare
      /\ rep' = [c \in Class |-> IF rep[c] = from THEN to ELSE rep[c]]
      /\ size' = [size EXCEPT ![to] = @ + size[from]]
      /\ pointee' = [pointee EXCEPT ![to] = IF @ = NoClass THEN pointee[from] ELSE @,
                                    ![from] = NoClass]
  BY MergeTables DEF Merge, JoinPointees
<1>2. from \in Class /\ to \in Class /\ GraphOK BY DEF Live, TypeInv
<1>3. rep' \in [Class -> Class] BY <1>1, <1>2 DEF GraphOK
<1>4. \A c \in Class : rep'[rep'[c]] = rep'[c] /\ (rep'[c] \in spare => rep'[c] = c)
  BY <1>1, <1>2 DEF GraphOK, Live
<1>5. \A c \in spare : rep'[c] = c
  <2>1. spare \subseteq Class BY <1>2 DEF GraphOK, Class
  <2> QED BY <1>1, <1>2, <2>1 DEF GraphOK, Live
<1>6. size' \in [Class -> Nat] BY <1>1, <1>2 DEF GraphOK
<1>7. pointee' \in [Class -> Live \cup {NoClass}] BY <1>1, <1>2 DEF GraphOK
<1>8. GraphOK' BY <1>1, <1>2, <1>3, <1>4, <1>5, <1>6, <1>7 DEF GraphOK
<1>9. \A v \in Live : pointee[rep[v]] # NoClass => pointee'[rep'[v]] # NoClass
  <2> SUFFICES ASSUME NEW v \in Live, pointee[rep[v]] # NoClass PROVE pointee'[rep'[v]] # NoClass
    OBVIOUS
  <2>1. v \in Class /\ rep[v] \in Class BY <1>2, RepLive, NodesLive
  <2>2. /\ \A c \in Class \ {from, to} : pointee'[c] = pointee[c]
        /\ pointee'[to] = IF pointee[to] = NoClass THEN pointee[from] ELSE pointee[to]
    BY MergeTables
  <2>3. rep'[v] = IF rep[v] = from THEN to ELSE rep[v] BY <1>1, <2>1
  <2> QED BY <1>2, <2>1, <2>2, <2>3
<1>10. Resolved \subseteq Resolved' BY <1>1, <1>9 DEF Resolved
<1> QED BY <1>8, <1>10

\* A join keeps the state well formed, and every term evaluable.
LEMMA MergeTypes ==
  ASSUME TypeInv, NEW from \in Live, NEW to \in Live, rep[from] = from, rep[to] = to, from # to,
         Merge(from, to), Calling("join")
  PROVE  TypeInv' /\ Resolved \subseteq Resolved'
<1>1. GraphOK' /\ Resolved \subseteq Resolved' /\ Live' = Live BY MergeGraph, MergeTables
<1>2. from \in Class /\ to \in Class BY DEF Live
<1>3. UNCHANGED <<readVars, spread, spare, fieldVars, onceVars>> /\ worklist' = worklist \cup {to}
  BY DEF Merge
<1>4. FactsOK'
  <2>1. facts' = Moved(facts, from, to) /\ sources' = Moved(sources, from, to) BY DEF Merge
  <2> QED BY <1>2, <2>1 DEF TypeInv, FactsOK, Moved
<1>5. EscapeOK'
  <2>1. \A c \in Class : facts'[c] \cap Escape # {} => sources'[c] # {}
    <3>1. \A c \in Class \ {from, to} : facts'[c] = facts[c] /\ sources'[c] = sources[c]
      BY MergeTables
    <3>2. /\ facts'[from] = {} /\ facts'[to] = facts[to] \cup facts[from]
          /\ sources'[to] = sources[to] \cup sources[from]
      BY MergeTables
    <3>3. \A c \in Class : facts[c] \cap Escape # {} => sources[c] # {} BY DEF TypeInv, EscapeOK
    <3> QED BY <1>2, <3>1, <3>2, <3>3
  <2> QED BY <1>3, <2>1 DEF TypeInv, EscapeOK, fieldVars
<1>6. ContentOK'
  <2>1. /\ sites' = Moved(sites, from, to) /\ fns' = Moved(fns, from, to)
        /\ opened' = Moved(opened, from, to) /\ regions' = Moved(regions, from, to)
        /\ shifts' = [shifts EXCEPT ![to] = @ \o shifts[from], ![from] = <<>>]
        /\ swept' = SweptAfter(from, to)
    BY DEF Merge
  <2>2. sites' \in [Class -> SUBSET Sites] /\ fns' \in [Class -> SUBSET Functions]
        /\ opened' \in [Class -> SUBSET Sites]
    BY <1>2, <2>1 DEF TypeInv, ContentOK, Moved
  <2>3. swept' \in [Class -> [sites : SUBSET Sites, fns : SUBSET Functions]]
    BY <1>2, <2>1 DEF TypeInv, ContentOK, SweptAfter, Nothing
  <2>4. regions' = [c \in Class |-> regions'[c]]
    BY <2>1 DEF TypeInv, ContentOK, Moved
  <2>5. spread' = [c \in Class |-> spread'[c]]
    BY <1>3 DEF TypeInv, ContentOK
  <2>6. shifts' = [c \in Class |-> shifts'[c]]
    BY <2>1 DEF TypeInv, ContentOK
  <2>7. \A c \in spare' : sites'[c] = {} /\ fns'[c] = {} /\ regions'[c] = {} /\ pointee'[c] = NoClass
    <3>1. \A c \in spare : c \in Class /\ c # from /\ c # to BY DEF TypeInv, GraphOK, Live, Class
    <3>2. \A c \in Class \ {from, to} : /\ pointee'[c] = pointee[c] /\ sites'[c] = sites[c]
                                       /\ fns'[c] = fns[c] /\ regions'[c] = regions[c]
      BY MergeTables
    <3> QED BY <1>3, <3>1, <3>2 DEF TypeInv, ContentOK
  <2>8. ASSUME NEW c \in Class
        PROVE  Proper(shifts'[c]) /\ \A t \in Transfers(c)' : t.dst \in Values
    <3>1. CASE c # from /\ c # to
      <4>1. shifts'[c] = shifts[c] BY <2>1, <3>1 DEF TypeInv, ContentOK
      <4> QED BY <4>1 DEF TypeInv, ContentOK, Transfers
    <3>2. CASE c = from
      <4>1. shifts'[c] = <<>> BY <1>2, <2>1, <3>2 DEF TypeInv, ContentOK
      <4>2. <<>> \in Seq({})
        OBVIOUS
      <4> QED BY <4>1, <4>2 DEF Proper, Transfers
    <3>3. CASE c = to
      <4>1. shifts'[c] = shifts[to] \o shifts[from] BY <1>2, <2>1, <3>3 DEF TypeInv, ContentOK
      <4>2. Proper(shifts[to]) /\ Proper(shifts[from]) BY <1>2 DEF TypeInv, ContentOK
      <4>3. Proper(shifts'[c]) BY <4>1, <4>2, Concatenation
      <4> DEFINE a == shifts[to]
                 b == shifts[from]
      <4>4. \A i \in DOMAIN (a \o b) : \/ \E j \in DOMAIN a : (a \o b)[i] = a[j]
                                     \/ \E j \in DOMAIN b : (a \o b)[i] = b[j]
        <5> HIDE DEF a, b
        <5>1. Proper(a) /\ Proper(b) BY <4>2 DEF a, b
        <5> QED BY <5>1, Parts
      <4>5. /\ \A j \in DOMAIN shifts[to] : shifts[to][j].dst \in Values
            /\ \A j \in DOMAIN shifts[from] : shifts[from][j].dst \in Values
        BY <1>2 DEF TypeInv, ContentOK, Transfers
      <4>6. \A i \in DOMAIN (a \o b) : (a \o b)[i].dst \in Values BY <4>4, <4>5
      <4>7. \A i \in DOMAIN shifts'[c] : shifts'[c][i].dst \in Values BY <4>1, <4>6
      <4>8. \A t \in Transfers(c)' : t.dst \in Values BY <4>7 DEF Transfers
      <4> QED BY <4>3, <4>8
    <3> QED BY <3>1, <3>2, <3>3
  <2> QED BY <2>2, <2>3, <2>4, <2>5, <2>6, <2>7, <2>8 DEF ContentOK
<1>7. OnceOK' BY <1>1, <1>3 DEF TypeInv, OnceOK, onceVars
<1>8. ProgramOK' /\ TodoOK' BY <1>3, StillProgram, StillTodo DEF TypeInv, readVars
<1>9. CallOK(program, Head(agenda), Resolved) /\ agenda # <<>> /\ Head(agenda).call = "join"
  BY CalledOK DEF CallNames
<1>10. AgendaOK(program', agenda', Resolved')
  <2>1. CASE pointee[from] # NoClass /\ pointee[to] # NoClass
    <3>1. Then(<<Join(Of(pointee[to]), Of(pointee[from]))>>) BY <2>1 DEF Merge, JoinPointees
    <3>2. pointee[to] \in Live /\ pointee[from] \in Live BY <1>2, <2>1 DEF TypeInv, GraphOK
    <3>3. Of(pointee[to]) \in Resolved' /\ Of(pointee[from]) \in Resolved'
      BY <1>1, <3>2, TermsResolved DEF TypeInv
    <3>4. CallOK(program, Join(Of(pointee[to]), Of(pointee[from])), Resolved')
      BY <3>3 DEF CallOK, Typed, Needed, Join, CallNames
    <3>5. AgendaOK(program, <<Join(Of(pointee[to]), Of(pointee[from]))>>, Resolved')
      BY <3>4, OneOK
    <3> QED BY <1>1, <1>3, <1>9, <3>1, <3>5, NextOK DEF TypeInv, Then, readVars, Given
  <2>2. CASE ~(pointee[from] # NoClass /\ pointee[to] # NoClass)
    <3>1. Return BY <2>2 DEF Merge, JoinPointees
    <3> QED BY <1>1, <1>3, <1>9, <3>1, ReturnOK DEF TypeInv, Return, readVars, Given
  <2> QED BY <2>1, <2>2
<1> QED BY <1>1, <1>4, <1>5, <1>6, <1>7, <1>8, <1>10 DEF TypeInv

\* Which class joins which is decided by their sizes.
LEMMA JoinMerges ==
  ASSUME TypeInv, JoinClasses
  PROVE  \E from \in Live, to \in Live :
           /\ rep[from] = from /\ rep[to] = to /\ from # to /\ Calling("join")
           /\ {from, to} = {Find(Head(agenda).left), Find(Head(agenda).right)}
           /\ Merge(from, to)
<1>1. CallOK(program, Head(agenda), Resolved) /\ Head(agenda).call = "join" /\ Calling("join")
  BY CalledOK DEF JoinClasses, CallNames
<1>2. Head(agenda).left \in Resolved /\ Head(agenda).right \in Resolved
  BY <1>1 DEF CallOK, Needed
<1> DEFINE a == Find(Head(agenda).left)
           b == Find(Head(agenda).right)
<1>3. a \in Live /\ b \in Live /\ rep[a] = a /\ rep[b] = b BY <1>2, FindLive DEF TypeInv
<1>4. a # b /\ (Merge(a, b) \/ Merge(b, a)) BY DEF JoinClasses
<1> HIDE DEF a, b
<1>5. \E from \in Live, to \in Live : rep[from] = from /\ rep[to] = to /\ from # to /\ Calling("join")
        /\ {from, to} = {a, b} /\ Merge(from, to)
  <2>1. CASE Merge(a, b) BY <1>1, <1>3, <1>4, <2>1, Zenon
  <2>2. CASE Merge(b, a)
    <3>1. {b, a} = {a, b}
      OBVIOUS
    <3> QED BY <1>1, <1>3, <1>4, <2>2, <3>1, Zenon
  <2> QED BY <1>4, <2>1, <2>2
<1> QED BY <1>5 DEF a, b

\* join keeps the state well formed, whichever of the two survives.
LEMMA JoinClassesTypes ==
  ASSUME TypeInv, JoinClasses
  PROVE  TypeInv' /\ Resolved \subseteq Resolved'
BY JoinMerges, MergeTypes

\* A class is made for a region.
LEMMA FieldMadeTables ==
  ASSUME TypeInv, FieldMade
  PROVE  LET o == Head(agenda).root
             region == Head(agenda).region
         IN /\ NewClass \in spare /\ NewClass \in Class /\ NewClass \notin Live
            /\ rep[NewClass] = NewClass /\ Live' = Live \cup {NewClass}
            /\ <<o, region>> \notin DOMAIN cells
            /\ DOMAIN cells' = DOMAIN cells \cup {<<o, region>>}
            /\ cells' = [k \in DOMAIN cells' |-> cells'[k]]
            /\ cells'[<<o, region>>] = NewClass
            /\ \A k \in DOMAIN cells : cells'[k] = cells[k]
            /\ \A c \in Class \ {NewClass} : /\ facts'[c] = facts[c] /\ sources'[c] = sources[c]
                                             /\ regions'[c] = regions[c]
            /\ regions'[NewClass] = {<<o, region>>}
            /\ facts'[NewClass] = EscapeOfField(o)
            /\ sources'[NewClass] = IF o \in DOMAIN escaped THEN {First(escaped[o])} ELSE {}
            /\ FactsOK' /\ regions' = [c \in Class |-> regions'[c]]
            /\ spare' = spare \ {NewClass}
            /\ UNCHANGED <<readVars, worklist, rep, size, pointee, contentVars, callVars, shifts,
                           replayed, spread, escaped, lanes, onceVars>>
            /\ Then(AnyOrder({<<Join(Of(NewClass), Of(c))>> : c \in Overlapped(o, region)}))
<1> DEFINE o == Head(agenda).root
           region == Head(agenda).region
<1>1. /\ spare # {} /\ spare' = spare \ {NewClass} /\ <<o, region>> \notin DOMAIN cells
      /\ cells' = [k \in DOMAIN cells \cup {<<o, region>>} |->
                     IF k = <<o, region>> THEN NewClass ELSE cells[k]]
      /\ regions' = [regions EXCEPT ![NewClass] = {<<o, region>>}]
      /\ facts' = [facts EXCEPT ![NewClass] = EscapeOfField(o)]
      /\ sources' = [sources EXCEPT ![NewClass] =
                       IF o \in DOMAIN escaped THEN {First(escaped[o])} ELSE {}]
      /\ Then(AnyOrder({<<Join(Of(NewClass), Of(c))>> : c \in Overlapped(o, region)}))
      /\ UNCHANGED <<readVars, worklist, rep, size, pointee, contentVars, callVars, shifts, replayed,
                     spread, escaped, lanes, onceVars>>
  BY DEF FieldMade
<1> HIDE DEF o, region
<1>2. /\ NewClass \in spare /\ NewClass \in Class /\ NewClass \notin Live
      /\ rep[NewClass] = NewClass /\ Live' = Live \cup {NewClass}
  BY <1>1, NewClassUsed DEF TypeInv
<1>3. /\ DOMAIN cells' = DOMAIN cells \cup {<<o, region>>}
      /\ cells' = [k \in DOMAIN cells' |-> cells'[k]]
      /\ cells'[<<o, region>>] = NewClass /\ \A k \in DOMAIN cells : cells'[k] = cells[k]
  BY <1>1
<1>4. /\ facts \in [Class -> SUBSET FactNames] /\ sources \in [Class -> SUBSET Reasons]
      /\ regions = [c \in Class |-> regions[c]]
  BY DEF TypeInv, FactsOK, ContentOK
<1>5. /\ \A c \in Class \ {NewClass} : facts'[c] = facts[c] /\ sources'[c] = sources[c]
                                       /\ regions'[c] = regions[c]
      /\ regions'[NewClass] = {<<o, region>>} /\ facts'[NewClass] = EscapeOfField(o)
      /\ sources'[NewClass] = IF o \in DOMAIN escaped THEN {First(escaped[o])} ELSE {}
      /\ regions' = [c \in Class |-> regions'[c]]
  BY <1>1, <1>2, <1>4
<1>6. FactsOK'
  <2>1. EscapeOfField(o) \subseteq FactNames BY DEF EscapeOfField, Escape, FactNames
  <2>2. o \in DOMAIN escaped => First(escaped[o]) \in Reasons BY DEF TypeInv, EscapeOK, First
  <2> QED BY <1>1, <1>4, <2>1, <2>2 DEF FactsOK
<1> QED BY <1>1, <1>2, <1>3, <1>5, <1>6 DEF o, region

\* field_class makes the class of a region, escaped with a reason if it escapes.
LEMMA FieldMadeTypes ==
  ASSUME TypeInv, FieldMade
  PROVE  TypeInv' /\ Resolved \subseteq Resolved'
<1> DEFINE o == Head(agenda).root
           region == Head(agenda).region
           batches == {<<Join(Of(NewClass), Of(c))>> : c \in Overlapped(o, region)}
<1>1. /\ NewClass \in spare /\ NewClass \in Class /\ NewClass \notin Live
      /\ rep[NewClass] = NewClass /\ Live' = Live \cup {NewClass}
      /\ DOMAIN cells' = DOMAIN cells \cup {<<o, region>>}
      /\ cells' = [k \in DOMAIN cells' |-> cells'[k]]
      /\ cells'[<<o, region>>] = NewClass
      /\ \A k \in DOMAIN cells : cells'[k] = cells[k]
  BY FieldMadeTables
<1>2. /\ \A c \in Class \ {NewClass} : facts'[c] = facts[c] /\ sources'[c] = sources[c]
                                       /\ regions'[c] = regions[c]
      /\ facts'[NewClass] = EscapeOfField(o)
      /\ sources'[NewClass] = IF o \in DOMAIN escaped THEN {First(escaped[o])} ELSE {}
      /\ FactsOK' /\ regions' = [c \in Class |-> regions'[c]]
  BY FieldMadeTables
<1>3. /\ spare' = spare \ {NewClass}
      /\ UNCHANGED <<readVars, worklist, rep, size, pointee, contentVars, callVars, shifts,
                     replayed, spread, escaped, lanes, onceVars>>
      /\ Then(AnyOrder(batches))
  BY FieldMadeTables
<1>4. CallOK(program, Head(agenda), Resolved) /\ agenda # <<>> /\ Head(agenda).call = "field_class"
  BY CalledOK DEF FieldMade, CallNames
<1> HIDE DEF o, region
<1>5. GraphOK'
  <2>1. pointee' \in [Class -> Live' \cup {NoClass}] BY <1>1, <1>3 DEF TypeInv, GraphOK
  <2>2. \A k \in DOMAIN cells' : k = <<k[1], k[2]>> /\ cells'[k] \in Live'
    BY <1>1 DEF TypeInv, GraphOK
  <2> QED BY <1>1, <1>3, <2>1, <2>2 DEF TypeInv, GraphOK
<1>6. Resolved \subseteq Resolved' BY <1>1, <1>3 DEF Resolved
<1>7. EscapeOK'
  <2>1. \A c \in Class : facts'[c] \cap Escape # {} => sources'[c] # {}
    BY <1>1, <1>2 DEF TypeInv, EscapeOK, EscapeOfField
  <2> QED BY <1>3, <2>1 DEF TypeInv, EscapeOK
<1>8. ContentOK'
  <2>1. \A c \in spare' : regions'[c] = {}
    BY <1>1, <1>2, <1>3 DEF TypeInv, ContentOK, GraphOK, Class
  <2>2. \A c \in Class : Transfers(c)' = Transfers(c) BY <1>3 DEF Transfers
  <2> QED BY <1>2, <1>3, <2>1, <2>2 DEF TypeInv, ContentOK, callVars
<1>9. OnceOK' BY <1>1, <1>3 DEF TypeInv, OnceOK, onceVars
<1>10. ProgramOK' /\ TodoOK' BY <1>3, StillProgram, StillTodo DEF TypeInv, readVars
<1>11. \A b \in batches : BatchOK(program, b, Resolved')
  <2> SUFFICES ASSUME NEW c \in Overlapped(o, region)
               PROVE  BatchOK(program, <<Join(Of(NewClass), Of(c))>>, Resolved')
    OBVIOUS
  <2>1. c \in Live BY DEF Overlapped, TypeInv, GraphOK
  <2>2. Of(NewClass) \in Resolved' /\ Of(c) \in Resolved' BY <1>1, <2>1 DEF Resolved
  <2>3. CallOK(program, Join(Of(NewClass), Of(c)), Resolved')
    BY <2>2 DEF CallOK, Typed, Needed, Join, CallNames
  <2> QED BY <2>3, OneOK
<1> HIDE DEF batches
<1>12. AgendaOK(program, AnyOrder(batches), Resolved') BY <1>11, AnyOrderOK
<1>13. Given(Head(agenda)) \subseteq Resolved'
  <2>1. CellOf(o, region) \in Resolved' BY <1>1, <1>5, TermsResolved DEF Resolved
  <2> QED BY <1>4, <2>1 DEF Given, o, region
<1>14. AgendaOK(program', agenda', Resolved')
  BY <1>3, <1>4, <1>6, <1>12, <1>13, NextOK DEF TypeInv, Then, readVars
<1> QED BY <1>2, <1>5, <1>6, <1>7, <1>8, <1>9, <1>10, <1>14 DEF TypeInv

(***************************************************************************)
(* Steps that only make calls.                                             *)
(***************************************************************************)
LEMMA CallsMade ==
  ASSUME TypeInv, agenda # <<>>, NEW calls, Then(calls), AgendaOK(program, calls, Resolved),
         Given(Head(agenda)) = {},
         UNCHANGED <<readVars, graphVars, factVars, callVars, regions, shifts, spread, cells, escaped>>,
         OnceOK'
  PROVE  TypeInv' /\ Resolved' = Resolved
<1>1. GraphOK' /\ Resolved' = Resolved BY StillGraph DEF TypeInv
<1>2. FactsOK' /\ ContentOK' /\ EscapeOK' /\ ProgramOK' /\ TodoOK'
  BY StillFacts, StillContent, StillEscape, StillProgram, StillTodo DEF TypeInv, readVars
<1>3. AgendaOK(program', agenda', Resolved')
  BY <1>1, NextOK DEF TypeInv, Then, readVars
<1> QED BY <1>1, <1>2, <1>3 DEF TypeInv

\* A node can always be named, and what it points to asked for.
LEMMA ClassTermKnown ==
  ASSUME TypeInv, NEW v \in Values
  PROVE  v \in Live /\ Of(v) \in Resolved /\ CallOK(program, Need(v), Resolved)
         /\ PointeeOf(v) \in Resolved \cup Given(Need(v))
<1>1. v \in Live /\ Of(v) \in Resolved BY NodesLive, TermsResolved DEF TypeInv
<1> QED BY <1>1 DEF CallOK, Typed, Needed, Need, CallNames, Given

\* A cell is made, then a class joins it.
LEMMA CellJoined ==
  ASSUME TypeInv, NEW term \in Resolved, NEW o, NEW region
  PROVE  BatchOK(program, <<NeedCell(o, region), Join(term, CellOf(o, region))>>, Resolved)
<1>1. CallOK(program, NeedCell(o, region), Resolved)
  BY DEF CallOK, Typed, Needed, NeedCell, CallNames
<1>2. CallOK(program, Join(term, CellOf(o, region)), Resolved \cup Given(NeedCell(o, region)))
  BY DEF CallOK, Typed, Needed, Join, NeedCell, CallNames, Given
<1> QED BY <1>1, <1>2, TwoOK

\* What the replay of a class calls is in order.
LEMMA ReplayCallsOK ==
  ASSUME TypeInv, NEW c \in Live
  PROVE  AgendaOK(program, ReplayCalls(c), Resolved)
<1>1. \A t \in Transfers(c) : t.dst \in Values BY DEF TypeInv, ContentOK, Live
<1>2. Of(c) \in Resolved BY TermsResolved DEF TypeInv
<1>3. AgendaOK(program, StayIn(c), Resolved)
  <2>1. ASSUME NEW t \in Transfers(c)
        PROVE  BatchOK(program, <<Need(t.dst), Join(PointeeOf(t.dst), Of(c))>>, Resolved)
    <3>1. CallOK(program, Join(PointeeOf(t.dst), Of(c)), Resolved \cup Given(Need(t.dst)))
      BY <1>1, <1>2, ClassTermKnown DEF CallOK, Typed, Needed, Join, CallNames
    <3> QED BY <1>1, <3>1, ClassTermKnown, TwoOK
  <2> QED BY <2>1, AnyOrderOK DEF StayIn
<1>4. ASSUME NEW given
      PROVE  AgendaOK(program, AnyOrder({<<Need(t.dst), Shift(c, t, given)>> : t \in Transfers(c)}),
                      Resolved)
  <2>1. ASSUME NEW t \in Transfers(c)
        PROVE  BatchOK(program, <<Need(t.dst), Shift(c, t, given)>>, Resolved)
    <3>1. CallOK(program, Shift(c, t, given), Resolved \cup Given(Need(t.dst)))
      BY <1>1, <1>2, ClassTermKnown DEF CallOK, Typed, Needed, Shift, CallNames
    <3> QED BY <1>1, <3>1, ClassTermKnown, TwoOK
  <2> QED BY <2>1, AnyOrderOK
<1>5. AgendaOK(program, <<Widen(c, regions[c])>>, Resolved)
  <2>1. CallOK(program, Widen(c, regions[c]), Resolved)
    BY <1>2 DEF CallOK, Typed, Needed, Widen, CallNames
  <2> QED BY <2>1, OneOK
<1>6. AgendaOK(program, StayIn(c) \o <<Widen(c, regions[c])>>, Resolved) BY <1>3, <1>5, AppendOK
<1>7. AgendaOK(program, StayIn(c) \o <<>>, Resolved) BY <1>3, EmptyOK, AppendOK
<1> QED BY <1>3, <1>4, <1>6, <1>7 DEF ReplayCalls

\* replay_gep_transfers keeps the state well formed.
LEMMA ReplayTransfersTypes ==
  ASSUME TypeInv, ReplayTransfers
  PROVE  TypeInv' /\ Resolved' = Resolved
<1> DEFINE c == rep[Head(agenda).of]
<1>1. CallOK(program, Head(agenda), Resolved) /\ agenda # <<>>
      /\ Head(agenda).call = "replay_gep_transfers"
  BY CalledOK DEF ReplayTransfers, CallNames
<1>2. c \in Live BY <1>1, TermsResolved, RepLive DEF TypeInv, CallOK, Needed
<1>3. /\ Then(ReplayCalls(c))
      /\ UNCHANGED <<readVars, worklist, graphVars, factVars, contentVars, callVars, regions, shifts,
                     spread, fieldVars, onceVars>>
  BY DEF ReplayTransfers
<1> HIDE DEF c
<1>4. AgendaOK(program, ReplayCalls(c), Resolved) BY <1>2, ReplayCallsOK
<1>5. OnceOK' BY <1>3, StillOnce DEF TypeInv, graphVars
<1> QED BY <1>1, <1>3, <1>4, <1>5, CallsMade DEF fieldVars, Given

\* A displaced summary joins regions that were made before.
LEMMA WidenSummaryTypes ==
  ASSUME TypeInv, WidenSummary
  PROVE  TypeInv' /\ Resolved' = Resolved
<1> DEFINE call == Head(agenda)
           owners == fns[rep[call.of]] \cup {g[1] : g \in call.given}
           unknown == Region(Unknown, {0})
           batches == {<<NeedCell(o, unknown), Join(Of(call.of), CellOf(o, unknown))>> : o \in owners}
<1>1. CallOK(program, call, Resolved) /\ agenda # <<>> /\ call.call = "widen"
  BY CalledOK DEF WidenSummary, CallNames
<1>2. Of(call.of) \in Resolved BY <1>1 DEF CallOK, Needed
<1>3. Then(AnyOrder(batches)) /\ UNCHANGED <<readVars, classVars>> BY DEF WidenSummary
<1>4. \A b \in batches : BatchOK(program, b, Resolved) BY <1>2, CellJoined
<1> HIDE DEF batches
<1>5. AgendaOK(program, AnyOrder(batches), Resolved) BY <1>4, AnyOrderOK
<1>6. OnceOK' BY <1>3, StillOnce DEF TypeInv, graphVars, classVars, knownVars
<1> QED BY <1>1, <1>3, <1>5, <1>6, CallsMade DEF classVars, knownVars, fieldVars, shiftVars, Given

\* What one transfer calls is in order.
LEMMA ShiftCallsOK ==
  ASSUME TypeInv, NEW c, NEW transfer, NEW given, Of(c) \in Resolved,
         PointeeOf(transfer.dst) \in Resolved, transfer.dst \in Values
  PROVE  AgendaOK(program, ShiftCalls(c, transfer, given), Resolved)
<1>1. AgendaOK(program, <<Join(PointeeOf(transfer.dst), Of(c))>>, Resolved)
  <2>1. CallOK(program, Join(PointeeOf(transfer.dst), Of(c)), Resolved)
    BY DEF CallOK, Typed, Needed, Join, CallNames
  <2> QED BY <2>1, OneOK
<1>2. ASSUME NEW o, NEW region
      PROVE  BatchOK(program, <<ShiftedField(o, region, transfer.dst)>>, Resolved)
  <2>1. CallOK(program, ShiftedField(o, region, transfer.dst), Resolved)
    BY DEF CallOK, Typed, Needed, ShiftedField, CallNames
  <2> QED BY <2>1, OneOK
<1> DEFINE circular == IsExact(transfer.delta) /\ Find(PointeeOf(transfer.dst)) = rep[c]
           Shifted(o, region) ==
             IF circular /\ IsExact(region.location)
               THEN <<NeedCell(o, Region(Unknown, region.width)),
                      Join(PointeeOf(transfer.dst), CellOf(o, Region(Unknown, region.width)))>>
               ELSE <<ShiftedField(o, Region(add(region.location, transfer.delta), region.width),
                                   transfer.dst)>>
           batches == {Shifted(g[1], g[2]) : g \in given}
<1>3. ASSUME NEW o, NEW region
      PROVE  BatchOK(program, Shifted(o, region), Resolved)
  <2>1. BatchOK(program, <<NeedCell(o, Region(Unknown, region.width)),
                      Join(PointeeOf(transfer.dst), CellOf(o, Region(Unknown, region.width)))>>,
                Resolved)
    BY CellJoined
  <2>2. BatchOK(program, <<ShiftedField(o, Region(add(region.location, transfer.delta), region.width),
                                        transfer.dst)>>, Resolved)
    BY <1>2
  <2> QED BY <2>1, <2>2
<1>4. \A b \in batches : BatchOK(program, b, Resolved) BY <1>3
<1>5. AgendaOK(program, AnyOrder(batches), Resolved) BY <1>4, AnyOrderOK
<1>6. ShiftCalls(c, transfer, given) =
        IF transfer.delta = Exact(0) THEN <<Join(PointeeOf(transfer.dst), Of(c))>>
        ELSE AnyOrder(batches)
  BY DEF ShiftCalls
<1> QED BY <1>1, <1>5, <1>6

\* A transfer keeps the state well formed.
LEMMA ShiftTransferTypes ==
  ASSUME TypeInv, ShiftTransfer
  PROVE  TypeInv' /\ Resolved' = Resolved
<1> DEFINE call == Head(agenda)
           calls == ShiftCalls(call.of, call.transfer, call.given)
<1>1. CallOK(program, call, Resolved) /\ agenda # <<>> /\ call.call = "shift"
  BY CalledOK DEF ShiftTransfer, CallNames
<1>2. Of(call.of) \in Resolved /\ PointeeOf(call.transfer.dst) \in Resolved
      /\ call.transfer.dst \in Values
  BY <1>1 DEF CallOK, Needed, Typed
<1>3. Then(calls) /\ UNCHANGED <<readVars, classVars>> BY DEF ShiftTransfer
<1>4. AgendaOK(program, calls, Resolved) BY <1>2, ShiftCallsOK
<1> HIDE DEF calls
<1>5. OnceOK' BY <1>3, StillOnce DEF TypeInv, graphVars, classVars, knownVars
<1> QED BY <1>1, <1>3, <1>4, <1>5, CallsMade DEF classVars, knownVars, fieldVars, shiftVars, Given

\* shifted_field_class keeps the state well formed, inside the cap and beyond it.
LEMMA ShiftedFieldClassTypes ==
  ASSUME TypeInv, ShiftedFieldClass
  PROVE  TypeInv' /\ Resolved' = Resolved
<1> DEFINE call == Head(agenda)
<1>1. CallOK(program, call, Resolved) /\ agenda # <<>> /\ call.call = "shifted_field_class"
  BY CalledOK DEF ShiftedFieldClass, CallNames
<1>2. PointeeOf(call.dst) \in Resolved BY <1>1 DEF CallOK, Needed
<1>3. PICK region : Then(<<NeedCell(call.root, region), Join(PointeeOf(call.dst), CellOf(call.root, region))>>)
  BY DEF ShiftedFieldClass
<1>4. UNCHANGED <<readVars, worklist, graphVars, factVars, contentVars, callVars, shiftVars,
                  cells, escaped, onceVars>>
  BY DEF ShiftedFieldClass
<1>5. AgendaOK(program, <<NeedCell(call.root, region), Join(PointeeOf(call.dst), CellOf(call.root, region))>>,
               Resolved)
  BY <1>2, CellJoined, BatchIsAgenda
<1>6. OnceOK' BY <1>4, StillOnce DEF TypeInv, graphVars
<1> QED BY <1>1, <1>3, <1>4, <1>5, <1>6, CallsMade DEF shiftVars, Given

(***************************************************************************)
(* Steps that pass values across calls.                                    *)
(***************************************************************************)
\* What a pointer designates escapes, for a reason.
LEMMA EscapeExactOK ==
  ASSUME TypeInv, NEW v, NEW labels \in SUBSET Reasons, labels # {}, NEW known
  PROVE  BatchOK(program, EscapeExact(v, labels), known)
<1> DEFINE o == (CHOOSE a \in program.exact[v] : TRUE).root
<1>1. CallOK(program, EscapeFields(o, labels), known)
  BY DEF CallOK, Typed, Needed, EscapeFields, CallNames
<1>2. BatchOK(program, <<EscapeFields(o, labels)>>, known) BY <1>1, OneOK
<1> QED BY <1>2, EmptyOK DEF EscapeExact

\* Facts are given to what is there, and an escape for a reason.
LEMMA GiveOK ==
  ASSUME NEW p, NEW known, NEW term \in known, NEW names \in SUBSET FactNames,
         NEW labels \in SUBSET Reasons, names \cap Escape # {} => labels # {}
  PROVE  CallOK(p, Give(term, names, labels), known)
BY DEF CallOK, Typed, Needed, Give, CallNames

\* Publishing what a pointer designates is in order.
LEMMA PublishOK ==
  ASSUME TypeInv, NEW v \in Values, NEW labels \in SUBSET Reasons, labels # {}
  PROVE  BatchOK(program, Publish(v, labels), Resolved)
<1>1. Escape \in SUBSET FactNames BY DEF Escape, FactNames
<1>2. /\ CallOK(program, Need(v), Resolved)
      /\ CallOK(program, Give(PointeeOf(v), Escape, labels), Resolved \cup Given(Need(v)))
  BY <1>1, ClassTermKnown, GiveOK
<1>3. BatchOK(program, <<Need(v), Give(PointeeOf(v), Escape, labels)>>, Resolved)
  BY <1>2, TwoOK
<1>4. BatchOK(program, EscapeExact(v, labels), Resolved) BY EscapeExactOK
<1>5. Resolved \cup {} = Resolved
  OBVIOUS
<1> DEFINE first == EscapeExact(v, labels)
           rest == <<Need(v), Give(PointeeOf(v), Escape, labels)>>
           none == {}
<1>6. \A t \in none : t \in Resolved \/ \E j \in DOMAIN first : t \in Given(first[j])
  OBVIOUS
<1>7. BatchOK(program, first, Resolved) /\ BatchOK(program, rest, Resolved \cup none)
  BY <1>3, <1>4, <1>5
<1>8. Publish(v, labels) = first \o rest BY DEF Publish
<1> HIDE DEF first, rest, none
<1>9. BatchOK(program, first \o rest, Resolved) BY <1>6, <1>7, ThenOK
<1> QED BY <1>8, <1>9

\* A value is passed from one place to another.
LEMMA TransferOK ==
  ASSUME TypeInv, NEW src \in Values, NEW dst \in Values
  PROVE  BatchOK(program, Transfer(src, dst), Resolved)
<1>1. Of(src) \in Resolved /\ Of(dst) \in Resolved BY ClassTermKnown
<1>2. CallOK(program, Join(Of(src), Of(dst)), Resolved)
  BY <1>1 DEF CallOK, Typed, Needed, Join, CallNames
<1>3. CallOK(program, Give(Of(dst), {"empty"}, {}), Resolved)
  BY <1>1, GiveOK DEF FactNames, Escape
<1>4. BatchOK(program, <<Join(Of(src), Of(dst))>>, Resolved)
      /\ BatchOK(program, <<Give(Of(dst), {"empty"}, {})>>, Resolved)
  BY <1>2, <1>3, OneOK
<1> QED BY <1>4, EmptyOK DEF Transfer

\* A transfer between two sets is in order.
LEMMA TransferAnyOK ==
  ASSUME TypeInv, NEW srcs \in SUBSET Values, NEW dsts \in SUBSET Values
  PROVE  BatchOK(program, TransferAny(srcs, dsts), Resolved)
<1>1. CASE srcs = {} \/ dsts = {} BY <1>1, EmptyOK DEF TransferAny
<1>2. CASE srcs # {} /\ dsts # {}
  <2>1. (CHOOSE v \in srcs : TRUE) \in Values /\ (CHOOSE v \in dsts : TRUE) \in Values BY <1>2
  <2> QED BY <1>2, <2>1, TransferOK DEF TransferAny
<1> QED BY <1>1, <1>2

\* A step that makes calls and changes nothing.
LEMMA OnlyCalls ==
  ASSUME TypeInv, agenda # <<>>, NEW calls, Then(calls), AgendaOK(program, calls, Resolved),
         Given(Head(agenda)) = {}, UNCHANGED <<readVars, classVars>>
  PROVE  TypeInv' /\ Resolved' = Resolved
<1>1. OnceOK' BY StillOnce DEF TypeInv, graphVars, classVars, knownVars
<1> QED BY <1>1, CallsMade DEF classVars, knownVars, fieldVars, shiftVars

\* bind_indirect_call keeps the state well formed.
LEMMA BindIndirectCallTypes ==
  ASSUME TypeInv, BindIndirectCall
  PROVE  TypeInv' /\ Resolved' = Resolved
<1> DEFINE site == Head(agenda).site
           f == Head(agenda).function
           first == IF f \in program.external THEN <<ApplyExternal(site)>> ELSE <<>>
           calls == first \o <<BindFrom(site, f, 1)>>
<1>1. CallOK(program, Head(agenda), Resolved) /\ agenda # <<>>
      /\ Head(agenda).call = "bind_indirect_call"
  BY CalledOK DEF BindIndirectCall, CallNames
<1>2. site \in Sites /\ f \in Functions BY <1>1 DEF CallOK, Typed
<1>3. Then(calls) /\ UNCHANGED <<readVars, classVars>> BY DEF BindIndirectCall
<1>4. CallOK(program, ApplyExternal(site), Resolved) /\ CallOK(program, BindFrom(site, f, 1), Resolved)
  BY <1>2 DEF CallOK, Typed, Needed, ApplyExternal, BindFrom, CallNames
<1>5. AgendaOK(program, first, Resolved) BY <1>4, OneOK, EmptyOK
<1>6. AgendaOK(program, <<BindFrom(site, f, 1)>>, Resolved) BY <1>4, OneOK
<1> HIDE DEF first
<1>7. AgendaOK(program, calls, Resolved) BY <1>5, <1>6, AppendOK
<1> HIDE DEF calls
<1> QED BY <1>1, <1>3, <1>7, OnlyCalls DEF Given

\* Arguments and results are passed between values of the program.
LEMMA BindArgumentsTypes ==
  ASSUME TypeInv, BindArguments
  PROVE  TypeInv' /\ Resolved' = Resolved
<1> DEFINE site == Head(agenda).site
           f == Head(agenda).function
           i == Head(agenda).from
           more == TransferAny({Args(site)[i]}, Params(f)[i]) \o <<BindFrom(site, f, i + 1)>>
           last == TransferAny(program.ret[f], program.result[site])
           calls == IF i \in DOMAIN Args(site) /\ i \in DOMAIN Params(f) THEN more ELSE last
<1>1. CallOK(program, Head(agenda), Resolved) /\ agenda # <<>>
      /\ Head(agenda).call = "bind_arguments"
  BY CalledOK DEF BindArguments, CallNames
<1>2. site \in Sites /\ f \in Functions /\ i \in Nat \ {0} BY <1>1 DEF CallOK, Typed
<1>3. Then(calls) /\ UNCHANGED <<readVars, classVars>> BY DEF BindArguments
<1> HIDE DEF site, f, i
<1>4. Args(site) \in Seq(Values) /\ Params(f) \in Seq(SUBSET Values)
      /\ program.ret[f] \in SUBSET Values /\ program.result[site] \in SUBSET Values
  BY <1>2 DEF TypeInv, ProgramOK, Args, Params
<1>5. AgendaOK(program, last, Resolved) BY <1>4, TransferAnyOK, BatchIsAgenda
<1>6. ASSUME i \in DOMAIN Args(site), i \in DOMAIN Params(f)
      PROVE  AgendaOK(program, more, Resolved)
  <2>1. {Args(site)[i]} \in SUBSET Values /\ Params(f)[i] \in SUBSET Values BY <1>4, <1>6
  <2>2. AgendaOK(program, TransferAny({Args(site)[i]}, Params(f)[i]), Resolved)
    BY <2>1, TransferAnyOK, BatchIsAgenda
  <2>3. i + 1 \in Nat \ {0} BY <1>2
  <2>4. CallOK(program, BindFrom(site, f, i + 1), Resolved)
    BY <1>2, <2>3 DEF CallOK, Typed, Needed, BindFrom, CallNames
  <2>5. AgendaOK(program, <<BindFrom(site, f, i + 1)>>, Resolved) BY <2>4, OneOK
  <2> QED BY <2>2, <2>5, AppendOK
<1> HIDE DEF more, last
<1>7. AgendaOK(program, calls, Resolved) BY <1>5, <1>6
<1> HIDE DEF calls
<1> QED BY <1>1, <1>3, <1>7, OnlyCalls DEF Given

\* apply_external_call keeps the state well formed.
LEMMA ApplyExternalCallTypes ==
  ASSUME TypeInv, ApplyExternalCall
  PROVE  TypeInv' /\ Resolved' = Resolved
<1> DEFINE site == Head(agenda).site
           calls == IF site \in externals THEN <<>> ELSE <<PublishFrom(site, 1)>>
<1>1. CallOK(program, Head(agenda), Resolved) /\ agenda # <<>>
      /\ Head(agenda).call = "apply_external_call"
  BY CalledOK DEF ApplyExternalCall, CallNames
<1>2. site \in Sites BY <1>1 DEF CallOK, Typed
<1>3. /\ Then(calls) /\ externals' = externals \cup {site}
      /\ UNCHANGED <<readVars, worklist, graphVars, factVars, contentVars, callVars, shiftVars,
                     fieldVars, pairs, published>>
  BY DEF ApplyExternalCall
<1>4. CallOK(program, PublishFrom(site, 1), Resolved)
  BY <1>2 DEF CallOK, Typed, Needed, PublishFrom, CallNames
<1>5. AgendaOK(program, calls, Resolved) BY <1>4, OneOK, EmptyOK
<1> HIDE DEF calls
<1>6. OnceOK' BY <1>2, <1>3 DEF TypeInv, OnceOK, graphVars, Live
<1> QED BY <1>1, <1>3, <1>5, <1>6, CallsMade DEF shiftVars, fieldVars, Given

\* The name of a reason.
LEMMA LabelReason ==
  ASSUME NEW kind \in LabelKinds, NEW of \in Nodes \cup Sites
  PROVE  {Label(kind, of)} \in SUBSET Reasons /\ {Label(kind, of)} # {}
BY DEF Label, Reasons

\* The arguments of an external call are published for a reason.
LEMMA PublishArgumentsTypes ==
  ASSUME TypeInv, PublishArguments
  PROVE  TypeInv' /\ Resolved' = Resolved
<1> DEFINE site == Head(agenda).site
           i == Head(agenda).from
           result == program.result[site]
           more == PublishArgument(site, Args(site)[i]) \o <<PublishFrom(site, i + 1)>>
           last == IF result = {} THEN <<>> ELSE <<Give(Of(CHOOSE v \in result : TRUE), External, {})>>
           calls == IF i \in DOMAIN Args(site) THEN more ELSE last
<1>1. CallOK(program, Head(agenda), Resolved) /\ agenda # <<>>
      /\ Head(agenda).call = "publish_arguments"
  BY CalledOK DEF PublishArguments, CallNames
<1>2. site \in Sites /\ i \in Nat \ {0} BY <1>1 DEF CallOK, Typed
<1>3. Then(calls) /\ UNCHANGED <<readVars, classVars>> BY DEF PublishArguments
<1> HIDE DEF site, i
<1>4. Args(site) \in Seq(Values) /\ result \in SUBSET Values
  BY <1>2 DEF TypeInv, ProgramOK, Args
<1>5. AgendaOK(program, last, Resolved)
  <2>1. CASE result = {} BY <2>1, EmptyOK
  <2>2. CASE result # {}
    <3>1. (CHOOSE v \in result : TRUE) \in Values BY <1>4, <2>2
    <3>2. Of(CHOOSE v \in result : TRUE) \in Resolved BY <3>1, ClassTermKnown
    <3>3. CallOK(program, Give(Of(CHOOSE v \in result : TRUE), External, {}), Resolved)
      BY <3>2, GiveOK DEF External, Escape, FactNames
    <3> QED BY <2>2, <3>3, OneOK
  <2> QED BY <2>1, <2>2
<1>6. ASSUME i \in DOMAIN Args(site)
      PROVE  AgendaOK(program, more, Resolved)
  <2>1. Args(site)[i] \in Values BY <1>4, <1>6
  <2>2. {Label("external-call", site)} \in SUBSET Reasons /\ {Label("external-call", site)} # {}
    BY <1>2, LabelReason DEF LabelKinds
  <2>3. AgendaOK(program, PublishArgument(site, Args(site)[i]), Resolved)
    BY <2>1, <2>2, PublishOK, EmptyOK, BatchIsAgenda DEF PublishArgument
  <2>4. i + 1 \in Nat \ {0} BY <1>2
  <2>5. CallOK(program, PublishFrom(site, i + 1), Resolved)
    BY <1>2, <2>4 DEF CallOK, Typed, Needed, PublishFrom, CallNames
  <2>6. AgendaOK(program, <<PublishFrom(site, i + 1)>>, Resolved) BY <2>5, OneOK
  <2> QED BY <2>3, <2>6, AppendOK
<1> HIDE DEF more, last
<1>7. AgendaOK(program, calls, Resolved) BY <1>5, <1>6
<1> HIDE DEF calls
<1> QED BY <1>1, <1>3, <1>7, OnlyCalls DEF Given

\* apply_vararg_call gives escape to what is there.
LEMMA ApplyVarargCallTypes ==
  ASSUME TypeInv, ApplyVarargCall
  PROVE  TypeInv' /\ Resolved' = Resolved
<1> DEFINE site == Head(agenda).site
           i == Head(agenda).from
           v == Args(site)[i]
           label == {Label("vararg-call", site)}
           tail == IF pointee[rep[v]] = NoClass THEN <<>> ELSE <<Give(PointeeOf(v), Escape, label)>>
           more == TailCalls(site, v) \o <<PublishTail(site, i + 1)>>
           calls == IF i \in DOMAIN Args(site) THEN more ELSE <<>>
<1>1. CallOK(program, Head(agenda), Resolved) /\ agenda # <<>>
      /\ Head(agenda).call = "apply_vararg_call"
  BY CalledOK DEF ApplyVarargCall, CallNames
<1>2. site \in Sites /\ i \in Nat \ {0} BY <1>1 DEF CallOK, Typed
<1>3. Then(calls) /\ UNCHANGED <<readVars, classVars>> BY DEF ApplyVarargCall
<1> HIDE DEF site, i
<1>4. Args(site) \in Seq(Values) BY <1>2 DEF TypeInv, ProgramOK, Args
<1>5. ASSUME i \in DOMAIN Args(site)
      PROVE  AgendaOK(program, more, Resolved)
  <2>1. v \in Values BY <1>4, <1>5
  <2>2. label \in SUBSET Reasons /\ label # {} BY <1>2, LabelReason DEF LabelKinds
  <2>3. AgendaOK(program, tail, Resolved)
    <3>1. CASE pointee[rep[v]] = NoClass BY <3>1, EmptyOK
    <3>2. CASE pointee[rep[v]] # NoClass
      <4>1. PointeeOf(v) \in Resolved BY <2>1, <3>2, ClassTermKnown, TermsResolved DEF TypeInv
      <4>2. CallOK(program, Give(PointeeOf(v), Escape, label), Resolved)
        BY <2>2, <4>1, GiveOK DEF Escape, FactNames
      <4> QED BY <3>2, <4>2, OneOK
    <3> QED BY <3>1, <3>2
  <2>4. AgendaOK(program, EscapeExact(v, label), Resolved)
    BY <2>2, EscapeExactOK, BatchIsAgenda
  <2>5. TailCalls(site, v) = EscapeExact(v, label) \o tail BY DEF TailCalls
  <2>6. i + 1 \in Nat \ {0} BY <1>2
  <2>7. CallOK(program, PublishTail(site, i + 1), Resolved)
    BY <1>2, <2>6 DEF CallOK, Typed, Needed, PublishTail, CallNames
  <2>8. AgendaOK(program, <<PublishTail(site, i + 1)>>, Resolved) BY <2>7, OneOK
  <2> HIDE DEF tail
  <2>9. AgendaOK(program, TailCalls(site, v), Resolved) BY <2>3, <2>4, <2>5, AppendOK
  <2> QED BY <2>8, <2>9, AppendOK
<1> HIDE DEF more
<1>6. AgendaOK(program, calls, Resolved) BY <1>5, EmptyOK
<1> HIDE DEF calls
<1> QED BY <1>1, <1>3, <1>6, OnlyCalls DEF Given

(***************************************************************************)
(* Reading the program.                                                    *)
(***************************************************************************)
LEMMA BatchLater ==
  ASSUME NEW p, NEW b, NEW known, NEW later, known \subseteq later, BatchOK(p, b, known)
  PROVE  BatchOK(p, b, later)
BY DEF BatchOK, InTurn

\* The storage of an access is made before it is named.
LEMMA StorageOK ==
  ASSUME TypeInv, NEW v \in Values, NEW width, NEW direct
  PROVE  /\ BatchOK(program, Storage(v, width, direct), Resolved)
         /\ \/ StorageTerm(v, width, direct) \in Resolved
            \/ \E j \in DOMAIN Storage(v, width, direct) :
                 StorageTerm(v, width, direct) \in Given(Storage(v, width, direct)[j])
<1>1. CASE program.exact[v] = {}
  <2>1. Storage(v, width, direct) = <<Need(v)>> /\ StorageTerm(v, width, direct) = PointeeOf(v)
    BY <1>1 DEF Storage, StorageTerm
  <2>2. DOMAIN <<Need(v)>> = {1} /\ <<Need(v)>>[1] = Need(v)
    OBVIOUS
  <2>3. CallOK(program, Need(v), Resolved) BY ClassTermKnown
  <2>4. PointeeOf(v) \in Given(Need(v)) BY DEF Given, Need
  <2> QED BY <2>1, <2>2, <2>3, <2>4, OneOK
<1>2. CASE program.exact[v] # {}
  <2> DEFINE a == TheExact(v)
             cell == Region(a.location, width)
             make == NeedCell(a.root, cell)
             merge == Join(Of(a.root), CellOf(a.root, cell))
  <2>1. Storage(v, width, direct) = ExactStorage(a, width, direct)
        /\ StorageTerm(v, width, direct) = ExactStorageTerm(a, width, direct)
    BY <1>2 DEF Storage, StorageTerm
  <2>2. a.root \in Allocations BY <1>2 DEF TypeInv, ProgramOK, TheExact
  <2> HIDE DEF a
  <2>3. Of(a.root) \in Resolved BY <2>2, NodesLive, TermsResolved DEF TypeInv
  <2>4. BatchOK(program, <<make, merge>>, Resolved) BY <2>3, CellJoined
  <2>5. CallOK(program, make, Resolved) BY DEF CallOK, Typed, Needed, NeedCell, CallNames
  <2>6. BatchOK(program, <<make>>, Resolved) BY <2>5, OneOK
  <2>7. CellOf(a.root, cell) \in Given(make) BY DEF Given, NeedCell
  <2>8. DOMAIN <<make>> = {1} /\ <<make>>[1] = make
    OBVIOUS
  <2>9. ExactStorage(a, width, direct) = IF ~DirectRoot(a, direct) THEN <<make>>
                                         ELSE IF width = {0} THEN <<>> ELSE <<make, merge>>
    BY DEF ExactStorage
  <2>10. ExactStorageTerm(a, width, direct) = IF DirectRoot(a, direct) THEN Of(a.root)
                                              ELSE CellOf(a.root, cell)
    BY DEF ExactStorageTerm
  <2> HIDE DEF make, merge, cell
  <2>11. BatchOK(program, ExactStorage(a, width, direct), Resolved)
    BY <2>4, <2>6, <2>9, EmptyOK
  <2>12. CASE DirectRoot(a, direct) BY <2>1, <2>3, <2>10, <2>11, <2>12
  <2>13. CASE ~DirectRoot(a, direct)
    BY <2>1, <2>7, <2>8, <2>9, <2>10, <2>11, <2>13
  <2> QED BY <2>12, <2>13
<1> QED BY <1>1, <1>2

\* An access: its storage, then what uses it.
LEMMA AccessOK ==
  ASSUME TypeInv, NEW v \in Values, NEW width, NEW direct, NEW calls, NEW known,
         Resolved \subseteq known,
         BatchOK(program, calls, known \cup {StorageTerm(v, width, direct)})
  PROVE  BatchOK(program, Storage(v, width, direct) \o calls, known)
<1> DEFINE made == {StorageTerm(v, width, direct)}
           first == Storage(v, width, direct)
<1>1. BatchOK(program, first, Resolved) BY StorageOK
<1>2. BatchOK(program, first, known) BY <1>1, BatchLater
<1>3. \A t \in made : t \in known \/ \E j \in DOMAIN first : t \in Given(first[j])
  BY StorageOK
<1>4. BatchOK(program, calls, known \cup made)
  OBVIOUS
<1> HIDE DEF made, first
<1>5. BatchOK(program, first \o calls, known) BY <1>2, <1>3, <1>4, ThenOK
<1> QED BY <1>5 DEF first

\* Calls about two terms that can be evaluated.
LEMMA JoinOK ==
  ASSUME NEW p, NEW known, NEW left \in known, NEW right \in known
  PROVE  CallOK(p, Join(left, right), known) /\ CallOK(p, Unify(left, right), known)
         /\ CallOK(p, Content(left, right), known)
BY DEF CallOK, Typed, Needed, Join, Unify, Content, CallNames

\* The ends of an edge of the program.
LEMMA EdgeTypes ==
  ASSUME NEW e \in EdgeShapes
  PROVE  /\ e.kind = "addrof" => e.src \in Owners
         /\ e.kind # "addrof" => e.src \in Values
         /\ e.dst \in Values /\ e.kind \in {"addrof"} \cup FlowKinds
BY DEF EdgeShapes, FlowKinds

\* What the addrof rule calls is in order.
LEMMA AddrOfOK ==
  ASSUME TypeInv, NEW e, e.dst \in Values, e.src \in Owners
  PROVE  BatchOK(program, AddrOfCalls(e), Resolved)
<1>1. Of(e.src) \in Resolved BY NodesLive, TermsResolved DEF TypeInv, Nodes
<1>2. CallOK(program, Need(e.dst), Resolved) /\ PointeeOf(e.dst) \in Resolved \cup Given(Need(e.dst))
  BY ClassTermKnown
<1>3. CallOK(program, Join(PointeeOf(e.dst), Of(e.src)), Resolved \cup Given(Need(e.dst)))
  BY <1>1, <1>2, JoinOK
<1> QED BY <1>2, <1>3, TwoOK DEF AddrOfCalls

\* What the assign rule calls is in order.
LEMMA AssignOK ==
  ASSUME TypeInv, NEW e, e.dst \in Values, e.src \in Values
  PROVE  BatchOK(program, AssignCalls(e), Resolved)
<1> DEFINE storage == StorageTerm(e.dst, {0}, TRUE)
           known == Resolved \cup {storage}
           calls == <<Need(e.dst), Join(PointeeOf(e.dst), storage)>>
<1>1. CallOK(program, Need(e.dst), Resolved) /\ PointeeOf(e.dst) \in Resolved \cup Given(Need(e.dst))
  BY ClassTermKnown
<1>2. CallOK(program, Need(e.dst), known) BY <1>1 DEF CallOK
<1>3. CallOK(program, Join(PointeeOf(e.dst), storage), known \cup Given(Need(e.dst)))
  BY <1>1, JoinOK
<1> HIDE DEF storage
<1>4. BatchOK(program, calls, known) BY <1>2, <1>3, TwoOK
<1>5. BatchOK(program, Storage(e.dst, {0}, TRUE) \o calls, Resolved) BY <1>4, AccessOK DEF storage
<1>6. BatchOK(program, Transfer(e.src, e.dst), Resolved) BY TransferOK
<1> QED BY <1>5, <1>6 DEF AssignCalls, storage

\* What the load rule calls is in order.
LEMMA LoadOK ==
  ASSUME TypeInv, NEW e, e.dst \in Values, e.src \in Values
  PROVE  BatchOK(program, LoadCalls(e), Resolved)
<1> DEFINE storage == StorageTerm(e.src, e.width, TRUE)
           known == Resolved \cup {storage}
           calls == <<Unify(storage, Of(e.dst)), Content(storage, Of(e.dst))>>
<1>1. Of(e.dst) \in Resolved BY ClassTermKnown
<1> HIDE DEF storage
<1>2. CallOK(program, Unify(storage, Of(e.dst)), known)
      /\ CallOK(program, Content(storage, Of(e.dst)), known \cup Given(Unify(storage, Of(e.dst))))
  BY <1>1, JoinOK
<1>3. BatchOK(program, calls, known) BY <1>2, TwoOK
<1>4. BatchOK(program, Storage(e.src, e.width, TRUE) \o calls, Resolved) BY <1>3, AccessOK DEF storage
<1>5. CallOK(program, Give(Of(e.dst), ForgedUnion, {}), Resolved)
  BY <1>1, GiveOK DEF ForgedUnion, Escape, FactNames
<1>6. BatchOK(program, <<Give(Of(e.dst), ForgedUnion, {})>>, Resolved) BY <1>5, OneOK
<1> QED BY <1>4, <1>6, EmptyOK DEF LoadCalls, storage

\* What the store rule calls is in order.
LEMMA StoreOK ==
  ASSUME TypeInv, NEW e, e.dst \in Values, e.src \in Values
  PROVE  BatchOK(program, StoreCalls(e), Resolved)
<1> DEFINE storage == StorageTerm(e.dst, e.width, TRUE)
           known == Resolved \cup {storage}
           null == <<Give(storage, {"empty"}, {})>>
           calls == <<Unify(storage, Of(e.src)), Give(storage, {"written"}, {}),
                      Content(Of(e.src), storage)>>
<1>1. Of(e.src) \in Resolved BY ClassTermKnown
<1> HIDE DEF storage
<1>2. CallOK(program, Give(storage, {"empty"}, {}), known)
      /\ CallOK(program, Give(storage, {"written"}, {}), known \cup Given(Unify(storage, Of(e.src))))
  BY GiveOK DEF Escape, FactNames
<1>3. CallOK(program, Unify(storage, Of(e.src)), known)
      /\ CallOK(program, Content(Of(e.src), storage),
                known \cup Given(Unify(storage, Of(e.src))) \cup Given(Give(storage, {"written"}, {})))
  BY <1>1, JoinOK
<1>4. BatchOK(program, calls, known) /\ BatchOK(program, null, known)
  BY <1>2, <1>3, OneOK, ThreeOK
<1> HIDE DEF calls, null
<1>5. BatchOK(program, Storage(e.dst, e.width, TRUE) \o calls, Resolved)
      /\ BatchOK(program, Storage(e.dst, e.width, TRUE) \o null, Resolved)
  BY <1>4, AccessOK DEF storage
<1> QED BY <1>5, EmptyOK DEF StoreCalls, storage, calls, null

\* What the gep rule calls is in order.
LEMMA GepOK ==
  ASSUME TypeInv, NEW e, e.dst \in Values, e.src \in Values
  PROVE  BatchOK(program, GepCalls(e), Resolved)
<1> DEFINE cell == Region(TheExact(e.dst).location, {0})
           o == TheExact(e.dst).root
           shift == AddShift(e.src, e.dst, e.delta)
           flow == Content(Of(e.src), Of(e.dst))
           make == NeedCell(o, cell)
           merge == Join(PointeeOf(e.dst), CellOf(o, cell))
<1>1. Of(e.dst) \in Resolved /\ Of(e.src) \in Resolved BY ClassTermKnown
<1>2. /\ CallOK(program, Need(e.dst), Resolved) /\ PointeeOf(e.dst) \in Resolved \cup Given(Need(e.dst))
      /\ CallOK(program, Need(e.src), Resolved) /\ PointeeOf(e.src) \in Resolved \cup Given(Need(e.src))
  BY ClassTermKnown
<1>3. BatchOK(program, <<Give(Of(e.dst), ForgedUnion, {})>>, Resolved)
  <2>1. CallOK(program, Give(Of(e.dst), ForgedUnion, {}), Resolved)
    BY <1>1, GiveOK DEF ForgedUnion, Escape, FactNames
  <2> QED BY <2>1, OneOK
<1>4. BatchOK(program, <<Need(e.src), shift, flow>>, Resolved)
  <2>1. CallOK(program, shift, Resolved \cup Given(Need(e.src)))
    BY <1>2 DEF CallOK, Typed, Needed, AddShift, CallNames
  <2>2. CallOK(program, flow, Resolved \cup Given(Need(e.src)) \cup Given(shift))
    BY <1>1, JoinOK
  <2> HIDE DEF shift, flow
  <2> QED BY <1>2, <2>1, <2>2, ThreeOK
<1>5. BatchOK(program, <<Need(e.dst), make, merge>>, Resolved)
  <2>1. CallOK(program, make, Resolved \cup Given(Need(e.dst)))
    BY DEF CallOK, Typed, Needed, NeedCell, CallNames
  <2>2. CellOf(o, cell) \in Given(make) BY DEF Given, NeedCell
  <2>3. CallOK(program, merge, Resolved \cup Given(Need(e.dst)) \cup Given(make))
    BY <1>2, <2>2, JoinOK
  <2> HIDE DEF make, merge
  <2> QED BY <1>2, <2>1, <2>3, ThreeOK
<1> QED BY <1>3, <1>4, <1>5 DEF GepCalls

\* What the memcpy rule calls is in order.
LEMMA MemcpyOK ==
  ASSUME TypeInv, NEW e, e.dst \in Values, e.src \in Values
  PROVE  BatchOK(program, MemcpyCalls(e), Resolved)
<1> DEFINE to == StorageTerm(e.dst, e.width, FALSE)
           from == StorageTerm(e.src, e.width, FALSE)
           known == Resolved \cup {to}
           both == known \cup {from}
           null == <<Give(to, ForgedUnion, {})>>
           calls == <<Unify(to, from), Give(to, {"written"}, {}), Content(from, to)>>
           rest == Storage(e.src, e.width, FALSE) \o calls
<1> HIDE DEF to, from
<1>1. CallOK(program, Give(to, ForgedUnion, {}), known)
      /\ CallOK(program, Give(to, {"written"}, {}), both \cup Given(Unify(to, from)))
  BY GiveOK DEF ForgedUnion, Escape, FactNames
<1>2. CallOK(program, Unify(to, from), both)
      /\ CallOK(program, Content(from, to),
                both \cup Given(Unify(to, from)) \cup Given(Give(to, {"written"}, {})))
  BY JoinOK
<1>3. BatchOK(program, calls, both) /\ BatchOK(program, null, known)
  BY <1>1, <1>2, OneOK, ThreeOK
<1> HIDE DEF calls, null
<1>4. BatchOK(program, rest, known) BY <1>3, AccessOK DEF from
<1> HIDE DEF rest
<1>5. BatchOK(program, Storage(e.dst, e.width, FALSE) \o rest, Resolved)
      /\ BatchOK(program, Storage(e.dst, e.width, FALSE) \o null, Resolved)
  BY <1>3, <1>4, AccessOK DEF to
<1> QED BY <1>5, EmptyOK DEF MemcpyCalls, to, from, rest, calls, null

\* What any edge of the program calls is in order (apply_edge_rules).
LEMMA EdgeCallsOK ==
  ASSUME TypeInv, NEW e \in EdgeShapes
  PROVE  AgendaOK(program, EdgeCalls(e), Resolved)
<1>1. CASE e.kind = "addrof"
  BY <1>1, EdgeTypes, AddrOfOK, BatchIsAgenda DEF EdgeCalls
<1>2. CASE e.kind = "assign"
  BY <1>2, EdgeTypes, AssignOK, BatchIsAgenda DEF EdgeCalls
<1>3. CASE e.kind = "load"
  BY <1>3, EdgeTypes, LoadOK, BatchIsAgenda DEF EdgeCalls
<1>4. CASE e.kind = "store"
  BY <1>4, EdgeTypes, StoreOK, BatchIsAgenda DEF EdgeCalls
<1>5. CASE e.kind = "gep"
  BY <1>5, EdgeTypes, GepOK, BatchIsAgenda DEF EdgeCalls
<1>6. CASE e.kind = "memcpy"
  BY <1>6, EdgeTypes, MemcpyOK, BatchIsAgenda DEF EdgeCalls
<1> QED BY <1>1, <1>2, <1>3, <1>4, <1>5, <1>6, EdgeTypes DEF FlowKinds

\* What any seed of the program calls is in order (apply_seeds).
LEMMA SeedCallsOK ==
  ASSUME TypeInv, NEW seed \in SeedShapes
  PROVE  AgendaOK(program, SeedCalls(seed), Resolved)
<1> DEFINE label == {Label(seed.kind, seed.at)}
<1>1. /\ seed.kind \in OwnerSeeds \cup ValueSeeds \cup SiteSeeds
      /\ seed.kind \in OwnerSeeds => seed.at \in Owners
      /\ seed.kind \in ValueSeeds => seed.at \in Values
      /\ seed.kind \in SiteSeeds => seed.at \in Sites
  BY DEF SeedShapes, OwnerSeeds, ValueSeeds, SiteSeeds
<1>2. Escape \in SUBSET FactNames /\ External \in SUBSET FactNames /\ ForgedUnion \in SUBSET FactNames
      /\ External \cap Escape = {} /\ ForgedUnion \cap Escape = {}
  BY DEF Escape, External, ForgedUnion, FactNames
<1>3. ASSUME seed.kind \in OwnerSeeds
      PROVE  AgendaOK(program, <<Give(Of(seed.at), Escape, label)>>, Resolved)
             /\ AgendaOK(program, <<Give(Of(seed.at), Escape, label), EscapeFields(seed.at, label)>>,
                         Resolved)
  <2>1. seed.at \in Nodes /\ seed.kind \in LabelKinds BY <1>1, <1>3 DEF Nodes, OwnerSeeds, LabelKinds
  <2>2. label \in SUBSET Reasons /\ label # {} BY <2>1, LabelReason
  <2>3. Of(seed.at) \in Resolved BY <2>1, NodesLive, TermsResolved DEF TypeInv
  <2> HIDE DEF label
  <2>4. CallOK(program, Give(Of(seed.at), Escape, label), Resolved) BY <1>2, <2>2, <2>3, GiveOK
  <2>5. CallOK(program, EscapeFields(seed.at, label),
               Resolved \cup Given(Give(Of(seed.at), Escape, label)))
    BY <2>2 DEF CallOK, Typed, Needed, EscapeFields, CallNames
  <2> QED BY <2>4, <2>5, OneOK, TwoOK
<1>4. CASE seed.kind = "exported" BY <1>3, <1>4 DEF SeedCalls, OwnerSeeds
<1>5. CASE seed.kind = "imported" BY <1>3, <1>5 DEF SeedCalls, OwnerSeeds
<1>6. CASE seed.kind \in {"ptr_to_int", "unknown_operand_escape"}
  <2>1. seed.at \in Values /\ seed.at \in Nodes /\ seed.kind \in LabelKinds
    BY <1>1, <1>6 DEF ValueSeeds, Nodes, LabelKinds
  <2>2. label \in SUBSET Reasons /\ label # {} BY <2>1, LabelReason
  <2> HIDE DEF label
  <2>3. AgendaOK(program, Publish(seed.at, label), Resolved) BY <2>1, <2>2, PublishOK, BatchIsAgenda
  <2>4. AgendaOK(program, <<>>, Resolved) BY EmptyOK
  <2>5. SeedCalls(seed) = IF IsEmpty(seed.at) THEN <<>> ELSE Publish(seed.at, label)
    BY <1>6 DEF SeedCalls, label
  <2> QED BY <2>3, <2>4, <2>5
<1>7. CASE seed.kind \in {"int_to_ptr", "unknown_result"}
  <2>1. seed.at \in Values BY <1>1, <1>7 DEF ValueSeeds
  <2>2. Of(seed.at) \in Resolved BY <2>1, ClassTermKnown
  <2>3. CallOK(program, Give(Of(seed.at), ForgedUnion, {}), Resolved)
        /\ CallOK(program, Give(Of(seed.at), External, {}), Resolved)
    BY <1>2, <2>2, GiveOK
  <2> QED BY <1>7, <2>3, OneOK DEF SeedCalls
<1>8. CASE seed.kind = "external-call"
  <2>1. seed.at \in Sites BY <1>1, <1>8 DEF SiteSeeds
  <2>2. CallOK(program, ApplyExternal(seed.at), Resolved)
    BY <2>1 DEF CallOK, Typed, Needed, ApplyExternal, CallNames
  <2> QED BY <1>8, <2>2, OneOK DEF SeedCalls
<1>9. CASE seed.kind = "vararg-call"
  <2>1. seed.at \in Sites BY <1>1, <1>9 DEF SiteSeeds
  <2>2. program.fixed[seed.at] + 1 \in Nat \ {0} BY <2>1 DEF TypeInv, ProgramOK
  <2>3. CallOK(program, PublishTail(seed.at, program.fixed[seed.at] + 1), Resolved)
    BY <2>1, <2>2 DEF CallOK, Typed, Needed, PublishTail, CallNames
  <2> QED BY <1>9, <2>3, OneOK DEF SeedCalls
<1>10. CASE seed.kind = "vararg_list"
  <2>1. seed.at \in Values BY <1>1, <1>10 DEF ValueSeeds
  <2>2. CallOK(program, Need(seed.at), Resolved)
        /\ CallOK(program, Give(PointeeOf(seed.at), External, {}), Resolved \cup Given(Need(seed.at)))
    BY <1>2, <2>1, ClassTermKnown, GiveOK
  <2>3. AgendaOK(program, <<Need(seed.at), Give(PointeeOf(seed.at), External, {})>>, Resolved)
    BY <2>2, TwoOK
  <2> QED BY <1>10, <2>3 DEF SeedCalls
<1> QED BY <1>1, <1>4, <1>5, <1>6, <1>7, <1>8, <1>9, <1>10 DEF OwnerSeeds, ValueSeeds, SiteSeeds

\* Something is read, and its calls are begun.
LEMMA ReadTypes ==
  ASSUME TypeInv, UNCHANGED <<program, classVars>>, TodoOK', AgendaOK(program, agenda', Resolved)
  PROVE  TypeInv' /\ Resolved' = Resolved
<1>1. UNCHANGED <<graphVars, factVars, contentVars, callVars, shiftVars, fieldVars, onceVars, worklist>>
  BY DEF classVars, knownVars
<1>2. GraphOK' /\ Resolved' = Resolved BY <1>1, StillGraph DEF TypeInv, fieldVars
<1>3. FactsOK' /\ ContentOK' /\ EscapeOK' /\ OnceOK' /\ ProgramOK'
  <2>1. spare' = spare BY <1>1 DEF graphVars
  <2> QED BY <1>1, <2>1, StillFacts, StillContent, StillEscape, StillOnce, StillProgram
          DEF TypeInv, shiftVars, fieldVars
<1> QED BY <1>2, <1>3 DEF TypeInv

\* Reading an edge keeps the state well formed.
LEMMA ReadEdgeTypes ==
  ASSUME TypeInv, ReadEdge
  PROVE  TypeInv' /\ Resolved' = Resolved
<1>1. /\ todo.edges # <<>> /\ todo' = [todo EXCEPT !.edges = Tail(@)]
      /\ agenda' = EdgeCalls(Head(todo.edges)) /\ UNCHANGED <<program, classVars>>
  BY DEF ReadEdge
<1>2. TodoOK BY DEF TypeInv
<1>3. Head(todo.edges) \in EdgeShapes /\ Tail(todo.edges) \in Seq(EdgeShapes) BY <1>1, <1>2 DEF TodoOK
<1>4. TodoOK' BY <1>1, <1>2, <1>3 DEF TodoOK
<1>5. AgendaOK(program, agenda', Resolved) BY <1>1, <1>3, EdgeCallsOK
<1> QED BY <1>1, <1>4, <1>5, ReadTypes

\* Reading a call keeps the state well formed.
LEMMA RegisterCallTypes ==
  ASSUME TypeInv, RegisterCall
  PROVE  TypeInv' /\ Resolved' = Resolved
<1> DEFINE site == Head(todo.calls)
           operand == program.operand[site]
<1>1. /\ todo.calls # <<>> /\ todo' = [todo EXCEPT !.calls = Tail(@)]
      /\ agenda' = IF IsEmpty(operand) THEN <<>> ELSE <<Need(operand), Register(site)>>
      /\ UNCHANGED <<program, classVars>>
  BY DEF RegisterCall
<1>2. TodoOK BY DEF TypeInv
<1>3. site \in Sites /\ Tail(todo.calls) \in Seq(Sites) BY <1>1, <1>2 DEF TodoOK
<1>4. TodoOK' BY <1>1, <1>2, <1>3 DEF TodoOK
<1>5. operand \in Values BY <1>3 DEF TypeInv, ProgramOK
<1> HIDE DEF site
<1>6. CallOK(program, Need(operand), Resolved)
      /\ CallOK(program, Register(site), Resolved \cup Given(Need(operand)))
  BY <1>3, <1>5, ClassTermKnown DEF CallOK, Typed, Needed, Register, CallNames
<1>7. AgendaOK(program, agenda', Resolved) BY <1>1, <1>6, TwoOK, EmptyOK
<1> QED BY <1>1, <1>4, <1>7, ReadTypes

\* Reading a seed keeps the state well formed.
LEMMA ReadSeedTypes ==
  ASSUME TypeInv, ReadSeed
  PROVE  TypeInv' /\ Resolved' = Resolved
<1>1. /\ todo.seeds # <<>> /\ todo' = [todo EXCEPT !.seeds = Tail(@)]
      /\ agenda' = SeedCalls(Head(todo.seeds)) /\ UNCHANGED <<program, classVars>>
  BY DEF ReadSeed
<1>2. TodoOK BY DEF TypeInv
<1>3. Head(todo.seeds) \in SeedShapes /\ Tail(todo.seeds) \in Seq(SeedShapes) BY <1>1, <1>2 DEF TodoOK
<1>4. TodoOK' BY <1>1, <1>2, <1>3 DEF TodoOK
<1>5. AgendaOK(program, agenda', Resolved) BY <1>1, <1>3, SeedCallsOK
<1> QED BY <1>1, <1>4, <1>5, ReadTypes

\* seed_main_entry_params keeps the state well formed.
LEMMA ReadEntryTypes ==
  ASSUME TypeInv, ReadEntry
  PROVE  TypeInv' /\ Resolved' = Resolved
<1> DEFINE given == {rep[v] : v \in todo.entry} \X External
           none == {}
<1>1. /\ todo' = [todo EXCEPT !.entry = {}] /\ Grant(given, none) /\ agenda = <<>>
      /\ UNCHANGED <<program, agenda, graphVars, contentVars, callVars, shiftVars, fieldVars, onceVars>>
  BY DEF ReadEntry
<1>2. \A g \in given : g[1] \in Live
  <2>1. \A v \in todo.entry : v \in Values BY DEF TypeInv, TodoOK
  <2> QED BY <2>1, RepLive, NodesLive DEF TypeInv
<1>3. \A c \in Class : GainedFacts(given, c) \cap Escape # {} => FALSE
  BY DEF GainedFacts, External, Escape
<1> HIDE DEF given
<1>4. /\ FactsOK' /\ worklist' \subseteq Live
      /\ \A c \in Class : facts'[c] \cap Escape # {} => sources'[c] # {}
  BY <1>1, <1>2, <1>3, GrantOK DEF TypeInv, OnceOK, graphVars
<1>5. GraphOK' /\ Resolved' = Resolved /\ Live' = Live BY <1>1, StillGraph DEF TypeInv, fieldVars
<1>6. EscapeOK' BY <1>1, <1>4 DEF TypeInv, EscapeOK, fieldVars
<1>7. OnceOK' BY <1>1, <1>4, <1>5 DEF TypeInv, OnceOK, onceVars
<1>8. ContentOK' BY <1>1, StillContent DEF TypeInv, shiftVars
<1>9. ProgramOK' /\ TodoOK' BY <1>1, StillProgram DEF TypeInv, TodoOK
<1>10. AgendaOK(program', agenda', Resolved') BY <1>1, <1>5 DEF TypeInv
<1> QED BY <1>4, <1>5, <1>6, <1>7, <1>8, <1>9, <1>10 DEF TypeInv

\* A class taken from the queue is in use.
LEMMA PopClassTypes ==
  ASSUME TypeInv, PopClass
  PROVE  TypeInv' /\ Resolved' = Resolved
<1>1. PICK c \in worklist : /\ worklist' = worklist \ {c}
                            /\ agenda' = <<Replay(rep[c]), Process(rep[c])>>
  BY DEF PopClass
<1>2. UNCHANGED <<readVars, knownVars>> BY DEF PopClass
<1>3. rep[c] \in Live BY RepLive DEF TypeInv, OnceOK
<1>4. Of(rep[c]) \in Resolved BY <1>3, TermsResolved DEF TypeInv
<1>5. CallOK(program, Replay(rep[c]), Resolved)
      /\ CallOK(program, Process(rep[c]), Resolved \cup Given(Replay(rep[c])))
  BY <1>4 DEF CallOK, Typed, Needed, Replay, Process, CallNames
<1>6. AgendaOK(program, agenda', Resolved) BY <1>1, <1>5, TwoOK
<1>7. GraphOK' /\ Resolved' = Resolved /\ Live' = Live
  BY <1>2, StillGraph DEF TypeInv, knownVars, fieldVars
<1>8. OnceOK' BY <1>1, <1>2, <1>7 DEF TypeInv, OnceOK, knownVars, onceVars
<1>9. FactsOK' /\ ContentOK' /\ EscapeOK' /\ ProgramOK' /\ TodoOK'
  BY <1>2, StillFacts, StillContent, StillEscape, StillProgram, StillTodo
     DEF TypeInv, knownVars, shiftVars, fieldVars, readVars
<1> QED BY <1>2, <1>6, <1>7, <1>8, <1>9 DEF TypeInv, readVars

\* Whichever list is taken next, the others keep what they need.
LEMMA NextInAnyOrderTypes ==
  ASSUME TypeInv, NextInAnyOrder
  PROVE  TypeInv' /\ Resolved' = Resolved
<1>1. PICK batch \in Head(agenda).batches :
        Then(batch \o AnyOrder(Head(agenda).batches \ {batch}))
  BY DEF NextInAnyOrder
<1>2. agenda # <<>> /\ Head(agenda).call = "in_any_order" /\ UNCHANGED <<readVars, classVars>>
  BY DEF NextInAnyOrder, Calling
<1>3. \A b \in Head(agenda).batches : BatchOK(program, b, Resolved)
  BY <1>2, HeadOK DEF TypeInv, CallOK, Typed, CallNames
<1>4. AgendaOK(program, batch, Resolved) BY <1>3, BatchIsAgenda
<1>5. AgendaOK(program, AnyOrder(Head(agenda).batches \ {batch}), Resolved) BY <1>3, AnyOrderOK
<1>6. AgendaOK(program, batch \o AnyOrder(Head(agenda).batches \ {batch}), Resolved)
  BY <1>4, <1>5, AppendOK
<1> QED BY <1>1, <1>2, <1>6, OnlyCalls DEF Given

(***************************************************************************)
(* A class is worked off.                                                  *)
(***************************************************************************)
\* Content flows between classes in use.
EdgesOK == content = [c \in Class |-> content[c]] /\ \A c \in Class : content[c] \subseteq Live

ProcessGiven(c) ==
  (FieldsOf(OwnersToEscape(c)) \X Escape) \cup (Targets(c) \X PushedDown(c))
    \cup (Successors(c) \X Carried(c)) \cup (ParametersOf(NowPublished(c)) \X External)
ProcessLabels(c) ==
  (FieldsOf(OwnersToEscape(c)) \X {FieldLabel(sources[c])})
    \cup UNION {{t} \X PointeeLabels(c, t) : t \in Targets(c)}

\* What escapes or is reached from outside has a reason.
LEMMA EscapedReason ==
  ASSUME TypeInv, NEW c \in Class
  PROVE  /\ sources[c] \subseteq Reasons
         /\ facts[c] \cap {"esc", "alloc"} # {} => sources[c] # {}
         /\ OwnersToEscape(c) # {} => sources[c] # {}
BY DEF TypeInv, FactsOK, EscapeOK, Escape, OwnersToEscape

\* Parameters and returned values of functions of the program.
LEMMA ParametersLive ==
  ASSUME TypeInv, NEW functions \in SUBSET Functions
  PROVE  ParametersOf(functions) \subseteq Live /\ ReturnedBy(functions) \subseteq Values
<1>1. ASSUME NEW f \in functions, NEW i \in DOMAIN Params(f), NEW v \in Params(f)[i]
      PROVE  rep[v] \in Live
  <2>1. Params(f) \in Seq(SUBSET Values) BY DEF TypeInv, ProgramOK, Params
  <2>2. v \in Values BY <2>1
  <2> QED BY <2>2, NodesLive, RepLive DEF TypeInv
<1>2. ParametersOf(functions) \subseteq Live BY <1>1 DEF ParametersOf
<1>3. ReturnedBy(functions) \subseteq Values BY DEF ReturnedBy, TypeInv, ProgramOK
<1> QED BY <1>2, <1>3

\* Whatever it gives, it gives to classes in use, and no escape without a reason.
LEMMA ProcessGivenOK ==
  ASSUME TypeInv, EdgesOK, NEW c \in Live
  PROVE  /\ \A g \in ProcessGiven(c) : g[1] \in Live
         /\ \A l \in ProcessLabels(c) : l[1] \in Live /\ l[2] \in Reasons
         /\ \A d \in Class : GainedFacts(ProcessGiven(c), d) \cap Escape # {} =>
                               GainedLabels(ProcessLabels(c), d) \cup sources[d] # {}
<1> DEFINE fields == FieldsOf(OwnersToEscape(c))
           params == ParametersOf(NowPublished(c))
<1>1. fields \subseteq Live BY FieldsLive DEF TypeInv
<1>2. c \in Class /\ GraphOK /\ FactsOK BY DEF TypeInv, Live
<1>3. Targets(c) \subseteq Live BY <1>2, RepLive DEF Targets, GraphOK
<1>4. Successors(c) \subseteq Live
  <2>1. \A d \in content[c] : rep[d] \in Live BY <1>2, RepLive DEF EdgesOK
  <2> QED BY <2>1 DEF Successors
<1>5. params \subseteq Live
  <2>1. NowPublished(c) \in SUBSET Functions BY <1>2 DEF NowPublished, TypeInv, ContentOK
  <2> QED BY <2>1, ParametersLive
<1>6. Carried(c) \cap Escape = {} /\ External \cap Escape = {}
  BY DEF Carried, ForgedUnion, External, Escape
<1>7. FieldLabel(sources[c]) \in Reasons BY <1>2, EscapedReason, FieldReason
<1>8. ASSUME NEW t \in Targets(c)
      PROVE  /\ PointeeLabels(c, t) \subseteq Reasons
             /\ PushedDown(c) \cap Escape # {} => PointeeLabels(c, t) \cup sources[t] # {}
  <2>1. t \in Class BY <1>3 DEF Live
  <2>2. DerivedPointee \in Reasons BY DEF DerivedPointee, Label, Reasons, LabelKinds
  <2>3. PointeeLabels(c, t) \subseteq Reasons BY <1>2, <2>2, EscapedReason DEF PointeeLabels
  <2>4. ASSUME sources[c] = {}, PointeeLabels(c, t) = {} PROVE sources[t] # {}
    <3>1. "esc" \in facts[t] BY <2>4 DEF PointeeLabels
    <3> QED BY <2>1, <3>1, EscapedReason
  <2>5. sources[c] # {} => PointeeLabels(c, t) # {} BY DEF PointeeLabels
  <2> QED BY <2>3, <2>4, <2>5
<1>9. \A g \in ProcessGiven(c) : g[1] \in Live
  BY <1>1, <1>3, <1>4, <1>5 DEF ProcessGiven
<1>10. \A l \in ProcessLabels(c) : l[1] \in Live /\ l[2] \in Reasons
  <2>1. \A l \in fields \X {FieldLabel(sources[c])} : l[1] \in Live /\ l[2] \in Reasons BY <1>1, <1>7
  <2>2. ASSUME NEW t \in Targets(c), NEW l \in {t} \X PointeeLabels(c, t)
        PROVE  l[1] \in Live /\ l[2] \in Reasons
    BY <1>3, <1>8
  <2>3. \A l \in ProcessLabels(c) : \/ l \in fields \X {FieldLabel(sources[c])}
                                   \/ \E t \in Targets(c) : l \in {t} \X PointeeLabels(c, t)
    BY DEF ProcessLabels
  <2> HIDE DEF fields
  <2> QED BY <2>1, <2>2, <2>3
<1>11. ASSUME NEW d \in Class, NEW f \in GainedFacts(ProcessGiven(c), d), f \in Escape
       PROVE  GainedLabels(ProcessLabels(c), d) \cup sources[d] # {}
  <2>1. <<d, f>> \in ProcessGiven(c) BY DEF GainedFacts
  <2>2. \/ d \in fields
        \/ d \in Targets(c) /\ f \in PushedDown(c)
    BY <1>6, <1>11, <2>1 DEF ProcessGiven
  <2>3. CASE d \in fields
    <3>1. <<d, FieldLabel(sources[c])>> \in ProcessLabels(c) BY <2>3 DEF ProcessLabels
    <3> QED BY <3>1 DEF GainedLabels
  <2>4. CASE d \in Targets(c) /\ f \in PushedDown(c)
    <3>1. PointeeLabels(c, d) \cup sources[d] # {} BY <1>8, <1>11, <2>4
    <3>2. \A l \in PointeeLabels(c, d) : <<d, l>> \in ProcessLabels(c) BY <2>4 DEF ProcessLabels
    <3>3. ASSUME NEW l \in PointeeLabels(c, d) PROVE l \in GainedLabels(ProcessLabels(c), d)
      <4> DEFINE pair == <<d, l>>
      <4>1. pair \in ProcessLabels(c) /\ pair[1] = d /\ pair[2] = l BY <3>2
      <4> HIDE DEF pair
      <4> QED BY <4>1 DEF GainedLabels
    <3> QED BY <3>1, <3>3
  <2> QED BY <2>2, <2>3, <2>4
<1> QED BY <1>9, <1>10, <1>11

\* What it does, and what is called afterwards.
LEMMA ProcessTables ==
  ASSUME TypeInv, EdgesOK, ProcessClass
  PROVE  LET c == rep[Head(agenda).of]
             calls == AnyOrder({Publish(v, sources[c]) : v \in ReturnedBy(NowPublished(c))})
                        \o AnyOrder({<<ApplyExternal(s)>> : s \in NowOpened(c)})
                        \o AnyOrder({<<Bind(b[1], b[2])>> :
                                     b \in (NewPairs(c) \ pairs) \cap program.compatible})
         IN /\ c \in Live /\ c \in Class /\ rep[c] = c
            /\ agenda # <<>> /\ Head(agenda).call = "process_class"
            /\ Grant(ProcessGiven(c), ProcessLabels(c))
            /\ escaped' = EscapedWith(OwnersToEscape(c), sources[c])
            /\ spread' = IF "alloc" \in facts[c] THEN [spread EXCEPT ![c] = regions[c]] ELSE spread
            /\ published' = published \cup NowPublished(c)
            /\ opened' = [opened EXCEPT ![c] = @ \cup NowOpened(c)]
            /\ swept' = [swept EXCEPT ![c] = NowSwept(c)]
            /\ pairs' = pairs \cup NewPairs(c)
            /\ Then(calls) /\ AgendaOK(program, calls, Resolved)
            /\ NowPublished(c) \subseteq Functions /\ NowOpened(c) \subseteq Sites
            /\ NewPairs(c) \subseteq Sites \X Functions
            /\ UNCHANGED <<readVars, graphVars, content, sites, fns, regions, shifts, replayed,
                           cells, lanes, externals>>
<1> DEFINE c == rep[Head(agenda).of]
           bindings == (NewPairs(c) \ pairs) \cap program.compatible
           publish == {Publish(v, sources[c]) : v \in ReturnedBy(NowPublished(c))}
           open == {<<ApplyExternal(s)>> : s \in NowOpened(c)}
           bind == {<<Bind(b[1], b[2])>> : b \in bindings}
           calls == AnyOrder(publish) \o AnyOrder(open) \o AnyOrder(bind)
<1>1. CallOK(program, Head(agenda), Resolved) /\ agenda # <<>>
      /\ Head(agenda).call = "process_class"
  BY CalledOK DEF ProcessClass, CallNames
<1>2. c \in Live /\ c \in Class /\ rep[c] = c
  BY <1>1, TermsResolved, RepLive DEF TypeInv, CallOK, Needed, Live
<1>3. /\ spread' = IF "alloc" \in facts[c] THEN [spread EXCEPT ![c] = regions[c]] ELSE spread
      /\ escaped' = EscapedWith(OwnersToEscape(c), sources[c])
      /\ published' = published \cup NowPublished(c)
      /\ opened' = [opened EXCEPT ![c] = @ \cup NowOpened(c)]
      /\ swept' = [swept EXCEPT ![c] = NowSwept(c)]
      /\ pairs' = pairs \cup NewPairs(c)
      /\ Then(calls)
      /\ UNCHANGED <<readVars, graphVars, content, sites, fns, regions, shifts, replayed,
                     cells, lanes, externals>>
  BY DEF ProcessClass
<1>4. Grant(ProcessGiven(c), ProcessLabels(c)) BY DEF ProcessClass, ProcessGiven, ProcessLabels
<1> HIDE DEF c
<1>5. NowPublished(c) \subseteq Functions /\ NowOpened(c) \subseteq Sites
      /\ NewPairs(c) \subseteq Sites \X Functions
  <2>1. fns[c] \subseteq Functions /\ sites[c] \subseteq Sites BY <1>2 DEF TypeInv, ContentOK
  <2> QED BY <2>1 DEF NowPublished, NowOpened, NewPairs
<1>6. \A b \in publish : BatchOK(program, b, Resolved)
  <2> SUFFICES ASSUME NEW v \in ReturnedBy(NowPublished(c))
               PROVE  BatchOK(program, Publish(v, sources[c]), Resolved)
    OBVIOUS
  <2>1. v \in Values BY <1>5, ParametersLive
  <2>2. "esc" \in facts[c] BY DEF ReturnedBy, NowPublished
  <2>3. sources[c] # {} /\ sources[c] \in SUBSET Reasons BY <1>2, <2>2, EscapedReason
  <2> QED BY <2>1, <2>3, PublishOK
<1>7. \A b \in open : BatchOK(program, b, Resolved)
  <2> SUFFICES ASSUME NEW s \in NowOpened(c) PROVE BatchOK(program, <<ApplyExternal(s)>>, Resolved)
    OBVIOUS
  <2>1. CallOK(program, ApplyExternal(s), Resolved)
    BY <1>5 DEF CallOK, Typed, Needed, ApplyExternal, CallNames
  <2> QED BY <2>1, OneOK
<1>8. \A b \in bind : BatchOK(program, b, Resolved)
  <2> SUFFICES ASSUME NEW b \in bindings PROVE BatchOK(program, <<Bind(b[1], b[2])>>, Resolved)
    OBVIOUS
  <2>1. b[1] \in Sites /\ b[2] \in Functions BY <1>5
  <2>2. CallOK(program, Bind(b[1], b[2]), Resolved)
    BY <2>1 DEF CallOK, Typed, Needed, Bind, CallNames
  <2> QED BY <2>2, OneOK
<1> HIDE DEF publish, open, bind
<1>9. AgendaOK(program, AnyOrder(publish), Resolved) /\ AgendaOK(program, AnyOrder(open), Resolved)
      /\ AgendaOK(program, AnyOrder(bind), Resolved)
  BY <1>6, <1>7, <1>8, AnyOrderOK
<1>10. AgendaOK(program, AnyOrder(publish) \o AnyOrder(open), Resolved) BY <1>9, AppendOK
<1>11. AgendaOK(program, calls, Resolved) BY <1>9, <1>10, AppendOK
<1> QED BY <1>1, <1>2, <1>3, <1>4, <1>5, <1>11 DEF c, publish, open, bind

\* process_class keeps the state well formed.
LEMMA ProcessClassTypes ==
  ASSUME TypeInv, EdgesOK, ProcessClass
  PROVE  TypeInv' /\ Resolved' = Resolved
<1> DEFINE c == rep[Head(agenda).of]
<1>1. PICK calls :
        /\ c \in Live /\ c \in Class /\ agenda # <<>> /\ Head(agenda).call = "process_class"
        /\ Grant(ProcessGiven(c), ProcessLabels(c))
        /\ escaped' = EscapedWith(OwnersToEscape(c), sources[c])
        /\ spread' = IF "alloc" \in facts[c] THEN [spread EXCEPT ![c] = regions[c]] ELSE spread
        /\ published' = published \cup NowPublished(c)
        /\ opened' = [opened EXCEPT ![c] = @ \cup NowOpened(c)]
        /\ swept' = [swept EXCEPT ![c] = NowSwept(c)]
        /\ pairs' = pairs \cup NewPairs(c)
        /\ Then(calls) /\ AgendaOK(program, calls, Resolved)
        /\ NowPublished(c) \subseteq Functions /\ NowOpened(c) \subseteq Sites
        /\ NewPairs(c) \subseteq Sites \X Functions
        /\ UNCHANGED <<readVars, graphVars, content, sites, fns, regions, shifts, replayed,
                       cells, lanes, externals>>
  BY ProcessTables
<1> HIDE DEF c
<1>2. /\ FactsOK' /\ worklist' \subseteq Live
      /\ \A d \in Class : facts'[d] \cap Escape # {} => sources'[d] # {}
  BY <1>1, ProcessGivenOK, GrantOK DEF TypeInv, OnceOK, graphVars
<1>3. GraphOK' /\ Resolved' = Resolved /\ Live' = Live BY <1>1, StillGraph DEF TypeInv
<1>4. EscapeOK'
  <2>1. sources[c] \in SUBSET Reasons /\ (sources[c] # {} \/ OwnersToEscape(c) = {})
    BY <1>1, EscapedReason
  <2> QED BY <1>1, <1>2, <2>1, EscapedWithOK DEF TypeInv, EscapeOK
<1>5. OnceOK' BY <1>1, <1>2, <1>3 DEF TypeInv, OnceOK
<1>6. ContentOK'
  <2>1. opened' \in [Class -> SUBSET Sites] BY <1>1 DEF TypeInv, ContentOK
  <2>2. NowSwept(c) \in [sites : SUBSET Sites, fns : SUBSET Functions]
    BY <1>1 DEF NowSwept, TypeInv, ContentOK
  <2>3. swept' \in [Class -> [sites : SUBSET Sites, fns : SUBSET Functions]]
    BY <1>1, <2>2 DEF TypeInv, ContentOK
  <2>4. spread' = [d \in Class |-> spread'[d]] BY <1>1 DEF TypeInv, ContentOK
  <2>5. \A d \in Class : Transfers(d)' = Transfers(d) BY <1>1 DEF Transfers
  <2> QED BY <1>1, <2>1, <2>3, <2>4, <2>5 DEF TypeInv, ContentOK, graphVars
<1>7. ProgramOK' /\ TodoOK' BY <1>1, StillProgram, StillTodo DEF TypeInv, readVars
<1>8. AgendaOK(program', agenda', Resolved')
  BY <1>1, <1>3, NextOK DEF TypeInv, Then, readVars, Given
<1> QED BY <1>2, <1>3, <1>4, <1>5, <1>6, <1>7, <1>8 DEF TypeInv

\* Contents flow to classes in use.
LEMMA AddContentEdgeFlows ==
  ASSUME TypeInv, EdgesOK, AddContentEdge
  PROVE  EdgesOK'
<1>1. CallOK(program, Head(agenda), Resolved) /\ agenda # <<>>
      /\ Head(agenda).call = "add_content_edge"
  BY CalledOK DEF AddContentEdge, CallNames
<1>2. Find(Head(agenda).dst) \in Live BY <1>1, FindLive DEF TypeInv, CallOK, Needed
<1>3. content' = [content EXCEPT ![Find(Head(agenda).src)] = @ \cup {Find(Head(agenda).dst)}]
  BY DEF AddContentEdge
<1>4. spare' = spare BY DEF AddContentEdge, graphVars
<1> QED BY <1>2, <1>3, <1>4 DEF EdgesOK, Live

\* Contents flow to classes in use after a join.
LEMMA JoinClassesFlows ==
  ASSUME TypeInv, EdgesOK, JoinClasses
  PROVE  EdgesOK' /\ spare' = spare
<1>1. PICK from \in Live, to \in Live : Merge(from, to) BY JoinMerges
<1>2. content' = Moved(content, from, to) /\ spare' = spare BY <1>1 DEF Merge
<1>3. from \in Class /\ to \in Class BY DEF Live
<1> QED BY <1>2, <1>3 DEF EdgesOK, Moved, Live

\* Content edges that stay lead to classes in use.
LEMMA OtherFlows ==
  ASSUME EdgesOK, content' = content, spare' \subseteq spare
  PROVE  EdgesOK'
BY DEF EdgesOK, Live

(***************************************************************************)
(* Every step preserves the types.                                         *)
(***************************************************************************)
StepTypes ==
  TypeInv' /\ EdgesOK' /\ Resolved \subseteq Resolved' /\ spare' \subseteq spare

\* Every step keeps the state well formed and uses names at most once.
LEMMA NextTypes ==
  ASSUME TypeInv, EdgesOK, Next
  PROVE  StepTypes
<1>1. CASE ReadEdge \/ RegisterCall \/ ReadSeed
  <2>1. TypeInv' /\ Resolved' = Resolved
    BY <1>1, ReadEdgeTypes, RegisterCallTypes, ReadSeedTypes
  <2>2. content' = content /\ spare' = spare
    BY <1>1 DEF ReadEdge, RegisterCall, ReadSeed, classVars, knownVars, contentVars, graphVars
  <2> QED BY <2>1, <2>2, OtherFlows DEF StepTypes
<1>2. CASE ReadEntry
  <2>1. TypeInv' /\ Resolved' = Resolved BY <1>2, ReadEntryTypes
  <2>2. content' = content /\ spare' = spare BY <1>2 DEF ReadEntry, contentVars, graphVars
  <2> QED BY <2>1, <2>2, OtherFlows DEF StepTypes
<1>3. CASE PopClass
  <2>1. TypeInv' /\ Resolved' = Resolved BY <1>3, PopClassTypes
  <2>2. content' = content /\ spare' = spare BY <1>3 DEF PopClass, knownVars, contentVars, graphVars
  <2> QED BY <2>1, <2>2, OtherFlows DEF StepTypes
<1>4. CASE SetFacts \/ EscapeAllocationFields
  <2>1. TypeInv' BY <1>4, SetFactsTypes, EscapeAllocationFieldsTypes
  <2>2. /\ content' = content /\ spare' = spare /\ rep' = rep /\ pointee' = pointee /\ cells' = cells
    BY <1>4 DEF SetFacts, EscapeAllocationFields, contentVars, graphVars, fieldVars
  <2>3. Resolved' = Resolved BY <2>2 DEF Resolved, Live
  <2> QED BY <2>1, <2>2, <2>3, OtherFlows DEF StepTypes
<1>5. CASE PointeeKnown \/ JoinedAlready \/ FieldKnown \/ NothingToReplay
  <2>1. TypeInv' BY <1>5, IdleReturnTypes
  <2>2. /\ content' = content /\ spare' = spare /\ rep' = rep /\ pointee' = pointee /\ cells' = cells
    BY <1>5 DEF PointeeKnown, JoinedAlready, FieldKnown, NothingToReplay, classVars, knownVars,
                contentVars, graphVars, fieldVars
  <2>3. Resolved' = Resolved BY <2>2 DEF Resolved, Live
  <2> QED BY <2>1, <2>2, <2>3, OtherFlows DEF StepTypes
<1>6. CASE PointeeMade \/ UnifyPointees \/ FieldMade
  <2>1. TypeInv' /\ Resolved \subseteq Resolved'
    BY <1>6, PointeeMadeTypes, UnifyPointeesTypes, FieldMadeTypes
  <2>2. content' = content /\ spare' \subseteq spare
    BY <1>6 DEF PointeeMade, UnifyPointees, FieldMade, contentVars
  <2> QED BY <2>1, <2>2, OtherFlows DEF StepTypes
<1>7. CASE AddContentEdge
  <2>1. TypeInv' BY <1>7, AddContentEdgeTypes
  <2>2. spare' = spare /\ rep' = rep /\ pointee' = pointee /\ cells' = cells
    BY <1>7 DEF AddContentEdge, graphVars, fieldVars
  <2>3. Resolved' = Resolved BY <2>2 DEF Resolved, Live
  <2> QED BY <1>7, <2>1, <2>2, <2>3, AddContentEdgeFlows DEF StepTypes
<1>8. CASE AddGepTransfer \/ RegisterSite
  <2>1. TypeInv' BY <1>8, AddGepTransferTypes, RegisterSiteTypes
  <2>2. /\ content' = content /\ spare' = spare /\ rep' = rep /\ pointee' = pointee /\ cells' = cells
    BY <1>8 DEF AddGepTransfer, RegisterSite, contentVars, graphVars, fieldVars
  <2>3. Resolved' = Resolved BY <2>2 DEF Resolved, Live
  <2> QED BY <2>1, <2>2, <2>3, OtherFlows DEF StepTypes
<1>9. CASE JoinClasses
  BY <1>9, JoinClassesTypes, JoinClassesFlows DEF StepTypes
<1>10. CASE ReplayTransfers \/ WidenSummary \/ ShiftTransfer \/ ShiftedFieldClass
  <2>1. TypeInv' /\ Resolved' = Resolved
    BY <1>10, ReplayTransfersTypes, WidenSummaryTypes, ShiftTransferTypes, ShiftedFieldClassTypes
  <2>2. content' = content /\ spare' = spare
    BY <1>10 DEF ReplayTransfers, WidenSummary, ShiftTransfer, ShiftedFieldClass, classVars, knownVars,
                 contentVars, graphVars
  <2> QED BY <2>1, <2>2, OtherFlows DEF StepTypes
<1>11. CASE BindIndirectCall \/ BindArguments \/ ApplyExternalCall
  <2>1. TypeInv' /\ Resolved' = Resolved
    BY <1>11, BindIndirectCallTypes, BindArgumentsTypes, ApplyExternalCallTypes
  <2>2. content' = content /\ spare' = spare
    BY <1>11 DEF BindIndirectCall, BindArguments, ApplyExternalCall, classVars, knownVars,
                 contentVars, graphVars
  <2> QED BY <2>1, <2>2, OtherFlows DEF StepTypes
<1>12. CASE PublishArguments \/ ApplyVarargCall \/ NextInAnyOrder
  <2>1. TypeInv' /\ Resolved' = Resolved
    BY <1>12, PublishArgumentsTypes, ApplyVarargCallTypes, NextInAnyOrderTypes
  <2>2. content' = content /\ spare' = spare
    BY <1>12 DEF PublishArguments, ApplyVarargCall, NextInAnyOrder, classVars, knownVars,
                 contentVars, graphVars
  <2> QED BY <2>1, <2>2, OtherFlows DEF StepTypes
<1>13. CASE ProcessClass
  <2>1. TypeInv' /\ Resolved' = Resolved BY <1>13, ProcessClassTypes
  <2>2. content' = content /\ spare' = spare BY <1>13 DEF ProcessClass, graphVars
  <2> QED BY <2>1, <2>2, OtherFlows DEF StepTypes
<1> QED BY <1>1, <1>2, <1>3, <1>4, <1>5, <1>6, <1>7, <1>8, <1>9, <1>10, <1>11, <1>12, <1>13
        DEF Next, Step

\* So does a step that changes nothing.
LEMMA StutterTypes ==
  ASSUME TypeInv, EdgesOK, UNCHANGED vars
  PROVE  TypeInv' /\ EdgesOK'
<1>1. UNCHANGED <<readVars, agenda, worklist, graphVars, factVars, contentVars, callVars, shiftVars,
                  fieldVars, onceVars>>
  BY DEF vars, classVars, knownVars
<1>2. GraphOK' /\ Resolved' = Resolved BY <1>1, StillGraph DEF TypeInv, fieldVars
<1>3. FactsOK' /\ ContentOK' /\ EscapeOK' /\ OnceOK' /\ ProgramOK' /\ TodoOK'
  <2>1. spare' = spare BY <1>1 DEF graphVars
  <2> QED BY <1>1, <2>1, StillFacts, StillContent, StillEscape, StillOnce, StillProgram, StillTodo
          DEF TypeInv, shiftVars, fieldVars, readVars
<1>4. EdgesOK' BY <1>1, OtherFlows DEF contentVars, graphVars
<1> QED BY <1>1, <1>2, <1>3, <1>4 DEF TypeInv, readVars

(***************************************************************************)
(* The solver's data are well-formed: every term the running handler has   *)
(* still to evaluate exists when its turn comes, so no call unifies a      *)
(* class with a pointee or a region nobody made; names not in use are      *)
(* empty; and no class escapes without a reason (pointee_of, field_class,  *)
(* set_esc_sources).                                                       *)
(***************************************************************************)
THEOREM TypeCorrect == Spec => [](TypeInv /\ EdgesOK)
<1>1. Init => TypeInv /\ EdgesOK
  <2>1. Init => EdgesOK BY DEF Init, EdgesOK
  <2> QED BY <2>1, InitTypes
<1>2. TypeInv /\ EdgesOK /\ [Next]_vars => TypeInv' /\ EdgesOK'
  BY NextTypes, StutterTypes DEF StepTypes
<1> QED BY <1>1, <1>2, PTL DEF Spec

(***************************************************************************)
(* What a step does to what is still to be made.                           *)
(***************************************************************************)
Makes(calls) == Proper(calls) /\ agenda' = calls \o Tail(agenda)

\* A call that returns is replaced by nothing.
LEMMA ReturnMakes ==
  ASSUME Proper(agenda), agenda # <<>>, Return
  PROVE  \E calls : Makes(calls)
<1>1. PICK S : agenda \in Seq(S) BY DEF Proper
<1>2. Tail(agenda) \in Seq(S) BY <1>1
<1>3. <<>> \o Tail(agenda) = Tail(agenda) BY <1>2
<1>4. <<>> \in Seq({})
  OBVIOUS
<1> QED BY <1>3, <1>4 DEF Makes, Return, Proper

\* Lists of one and two calls.
LEMMA FewProper ==
  ASSUME NEW c, NEW d
  PROVE  Proper(<<>>) /\ Proper(<<c>>) /\ Proper(<<c, d>>)
<1>1. <<>> \in Seq({}) /\ <<c>> \in Seq({c}) /\ <<c, d>> \in Seq({c, d})
  OBVIOUS
<1> QED BY <1>1 DEF Proper

\* Calls made in any order are a list of calls.
LEMMA BatchesProper ==
  ASSUME NEW batches
  PROVE  Proper(AnyOrder(batches))
BY FewProper DEF AnyOrder

\* So is what publishing calls.
LEMMA PublishProper ==
  ASSUME NEW v, NEW labels
  PROVE  Proper(Publish(v, labels)) /\ Proper(EscapeExact(v, labels))
<1>1. Proper(EscapeExact(v, labels)) BY FewProper DEF EscapeExact
<1>2. Proper(<<Need(v), Give(PointeeOf(v), Escape, labels)>>) BY FewProper
<1> QED BY <1>1, <1>2, Concatenation DEF Publish

\* So is what a transfer calls.
LEMMA TransferProper ==
  ASSUME NEW srcs, NEW dsts
  PROVE  Proper(TransferAny(srcs, dsts))
BY FewProper DEF TransferAny, Transfer

\* A call is replaced by the calls it makes.
LEMMA StepMakes ==
  ASSUME TypeInv, EdgesOK, Step, ~NextInAnyOrder
  PROVE  /\ agenda # <<>> /\ Proper(agenda) /\ Head(agenda).call # "in_any_order"
         /\ \E calls : Makes(calls)
<1>1. agenda # <<>> /\ Head(agenda).call # "in_any_order"
  BY DEF Step, SetFacts, PointeeKnown, PointeeMade, UnifyPointees, AddContentEdge, AddGepTransfer,
         JoinClasses, JoinedAlready, FieldKnown, FieldMade, ReplayTransfers, NothingToReplay,
         WidenSummary, ShiftTransfer, ShiftedFieldClass, EscapeAllocationFields, BindIndirectCall,
         BindArguments, ApplyExternalCall, PublishArguments, ApplyVarargCall, RegisterSite,
         ProcessClass, Calling
<1>2. Proper(agenda) BY DEF TypeInv, AgendaOK
<1> SUFFICES \E calls : Makes(calls) BY <1>1, <1>2
<1>3. ASSUME NEW calls, Then(calls), Proper(calls) PROVE \E s : Makes(s)
  BY <1>3 DEF Then, Makes
<1>4. CASE Return BY <1>1, <1>2, <1>4, ReturnMakes
<1>5. CASE SetFacts \/ PointeeKnown \/ PointeeMade \/ AddContentEdge \/ AddGepTransfer
           \/ JoinedAlready \/ FieldKnown \/ NothingToReplay \/ EscapeAllocationFields \/ RegisterSite
  BY <1>4, <1>5 DEF SetFacts, PointeeKnown, PointeeMade, AddContentEdge, AddGepTransfer, JoinedAlready,
                    FieldKnown, NothingToReplay, EscapeAllocationFields, RegisterSite
<1>6. CASE UnifyPointees
  <2>1. \/ Return
        \/ \E c : Then(<<c>>)
        \/ \E c, d : Then(<<c, d>>)
    BY <1>6 DEF UnifyPointees
  <2> QED BY <1>3, <1>4, <2>1, FewProper
<1>7. CASE JoinClasses
  <2>1. \/ Return
        \/ \E c : Then(<<c>>)
    BY <1>7 DEF JoinClasses, Merge, JoinPointees
  <2> QED BY <1>3, <1>4, <2>1, FewProper
<1>8. CASE FieldMade \/ WidenSummary
  <2>1. \E batches : Then(AnyOrder(batches)) BY <1>8 DEF FieldMade, WidenSummary
  <2> QED BY <1>3, <2>1, BatchesProper
<1>9. CASE ReplayTransfers
  <2>1. \E c : Then(ReplayCalls(c)) BY <1>9 DEF ReplayTransfers
  <2>2. \A c : Proper(ReplayCalls(c))
    <3>1. \A c : Proper(StayIn(c)) BY BatchesProper DEF StayIn
    <3>2. \A c : Proper(<<Widen(c, regions[c])>>) /\ Proper(<<>>) BY FewProper
    <3>3. \A c : Proper(StayIn(c) \o <<Widen(c, regions[c])>>) /\ Proper(StayIn(c) \o <<>>)
      BY <3>1, <3>2, Concatenation
    <3> QED BY <3>1, <3>3, BatchesProper DEF ReplayCalls
  <2> QED BY <1>3, <2>1, <2>2
<1>10. CASE ShiftTransfer
  <2>1. \E c, t, given : Then(ShiftCalls(c, t, given)) BY <1>10 DEF ShiftTransfer
  <2>2. \A c, t, given : Proper(ShiftCalls(c, t, given)) BY FewProper, BatchesProper DEF ShiftCalls
  <2> QED BY <1>3, <2>1, <2>2
<1>11. CASE ShiftedFieldClass
  <2>1. \E c, d : Then(<<c, d>>) BY <1>11 DEF ShiftedFieldClass
  <2> QED BY <1>3, <2>1, FewProper
<1>12. CASE BindIndirectCall
  <2>1. \E s, c : (s = <<>> \/ \E d : s = <<d>>) /\ Then(s \o <<c>>)
    BY <1>12 DEF BindIndirectCall
  <2> QED BY <1>3, <2>1, FewProper, Concatenation
<1>13. CASE BindArguments
  <2>1. \E srcs, dsts, c : Then(TransferAny(srcs, dsts)) \/ Then(TransferAny(srcs, dsts) \o <<c>>)
    BY <1>13 DEF BindArguments
  <2> QED BY <1>3, <2>1, TransferProper, FewProper, Concatenation
<1>14. CASE ApplyExternalCall
  <2>1. Then(<<>>) \/ \E c : Then(<<c>>) BY <1>14 DEF ApplyExternalCall
  <2> QED BY <1>3, <2>1, FewProper
<1>15. CASE PublishArguments
  <2>1. \A site, v : Proper(PublishArgument(site, v)) BY FewProper, PublishProper DEF PublishArgument
  <2>2. \/ Then(<<>>) \/ \E c : Then(<<c>>)
        \/ \E site, v, c : Then(PublishArgument(site, v) \o <<c>>)
    BY <1>15 DEF PublishArguments
  <2> QED BY <1>3, <2>1, <2>2, FewProper, Concatenation
<1>16. CASE ApplyVarargCall
  <2>1. \A site, v : Proper(TailCalls(site, v))
    <3>1. ASSUME NEW site, NEW v PROVE Proper(TailCalls(site, v))
      <4> DEFINE label == {Label("vararg-call", site)}
                 rest == IF pointee[rep[v]] = NoClass THEN <<>>
                         ELSE <<Give(PointeeOf(v), Escape, label)>>
      <4>1. Proper(rest) BY FewProper
      <4>2. Proper(EscapeExact(v, label)) BY PublishProper
      <4>3. TailCalls(site, v) = EscapeExact(v, label) \o rest BY DEF TailCalls
      <4> HIDE DEF rest, label
      <4> QED BY <4>1, <4>2, <4>3, Concatenation
    <3> QED BY <3>1
  <2>2. \/ Then(<<>>)
        \/ \E site, v, c : Then(TailCalls(site, v) \o <<c>>)
    BY <1>16 DEF ApplyVarargCall
  <2> QED BY <1>3, <2>1, <2>2, FewProper, Concatenation
<1>17. CASE ProcessClass
  <2>1. \E a, b, c : Then(AnyOrder(a) \o AnyOrder(b) \o AnyOrder(c)) BY <1>17 DEF ProcessClass
  <2> QED BY <1>3, <2>1, BatchesProper, Concatenation
<1> QED BY <1>1, <1>2, <1>5, <1>6, <1>7, <1>8, <1>9, <1>10, <1>11, <1>12, <1>13, <1>14, <1>15, <1>16,
           <1>17 DEF Step

\* A call stays on the agenda until it is made.
LEMMA StepAwaits ==
  ASSUME TypeInv, EdgesOK, Next, NEW call, call.call \in CallNames, Awaits(agenda, call)
  PROVE  Awaits(agenda', call) \/ (agenda # <<>> /\ Head(agenda) = call /\ Step)
<1>1. Proper(agenda) BY DEF TypeInv, AgendaOK
<1>2. agenda # <<>> BY DEF Awaits
<1>3. Step BY <1>2 DEF Next, ReadEdge, RegisterCall, ReadSeed, ReadEntry, PopClass
<1>4. CASE NextInAnyOrder
  <2>1. PICK batch \in Head(agenda).batches :
          agenda' = (batch \o AnyOrder(Head(agenda).batches \ {batch})) \o Tail(agenda)
    BY <1>4 DEF NextInAnyOrder, Then
  <2>2. Head(agenda).call = "in_any_order" BY <1>4 DEF NextInAnyOrder, Calling
  <2>3. BatchOK(program, batch, Resolved)
    BY <1>2, <2>2, HeadOK DEF TypeInv, CallOK, Typed, CallNames
  <2>4. Proper(batch) BY <2>3 DEF BatchOK
  <2>5. call # Head(agenda) BY <2>2 DEF CallNames
  <2> QED BY <1>1, <1>2, <2>1, <2>2, <2>4, <2>5, AwaitsChosen
<1>5. CASE ~NextInAnyOrder
  <2>1. PICK calls : Makes(calls) BY <1>3, <1>5, StepMakes
  <2>2. Head(agenda).call # "in_any_order" BY <1>3, <1>5, StepMakes
  <2> QED BY <1>1, <1>2, <1>3, <2>1, <2>2, AwaitsNext DEF Makes
<1> QED BY <1>4, <1>5

(***************************************************************************)
(* Classes only grow together, and only gain.                              *)
(***************************************************************************)
LEMMA RepStill ==
  ASSUME Next, ~JoinClasses
  PROVE  rep' = rep
<1>1. CASE ReadEdge \/ RegisterCall \/ ReadSeed \/ ReadEntry \/ PopClass
  BY <1>1 DEF ReadEdge, RegisterCall, ReadSeed, ReadEntry, PopClass, classVars, knownVars, graphVars
<1>2. CASE SetFacts \/ PointeeKnown \/ PointeeMade \/ UnifyPointees \/ AddContentEdge
           \/ AddGepTransfer \/ JoinedAlready \/ FieldKnown \/ FieldMade
  BY <1>2 DEF SetFacts, PointeeKnown, PointeeMade, UnifyPointees, AddContentEdge, AddGepTransfer,
              JoinedAlready, FieldKnown, FieldMade, classVars, knownVars, graphVars
<1>3. CASE ReplayTransfers \/ NothingToReplay \/ WidenSummary \/ ShiftTransfer \/ ShiftedFieldClass
           \/ EscapeAllocationFields \/ BindIndirectCall \/ BindArguments
  BY <1>3 DEF ReplayTransfers, NothingToReplay, WidenSummary, ShiftTransfer, ShiftedFieldClass,
              EscapeAllocationFields, BindIndirectCall, BindArguments, classVars, knownVars, graphVars
<1>4. CASE ApplyExternalCall \/ PublishArguments \/ ApplyVarargCall \/ RegisterSite \/ ProcessClass
           \/ NextInAnyOrder
  BY <1>4 DEF ApplyExternalCall, PublishArguments, ApplyVarargCall, RegisterSite, ProcessClass,
              NextInAnyOrder, classVars, knownVars, graphVars
<1> QED BY <1>1, <1>2, <1>3, <1>4 DEF Next, Step

\* What a class points to changes only if it pointed nowhere.
LEMMA PointeeStill ==
  ASSUME TypeInv, EdgesOK, Next, ~JoinClasses, NEW c \in Class, pointee[c] # NoClass
  PROVE  pointee'[c] = pointee[c]
<1>1. CASE ReadEdge \/ RegisterCall \/ ReadSeed \/ ReadEntry \/ PopClass
  BY <1>1 DEF ReadEdge, RegisterCall, ReadSeed, ReadEntry, PopClass, classVars, knownVars, graphVars
<1>2. CASE SetFacts \/ PointeeKnown \/ AddContentEdge
           \/ AddGepTransfer \/ JoinedAlready \/ FieldKnown \/ FieldMade
  BY <1>2 DEF SetFacts, PointeeKnown, AddContentEdge, AddGepTransfer,
              JoinedAlready, FieldKnown, FieldMade, classVars, knownVars, graphVars
<1>3. CASE ReplayTransfers \/ NothingToReplay \/ WidenSummary \/ ShiftTransfer \/ ShiftedFieldClass
           \/ EscapeAllocationFields \/ BindIndirectCall \/ BindArguments
  BY <1>3 DEF ReplayTransfers, NothingToReplay, WidenSummary, ShiftTransfer, ShiftedFieldClass,
              EscapeAllocationFields, BindIndirectCall, BindArguments, classVars, knownVars, graphVars
<1>4. CASE ApplyExternalCall \/ PublishArguments \/ ApplyVarargCall \/ RegisterSite \/ ProcessClass
           \/ NextInAnyOrder
  BY <1>4 DEF ApplyExternalCall, PublishArguments, ApplyVarargCall, RegisterSite, ProcessClass,
              NextInAnyOrder, classVars, knownVars, graphVars
<1>5. pointee = [d \in Class |-> pointee[d]] BY DEF TypeInv, GraphOK
<1>6. CASE PointeeMade
  <2>1. pointee[rep[Head(agenda).of]] = NoClass
        /\ pointee' = [pointee EXCEPT ![rep[Head(agenda).of]] = NewClass]
    BY <1>6 DEF PointeeMade
  <2> QED BY <1>5, <2>1
<1>7. CASE UnifyPointees
  <2>1. \/ pointee' = pointee
        \/ \E a, b : pointee[a] = NoClass /\ pointee' = [pointee EXCEPT ![a] = b]
    BY <1>7 DEF UnifyPointees
  <2> QED BY <1>5, <2>1
<1> QED BY <1>1, <1>2, <1>3, <1>4, <1>6, <1>7 DEF Next, Step

\* A join on the agenda is made by join alone.
LEMMA NoOtherJoin ==
  ASSUME Next, Calling("join")
  PROVE  JoinClasses \/ JoinedAlready
<1>1. agenda # <<>> /\ Head(agenda).call = "join" BY DEF Calling
<1> QED BY <1>1 DEF Next, Step, ReadEdge, RegisterCall, ReadSeed, ReadEntry, PopClass,
     SetFacts, PointeeKnown, PointeeMade, UnifyPointees, AddContentEdge, AddGepTransfer,
         FieldKnown, FieldMade, ReplayTransfers, NothingToReplay,
         WidenSummary, ShiftTransfer, ShiftedFieldClass, EscapeAllocationFields, BindIndirectCall,
         BindArguments, ApplyExternalCall, PublishArguments, ApplyVarargCall, RegisterSite,
         ProcessClass, NextInAnyOrder, Calling

\* Names in use stay in use.
LEMMA LiveStill ==
  ASSUME TypeInv, EdgesOK, Next
  PROVE  spare' \subseteq spare /\ Live \subseteq Live' /\ GraphOK /\ GraphOK'
<1>1. GraphOK /\ GraphOK' /\ spare' \subseteq spare BY NextTypes DEF StepTypes, TypeInv
<1> QED BY <1>1 DEF Live

\* Two classes that are one, or are being made one, are one from now on.
LEMMA SameKept ==
  ASSUME TypeInv, EdgesOK, Next, NEW x \in Live, NEW y \in Live, Same(x, y)
  PROVE  rep'[x] = rep'[y]
<1>1. CASE JoinClasses
  <2>1. PICK from \in Live, to \in Live :
          /\ rep[from] = from /\ rep[to] = to /\ from # to
          /\ {from, to} = {Find(Head(agenda).left), Find(Head(agenda).right)}
          /\ Merge(from, to)
    BY <1>1, JoinMerges
  <2>2. \A c \in Class : rep'[c] = IF rep[c] = from THEN to ELSE rep[c] BY <2>1, MergeTables
  <2>3. rep[x] = rep[y] \/ {rep[x], rep[y]} = {from, to} BY <2>1 DEF Same, Joining
  <2>4. x \in Class /\ y \in Class BY DEF Live
  <2> QED BY <2>2, <2>3, <2>4
<1>2. CASE ~JoinClasses
  <2>1. rep' = rep BY <1>2, RepStill
  <2>2. CASE Joining(x, y)
    <3>1. JoinedAlready BY <1>2, <2>2, NoOtherJoin DEF Joining
    <3>2. Find(Head(agenda).left) = Find(Head(agenda).right) BY <3>1 DEF JoinedAlready
    <3>3. rep[x] = rep[y] BY <2>2, <3>2 DEF Joining
    <3> QED BY <2>1, <3>3
  <2> QED BY <2>1, <2>2 DEF Same
<1> QED BY <1>1, <1>2

\* What a class is known to point to, it keeps pointing to.
LEMMA TargetKept ==
  ASSUME TypeInv, EdgesOK, Next, NEW v \in Live, NEW y, TargetIs(v, y)
  PROVE  TargetIs(v, y)' /\ y \in Live
<1>1. Points(v) /\ y \in Live /\ Same(pointee[rep[v]], y) BY DEF TargetIs
<1>2. Live \subseteq Live' /\ GraphOK BY LiveStill
<1>3. rep[v] \in Class /\ pointee[rep[v]] \in Live /\ v \in Class
  BY <1>1, <1>2, RepLive DEF Points, GraphOK, Live
<1>4. rep'[pointee[rep[v]]] = rep'[y] BY <1>1, <1>3, SameKept
<1>5. CASE ~JoinClasses
  <2>1. rep' = rep /\ pointee'[rep[v]] = pointee[rep[v]]
    BY <1>1, <1>3, <1>5, RepStill, PointeeStill DEF Points
  <2>2. rep'[pointee'[rep'[v]]] = rep'[y] BY <1>4, <2>1
  <2>3. pointee'[rep'[v]] # NoClass BY <1>1, <2>1 DEF Points
  <2> QED BY <1>1, <1>2, <2>2, <2>3 DEF TargetIs, Points, Same
<1>6. CASE JoinClasses
  <2>1. PICK from \in Live, to \in Live :
          rep[from] = from /\ rep[to] = to /\ from # to /\ Merge(from, to)
    BY <1>6, JoinMerges
  <2>2. /\ from \in Class /\ to \in Class
        /\ \A c \in Class : rep'[c] = IF rep[c] = from THEN to ELSE rep[c]
        /\ \A c \in Class \ {from, to} : pointee'[c] = pointee[c]
        /\ pointee'[to] = IF pointee[to] = NoClass THEN pointee[from] ELSE pointee[to]
    BY <2>1, MergeTables
  <2>3. pointee'[rep'[v]] # NoClass BY <1>1, <1>3, <2>1, <2>2 DEF Points
  <2>4. CASE pointee'[rep'[v]] = pointee[rep[v]]
    BY <1>1, <1>2, <1>4, <2>3, <2>4 DEF TargetIs, Points, Same
  <2>5. CASE pointee'[rep'[v]] # pointee[rep[v]]
    <3>1. /\ rep[v] = from /\ rep'[v] = to /\ pointee[to] # NoClass /\ pointee[from] # NoClass
          /\ pointee'[to] = pointee[to]
      BY <1>1, <1>3, <2>1, <2>2, <2>5 DEF Points
    <3>2. PICK l, r : l = pointee[to] /\ r = pointee[from]
      OBVIOUS
    <3> DEFINE next == Join(Of(l), Of(r))
    <3>3. agenda' # <<>> /\ Head(agenda') = next
      <4>0. agenda' = <<next>> \o Tail(agenda) BY <2>1, <3>1, <3>2 DEF Merge, JoinPointees, Then
      <4>1. Proper(agenda) /\ agenda # <<>>
        BY <1>6 DEF TypeInv, AgendaOK, JoinClasses, Calling
      <4>2. Proper(<<next>>) /\ Proper(Tail(agenda)) BY <4>1, Remainder, FewProper
      <4>3. Len(<<next>>) = 1 /\ <<next>>[1] = next
        OBVIOUS
      <4> HIDE DEF next
      <4>4. Proper(agenda') /\ 1 \in DOMAIN agenda' /\ agenda'[1] = next
        BY <4>0, <4>2, <4>3, Concatenation
      <4>5. agenda' # <<>> BY <4>4
      <4> QED BY <4>4, <4>5, Remainder
    <3>4. next.call = "join" /\ next.left = Of(l) /\ next.right = Of(r)
      BY DEF Join
    <3>5. Find(Of(l))' = rep'[l] /\ Find(Of(r))' = rep'[r] BY DEF Find, Of
    <3>6. {rep'[l], rep'[r]} = {rep'[pointee'[rep'[v]]], rep'[y]} BY <1>4, <3>1, <3>2
    <3> HIDE DEF next
    <3>7. Calling("join")' /\ {Find(Head(agenda).left)', Find(Head(agenda).right)'}
                               = {rep'[pointee'[rep'[v]]], rep'[y]}
      <4>1. Head(agenda)'.left = Of(l) /\ Head(agenda)'.right = Of(r) BY <3>3, <3>4
      <4>2. Find(Head(agenda).left)' = rep'[l] /\ Find(Head(agenda).right)' = rep'[r]
        BY <4>1 DEF Find, Of
      <4> QED BY <3>3, <3>4, <3>6, <4>2 DEF Calling
    <3> QED BY <1>1, <1>2, <2>3, <3>7 DEF TargetIs, Points, Same, Joining
  <2> QED BY <2>4, <2>5
<1> QED BY <1>1, <1>5, <1>6

\* Without a join a class only gains facts.
LEMMA FactsStill ==
  ASSUME TypeInv, EdgesOK, Next, ~JoinClasses, NEW c \in Live
  PROVE  facts[c] \subseteq facts'[c]
<1>1. c \in Class BY DEF Live
<1>2. CASE ReadEdge \/ RegisterCall \/ ReadSeed \/ PopClass
  BY <1>2 DEF ReadEdge, RegisterCall, ReadSeed, PopClass, classVars, knownVars, factVars
<1>3. CASE PointeeKnown \/ PointeeMade \/ UnifyPointees \/ AddContentEdge
           \/ AddGepTransfer \/ JoinedAlready \/ FieldKnown
  BY <1>3 DEF PointeeKnown, PointeeMade, UnifyPointees, AddContentEdge, AddGepTransfer,
              JoinedAlready, FieldKnown, classVars, knownVars, factVars
<1>4. CASE ReplayTransfers \/ NothingToReplay \/ WidenSummary \/ ShiftTransfer \/ ShiftedFieldClass
           \/ BindIndirectCall \/ BindArguments
  BY <1>4 DEF ReplayTransfers, NothingToReplay, WidenSummary, ShiftTransfer, ShiftedFieldClass,
              BindIndirectCall, BindArguments, classVars, knownVars, factVars
<1>5. CASE ApplyExternalCall \/ PublishArguments \/ ApplyVarargCall \/ RegisterSite \/ NextInAnyOrder
  BY <1>5 DEF ApplyExternalCall, PublishArguments, ApplyVarargCall, RegisterSite,
              NextInAnyOrder, classVars, knownVars, factVars
<1>6. ASSUME NEW given, NEW labels, Grant(given, labels) PROVE facts[c] \subseteq facts'[c]
  BY <1>1, <1>6 DEF Grant
<1>7. CASE ReadEntry
  <2>1. \E given, labels : Grant(given, labels) BY <1>7 DEF ReadEntry
  <2> QED BY <1>6, <2>1
<1>8. CASE SetFacts
  <2>1. \E given, labels : Grant(given, labels) BY <1>8 DEF SetFacts
  <2> QED BY <1>6, <2>1
<1>9. CASE EscapeAllocationFields
  <2>1. \E given, labels : Grant(given, labels) BY <1>9 DEF EscapeAllocationFields
  <2> QED BY <1>6, <2>1
<1>10. CASE ProcessClass
  <2>1. \E given, labels : Grant(given, labels) BY <1>10 DEF ProcessClass
  <2> QED BY <1>6, <2>1
<1>11. CASE FieldMade
  <2>1. \A d \in Class \ {NewClass} : facts'[d] = facts[d] BY <1>11, FieldMadeTables
  <2>2. NewClass \notin Live BY <1>11, FieldMadeTables
  <2> QED BY <1>1, <2>1, <2>2
<1> QED BY <1>2, <1>3, <1>4, <1>5, <1>7, <1>8, <1>9, <1>10, <1>11 DEF Next, Step

\* Without a join a class keeps its functions and only gains calls.
LEMMA SitesStill ==
  ASSUME TypeInv, EdgesOK, Next, ~JoinClasses
  PROVE  fns' = fns /\ \A c \in Class : sites[c] \subseteq sites'[c]
<1>1. CASE ReadEdge \/ RegisterCall \/ ReadSeed \/ ReadEntry \/ PopClass
  BY <1>1 DEF ReadEdge, RegisterCall, ReadSeed, ReadEntry, PopClass, classVars, knownVars, callVars
<1>2. CASE SetFacts \/ PointeeKnown \/ PointeeMade \/ UnifyPointees \/ AddContentEdge
           \/ AddGepTransfer \/ JoinedAlready \/ FieldKnown \/ FieldMade
  BY <1>2 DEF SetFacts, PointeeKnown, PointeeMade, UnifyPointees, AddContentEdge, AddGepTransfer,
              JoinedAlready, FieldKnown, FieldMade, classVars, knownVars, callVars
<1>3. CASE ReplayTransfers \/ NothingToReplay \/ WidenSummary \/ ShiftTransfer \/ ShiftedFieldClass
           \/ EscapeAllocationFields \/ BindIndirectCall \/ BindArguments
  BY <1>3 DEF ReplayTransfers, NothingToReplay, WidenSummary, ShiftTransfer, ShiftedFieldClass,
              EscapeAllocationFields, BindIndirectCall, BindArguments, classVars, knownVars, callVars
<1>4. CASE ApplyExternalCall \/ PublishArguments \/ ApplyVarargCall \/ ProcessClass \/ NextInAnyOrder
  BY <1>4 DEF ApplyExternalCall, PublishArguments, ApplyVarargCall, ProcessClass,
              NextInAnyOrder, classVars, knownVars, callVars
<1>5. CASE RegisterSite
  <2>1. \E c, site : sites' = [sites EXCEPT ![c] = @ \cup {site}] BY <1>5 DEF RegisterSite
  <2>2. fns' = fns BY <1>5 DEF RegisterSite
  <2>3. sites = [c \in Class |-> sites[c]] BY DEF TypeInv, ContentOK
  <2> QED BY <2>1, <2>2, <2>3
<1> QED BY <1>1, <1>2, <1>3, <1>4, <1>5 DEF Next, Step

\* What is known of a class is known of the class it is part of.
LEMMA Gains ==
  ASSUME TypeInv, EdgesOK, Next, NEW x \in Live
  PROVE  /\ facts[rep[x]] \subseteq facts'[rep'[x]]
         /\ sites[rep[x]] \subseteq sites'[rep'[x]]
         /\ fns[rep[x]] \subseteq fns'[rep'[x]]
<1>1. rep[x] \in Live /\ rep[x] \in Class /\ x \in Class BY RepLive DEF TypeInv, Live
<1>2. CASE JoinClasses
  <2>1. PICK from \in Live, to \in Live :
          rep[from] = from /\ rep[to] = to /\ from # to /\ Merge(from, to)
    BY <1>2, JoinMerges
  <2>2. /\ \A c \in Class : rep'[c] = IF rep[c] = from THEN to ELSE rep[c]
        /\ \A c \in Class \ {from, to} :
             facts'[c] = facts[c] /\ sites'[c] = sites[c] /\ fns'[c] = fns[c]
        /\ facts'[to] = facts[to] \cup facts[from] /\ sites'[to] = sites[to] \cup sites[from]
        /\ fns'[to] = fns[to] \cup fns[from]
    BY <2>1, MergeTables
  <2> QED BY <1>1, <2>2
<1>3. CASE ~JoinClasses
  BY <1>1, <1>3, RepStill, FactsStill, SitesStill
<1> QED BY <1>2, <1>3

(***************************************************************************)
(* Whatever a class has become, it is queued or has been worked off.       *)
(***************************************************************************)
\* Classes that keep their contents stay as they are.
LEMMA WorkedKept ==
  ASSUME TypeInv, EdgesOK, Next, WorkedOff, worklist \subseteq worklist',
         pairs \subseteq pairs', published \subseteq published',
         DOMAIN escaped \subseteq DOMAIN escaped', ~ProcessClass,
         \A c \in Live' : rep'[c] = c =>
           \/ c \in worklist' \/ Settled(c)'
           \/ /\ c \in Live /\ rep[c] = c /\ sites'[c] = sites[c] /\ fns'[c] = fns[c]
              /\ regions'[c] = regions[c] /\ facts'[c] = facts[c] /\ opened[c] \subseteq opened'[c]
  PROVE  WorkedOff'
<1> SUFFICES ASSUME NEW c \in Live', rep'[c] = c, c \notin worklist', ~Settled(c)'
             PROVE  \E d \in Class : rep'[d] = c /\ Awaits(agenda', Process(d))
  BY DEF WorkedOff, Pending
<1>1. /\ c \in Live /\ rep[c] = c /\ sites'[c] = sites[c] /\ fns'[c] = fns[c]
      /\ regions'[c] = regions[c] /\ facts'[c] = facts[c] /\ opened[c] \subseteq opened'[c]
  OBVIOUS
<1>2. c \in Class BY <1>1 DEF Live
<1>3. Settled(c) => Settled(c)' BY <1>1, <1>2 DEF Settled
<1>4. Pending(c) BY <1>1, <1>3 DEF WorkedOff
<1>5. PICK d \in Class : rep[d] = c /\ Awaits(agenda, Process(d)) BY <1>4 DEF Pending
<1>6. d \in Live
  <2>1. GraphOK BY DEF TypeInv
  <2> QED BY <1>1, <1>5, <2>1 DEF GraphOK, Live
<1>7. rep'[d] = c
  <2>1. Same(d, c) BY <1>1, <1>5 DEF Same
  <2> QED BY <1>1, <1>6, <2>1, SameKept
<1>8. Process(d).call = "process_class" /\ Process(d).call \in CallNames BY DEF Process, CallNames
<1>9. ~(agenda # <<>> /\ Head(agenda) = Process(d) /\ Step)
  BY <1>8 DEF Step, SetFacts, PointeeKnown, PointeeMade, UnifyPointees, AddContentEdge, AddGepTransfer,
         JoinClasses, JoinedAlready, FieldKnown, FieldMade, ReplayTransfers, NothingToReplay,
         WidenSummary, ShiftTransfer, ShiftedFieldClass, EscapeAllocationFields, BindIndirectCall,
         BindArguments, ApplyExternalCall, PublishArguments, ApplyVarargCall, RegisterSite,
         NextInAnyOrder, Calling
<1>10. Awaits(agenda', Process(d)) BY <1>5, <1>8, <1>9, StepAwaits
<1> QED BY <1>7, <1>10

\* A step that touches neither contents nor escapes leaves the argument as it is.
LEMMA QuietEscape ==
  ASSUME TypeInv, EdgesOK, Next, ~ProcessClass, EscapeInv, worklist \subseteq worklist',
         UNCHANGED <<rep, spare, facts, sites, fns, opened, swept, regions, spread, pairs, published,
                     cells, escaped>>
  PROVE  EscapeInv'
<1>1. Live' = Live BY DEF Live
<1>2. WorkedOff' BY <1>1, WorkedKept DEF EscapeInv
<1>3. SweptDone' /\ SpreadDone' /\ FieldsEscaped'
  BY DEF EscapeInv, SweptDone, SpreadDone, FieldsEscaped
<1> QED BY <1>2, <1>3 DEF EscapeInv

\* Twenty of the steps are of this kind.
LEMMA QuietStepsEscape ==
  ASSUME TypeInv, EdgesOK, EscapeInv, Next,
         \/ ReadEdge \/ RegisterCall \/ ReadSeed \/ PointeeKnown \/ UnifyPointees \/ AddContentEdge
         \/ AddGepTransfer \/ JoinedAlready \/ FieldKnown \/ ReplayTransfers \/ NothingToReplay
         \/ WidenSummary \/ ShiftTransfer \/ ShiftedFieldClass \/ BindIndirectCall \/ BindArguments
         \/ ApplyExternalCall \/ PublishArguments \/ ApplyVarargCall \/ NextInAnyOrder
  PROVE  EscapeInv'
<1>1. ~ProcessClass
  BY DEF ReadEdge, RegisterCall, ReadSeed, PointeeKnown, UnifyPointees, AddContentEdge,
         AddGepTransfer, JoinedAlready, FieldKnown, ReplayTransfers, NothingToReplay,
         WidenSummary, ShiftTransfer, ShiftedFieldClass, BindIndirectCall, BindArguments,
         ApplyExternalCall, PublishArguments, ApplyVarargCall, NextInAnyOrder, ProcessClass, Calling
<1> DEFINE still == UNCHANGED <<rep, spare, facts, sites, fns, opened, swept, regions, spread, pairs,
                                published, cells, escaped>>
<1>2. CASE ReadEdge \/ RegisterCall \/ ReadSeed \/ PointeeKnown \/ UnifyPointees \/ AddContentEdge
  <2>1. still /\ worklist \subseteq worklist'
    BY <1>2 DEF ReadEdge, RegisterCall, ReadSeed, PointeeKnown, UnifyPointees, AddContentEdge,
                classVars, knownVars, graphVars, factVars, callVars, shiftVars, fieldVars, onceVars
  <2> QED BY <1>1, <2>1, QuietEscape
<1>3. CASE AddGepTransfer \/ JoinedAlready \/ FieldKnown \/ ReplayTransfers \/ NothingToReplay
  <2>1. still /\ worklist \subseteq worklist'
    BY <1>3 DEF AddGepTransfer, JoinedAlready, FieldKnown, ReplayTransfers, NothingToReplay,
                classVars, knownVars, graphVars, factVars, callVars, shiftVars, fieldVars, onceVars
  <2> QED BY <1>1, <2>1, QuietEscape
<1>4. CASE WidenSummary \/ ShiftTransfer \/ ShiftedFieldClass \/ BindIndirectCall \/ BindArguments
  <2>1. still /\ worklist \subseteq worklist'
    BY <1>4 DEF WidenSummary, ShiftTransfer, ShiftedFieldClass, BindIndirectCall, BindArguments,
                classVars, knownVars, graphVars, factVars, callVars, shiftVars, fieldVars, onceVars
  <2> QED BY <1>1, <2>1, QuietEscape
<1>5. CASE ApplyExternalCall \/ PublishArguments \/ ApplyVarargCall \/ NextInAnyOrder
  <2>1. still /\ worklist \subseteq worklist'
    BY <1>5 DEF ApplyExternalCall, PublishArguments, ApplyVarargCall, NextInAnyOrder,
                classVars, knownVars, graphVars, factVars, callVars, shiftVars, fieldVars, onceVars
  <2> QED BY <1>1, <2>1, QuietEscape
<1> QED BY <1>2, <1>3, <1>4, <1>5

\* A class that is given something new is queued.
LEMMA GivenQueued ==
  ASSUME TypeInv, NEW given, NEW labels, Grant(given, labels)
  PROVE  /\ worklist \subseteq worklist'
         /\ \A c \in Class : facts[c] \subseteq facts'[c] /\ (facts'[c] = facts[c] \/ c \in worklist')
BY DEF Grant, Gaining, TypeInv, FactsOK

\* Facts that are given queue the class.
LEMMA GrantEscape ==
  ASSUME TypeInv, EdgesOK, EscapeInv, Next, SetFacts \/ ReadEntry
  PROVE  EscapeInv'
<1>1. PICK given, labels : Grant(given, labels) BY DEF SetFacts, ReadEntry
<1>2. UNCHANGED <<rep, spare, sites, fns, opened, swept, regions, spread, pairs, published, cells, escaped>>
  BY DEF SetFacts, ReadEntry, graphVars, callVars, shiftVars, fieldVars, onceVars
<1>3. ~ProcessClass BY DEF SetFacts, ReadEntry, ProcessClass, Calling
<1>4. Live' = Live /\ Live \subseteq Class BY <1>2 DEF Live
<1>5. WorkedOff' BY <1>1, <1>2, <1>3, <1>4, GivenQueued, WorkedKept DEF EscapeInv
<1>6. FieldsEscaped'
  <2>1. \A k \in DOMAIN cells : rep[cells[k]] \in Class BY RepLive DEF TypeInv, GraphOK, Live
  <2> QED BY <1>1, <1>2, <2>1, GivenQueued DEF EscapeInv, FieldsEscaped
<1>7. SweptDone' /\ SpreadDone' BY <1>2 DEF EscapeInv, SweptDone, SpreadDone
<1> QED BY <1>5, <1>6, <1>7 DEF EscapeInv

\* A call that is registered queues the class.
LEMMA RegisterSiteEscape ==
  ASSUME TypeInv, EdgesOK, EscapeInv, Next, RegisterSite
  PROVE  EscapeInv'
<1>1. PICK target, site : sites' = [sites EXCEPT ![target] = @ \cup {site}]
                          /\ worklist' = worklist \cup {target}
  BY DEF RegisterSite
<1>2. UNCHANGED <<rep, spare, facts, fns, opened, swept, regions, spread, pairs, published, cells, escaped>>
  BY DEF RegisterSite, graphVars, factVars, shiftVars, fieldVars, onceVars
<1>3. ~ProcessClass BY DEF RegisterSite, ProcessClass, Calling
<1>4. Live' = Live /\ Live \subseteq Class BY <1>2 DEF Live
<1>5. \A c \in Class : c \in worklist' \/ sites'[c] = sites[c] BY <1>1 DEF TypeInv, ContentOK
<1>6. WorkedOff' BY <1>1, <1>2, <1>3, <1>4, <1>5, WorkedKept DEF EscapeInv
<1>7. SweptDone' /\ SpreadDone' /\ FieldsEscaped'
  BY <1>2 DEF EscapeInv, SweptDone, SpreadDone, FieldsEscaped
<1> QED BY <1>6, <1>7 DEF EscapeInv

\* An allocation that escapes takes all its regions with it.
LEMMA EscapeAllocationFieldsEscape ==
  ASSUME TypeInv, EdgesOK, EscapeInv, Next, EscapeAllocationFields
  PROVE  EscapeInv'
<1> DEFINE o == Head(agenda).root
           reached == IF o \in DOMAIN escaped /\ escaped[o] # {} THEN {} ELSE FieldsOf({o})
           labels == reached \X {FieldLabel(Head(agenda).labels)}
<1>1. /\ escaped' = EscapedWith({o}, Head(agenda).labels) /\ Grant(reached \X Escape, labels)
      /\ UNCHANGED <<rep, spare, sites, fns, opened, swept, regions, spread, pairs, published, cells>>
  BY DEF EscapeAllocationFields, graphVars, callVars, shiftVars, onceVars
<1> HIDE DEF labels
<1>2. DOMAIN escaped' = DOMAIN escaped \cup {o} BY <1>1 DEF EscapedWith
<1>3. ~ProcessClass BY DEF EscapeAllocationFields, ProcessClass, Calling
<1>4. Live' = Live /\ Live \subseteq Class BY <1>1 DEF Live
<1>5. WorkedOff' BY <1>1, <1>2, <1>3, <1>4, GivenQueued, WorkedKept DEF EscapeInv
<1>6. FieldsEscaped'
  <2> SUFFICES ASSUME NEW k \in DOMAIN cells, k[1] \in DOMAIN escaped'
               PROVE  Escape \subseteq facts'[rep[cells[k]]]
    BY <1>1 DEF FieldsEscaped
  <2>1. rep[cells[k]] \in Class BY RepLive DEF TypeInv, GraphOK, Live
  <2>2. CASE k[1] \in DOMAIN escaped
    BY <1>1, <2>1, <2>2, GivenQueued DEF EscapeInv, FieldsEscaped
  <2>3. CASE k[1] \notin DOMAIN escaped
    <3>1. k[1] = o /\ o \notin DOMAIN escaped BY <1>2, <2>3
    <3>2. rep[cells[k]] \in reached BY <3>1 DEF FieldsOf
    <3> HIDE DEF reached
    <3>3. Escape \subseteq GainedFacts(reached \X Escape, rep[cells[k]])
      BY <3>2 DEF GainedFacts, Escape, FactNames
    <3> QED BY <1>1, <2>1, <3>3 DEF Grant
  <2> QED BY <2>2, <2>3
<1>7. SweptDone' /\ SpreadDone' BY <1>1, <1>2 DEF EscapeInv, SweptDone, SpreadDone
<1> QED BY <1>5, <1>6, <1>7 DEF EscapeInv

\* A class that is made has nothing in it yet.
LEMMA PointeeMadeEscape ==
  ASSUME TypeInv, EdgesOK, EscapeInv, Next, PointeeMade
  PROVE  EscapeInv'
<1>1. /\ spare # {} /\ spare' = spare \ {NewClass} /\ worklist \subseteq worklist'
      /\ UNCHANGED <<rep, facts, sites, fns, opened, swept, regions, spread, pairs, published, cells, escaped>>
  BY DEF PointeeMade, factVars, callVars, shiftVars, fieldVars, onceVars
<1>2. PICK new \in spare : new = NewClass BY <1>1 DEF NewClass
<1>3. new \in Class /\ Live' = Live \cup {new} BY <1>1, <1>2, NewClassUsed DEF TypeInv
<1>4. ~ProcessClass BY DEF PointeeMade, ProcessClass, Calling
<1>5. Settled(new)' BY <1>1 DEF Settled, TypeInv, ContentOK
<1>6. WorkedOff' BY <1>1, <1>3, <1>4, <1>5, WorkedKept DEF EscapeInv
<1>7. SweptDone' /\ SpreadDone' /\ FieldsEscaped'
  BY <1>1 DEF EscapeInv, SweptDone, SpreadDone, FieldsEscaped
<1> QED BY <1>6, <1>7 DEF EscapeInv

\* A region made after its allocation escaped is born escaped.
LEMMA FieldMadeEscape ==
  ASSUME TypeInv, EdgesOK, EscapeInv, Next, FieldMade
  PROVE  EscapeInv'
<1> DEFINE o == Head(agenda).root
           region == Head(agenda).region
<1>1. PICK new \in spare : new = NewClass
  <2>1. spare # {} BY DEF FieldMade
  <2> QED BY <2>1 DEF NewClass
<1>2. /\ new \in Class /\ new \notin Live /\ rep[new] = new /\ Live' = Live \cup {new}
      /\ DOMAIN cells' = DOMAIN cells \cup {<<o, region>>}
      /\ cells'[<<o, region>>] = new /\ \A k \in DOMAIN cells : cells'[k] = cells[k]
      /\ \A c \in Class \ {new} : facts'[c] = facts[c] /\ regions'[c] = regions[c]
      /\ regions'[new] = {<<o, region>>} /\ facts'[new] = EscapeOfField(o)
  BY <1>1, FieldMadeTables
<1>3. UNCHANGED <<worklist, rep, sites, fns, opened, swept, spread, pairs, published, escaped>>
  BY DEF FieldMade, callVars, onceVars
<1>4. ~ProcessClass BY DEF FieldMade, ProcessClass, Calling
<1> HIDE DEF o, region
<1>5. Settled(new)'
  <2>1. sites[new] = {} /\ fns[new] = {} BY <1>1 DEF TypeInv, ContentOK
  <2>2. "alloc" \in facts'[new] => o \in DOMAIN escaped BY <1>2 DEF EscapeOfField
  <2>3. {g[1] : g \in regions'[new]} = {o} BY <1>2
  <2> QED BY <1>3, <2>1, <2>2, <2>3 DEF Settled
<1>6. WorkedOff'
  <2>1. \A c \in Live : c \in Class /\ c # new BY <1>2 DEF Live
  <2> QED BY <1>2, <1>3, <1>4, <1>5, <2>1, WorkedKept DEF EscapeInv
<1>7. FieldsEscaped'
  <2> SUFFICES ASSUME NEW k \in DOMAIN cells', k[1] \in DOMAIN escaped
               PROVE  Escape \subseteq facts'[rep[cells'[k]]]
    BY <1>3 DEF FieldsEscaped
  <2>1. CASE k \in DOMAIN cells
    <3>1. rep[cells[k]] \in Live BY <2>1, RepLive DEF TypeInv, GraphOK
    <3>2. rep[cells[k]] \in Class \ {new} BY <1>2, <3>1 DEF Live
    <3> QED BY <1>2, <2>1, <3>2 DEF EscapeInv, FieldsEscaped
  <2>2. CASE k = <<o, region>>
    <3>1. k[1] = o BY <2>2
    <3> QED BY <1>2, <2>2, <3>1 DEF EscapeOfField
  <2> QED BY <1>2, <2>1, <2>2
<1>8. SweptDone' /\ SpreadDone' BY <1>3 DEF EscapeInv, SweptDone, SpreadDone
<1> QED BY <1>6, <1>7, <1>8 DEF EscapeInv

\* A class that is joined is queued with everything both had.
LEMMA JoinClassesEscape ==
  ASSUME TypeInv, EdgesOK, EscapeInv, Next, JoinClasses
  PROVE  EscapeInv'
<1>1. PICK from \in Live, to \in Live :
        rep[from] = from /\ rep[to] = to /\ from # to /\ Merge(from, to)
  BY JoinMerges
<1>2. /\ from \in Class /\ to \in Class /\ Live' = Live /\ cells' = cells
      /\ \A c \in Class : rep'[c] = IF rep[c] = from THEN to ELSE rep[c]
      /\ \A c \in Class \ {from, to} :
           /\ facts'[c] = facts[c] /\ sites'[c] = sites[c] /\ fns'[c] = fns[c]
           /\ opened'[c] = opened[c] /\ regions'[c] = regions[c]
      /\ opened'[to] = opened[to] \cup opened[from]
      /\ facts'[to] = facts[to] \cup facts[from]
  BY <1>1, MergeTables
<1>3. worklist' = worklist \cup {to} /\ swept' = SweptAfter(from, to)
      /\ UNCHANGED <<spread, escaped, pairs, published>>
  BY <1>1 DEF Merge, fieldVars, onceVars
<1>4. ~ProcessClass BY DEF JoinClasses, ProcessClass, Calling
<1>5. WorkedOff'
  <2>1. \A c \in Class : rep'[c] = c => c # from BY <1>1, <1>2
  <2>2. ASSUME NEW c \in Live', rep'[c] = c, c \notin worklist'
        PROVE  /\ c \in Live /\ rep[c] = c /\ sites'[c] = sites[c] /\ fns'[c] = fns[c]
               /\ regions'[c] = regions[c] /\ facts'[c] = facts[c] /\ opened[c] \subseteq opened'[c]
    <3>1. c \in Class \ {from, to} BY <1>2, <1>3, <2>1, <2>2 DEF Live
    <3> QED BY <1>2, <2>2, <3>1
  <2> QED BY <1>3, <1>4, <2>2, WorkedKept DEF EscapeInv
<1>6. FieldsEscaped'
  <2> SUFFICES ASSUME NEW k \in DOMAIN cells, k[1] \in DOMAIN escaped
               PROVE  Escape \subseteq facts'[rep'[cells[k]]]
    BY <1>2, <1>3 DEF FieldsEscaped
  <2>1. cells[k] \in Live BY DEF TypeInv, GraphOK
  <2>2. facts[rep[cells[k]]] \subseteq facts'[rep'[cells[k]]] BY <2>1, Gains
  <2> QED BY <2>2 DEF EscapeInv, FieldsEscaped
<1>7. SweptDone'
  <2>1. \A c \in Class : swept'[c] \in {swept[c], swept[from], Nothing}
    BY <1>2, <1>3 DEF SweptAfter, TypeInv, ContentOK
  <2>2. Nothing.sites \X Nothing.fns = {} BY DEF Nothing
  <2> QED BY <1>2, <1>3, <2>1, <2>2 DEF EscapeInv, SweptDone
<1>8. SpreadDone' BY <1>3 DEF EscapeInv, SpreadDone
<1> QED BY <1>5, <1>6, <1>7, <1>8 DEF EscapeInv

\* What is taken from the queue is on the agenda.
LEMMA PopClassEscape ==
  ASSUME TypeInv, EdgesOK, EscapeInv, Next, PopClass
  PROVE  EscapeInv'
<1>1. PICK c \in worklist : /\ worklist' = worklist \ {c}
                            /\ agenda' = <<Replay(rep[c]), Process(rep[c])>>
  BY DEF PopClass
<1>2. /\ agenda = <<>>
      /\ UNCHANGED <<rep, spare, facts, sites, fns, opened, swept, regions, spread, pairs, published,
                     cells, escaped>>
  BY DEF PopClass, knownVars, graphVars, factVars, callVars, shiftVars, fieldVars, onceVars
<1>3. WorkedOff'
  <2> SUFFICES ASSUME NEW d \in Live, rep[d] = d, ~Settled(d)'
               PROVE  Pending(d)'
    BY <1>2 DEF WorkedOff, Live
  <2>1. ~Settled(d) BY <1>2 DEF Settled
  <2>2. Pending(d) BY <2>1 DEF EscapeInv, WorkedOff
  <2>3. \A call : ~Awaits(agenda, call) BY <1>2 DEF Awaits
  <2>4. d \in worklist BY <2>2, <2>3 DEF Pending
  <2>5. CASE d # c BY <1>1, <2>4, <2>5 DEF Pending
  <2>6. CASE d = c
    <3> DEFINE s == <<Replay(d), Process(d)>>
    <3>1. agenda' = s /\ DOMAIN s = {1, 2} /\ s[2] = Process(d) BY <1>1, <2>6
    <3> HIDE DEF s
    <3>2. Awaits(agenda', Process(d)) BY <3>1 DEF Awaits
    <3>3. d \in Class /\ rep'[d] = d BY <1>2 DEF Live
    <3> QED BY <3>2, <3>3 DEF Pending
  <2> QED BY <2>5, <2>6
<1>4. SweptDone' /\ SpreadDone' /\ FieldsEscaped'
  BY <1>2 DEF EscapeInv, SweptDone, SpreadDone, FieldsEscaped
<1> QED BY <1>3, <1>4 DEF EscapeInv

\* What is worked off has its pairs considered, its calls opened, its functions
\* published and its allocations escaped.
LEMMA ProcessClassEscape ==
  ASSUME TypeInv, EdgesOK, EscapeInv, Next, ProcessClass
  PROVE  EscapeInv'
<1>0. PICK c : c = rep[Head(agenda).of]
  OBVIOUS
<1>1. /\ c \in Live /\ c \in Class /\ agenda # <<>> /\ Head(agenda).call = "process_class"
      /\ Grant(ProcessGiven(c), ProcessLabels(c))
      /\ escaped' = EscapedWith(OwnersToEscape(c), sources[c])
      /\ spread' = IF "alloc" \in facts[c] THEN [spread EXCEPT ![c] = regions[c]] ELSE spread
      /\ published' = published \cup NowPublished(c)
      /\ opened' = [opened EXCEPT ![c] = @ \cup NowOpened(c)]
      /\ swept' = [swept EXCEPT ![c] = NowSwept(c)]
      /\ pairs' = pairs \cup NewPairs(c)
      /\ UNCHANGED <<rep, spare, sites, fns, regions, cells>>
  BY <1>0, ProcessTables DEF graphVars
<1>2. \A d : Head(agenda) = Process(d) => rep[d] = c BY <1>0 DEF Process
<1>3. Live' = Live /\ Live \subseteq Class BY <1>1 DEF Live
<1>4. /\ worklist \subseteq worklist'
      /\ \A d \in Class : facts[d] \subseteq facts'[d] /\ (facts'[d] = facts[d] \/ d \in worklist')
  BY <1>1, GivenQueued
<1>5. DOMAIN escaped' = DOMAIN escaped \cup OwnersToEscape(c) BY <1>1 DEF EscapedWith
<1>6. sites[c] \X fns[c] \subseteq pairs'
  <2> SUFFICES ASSUME NEW s \in sites[c], NEW f \in fns[c], <<s, f>> \notin NewPairs(c)
               PROVE  <<s, f>> \in pairs
    BY <1>1
  <2>1. s \in swept[c].sites /\ f \in swept[c].fns BY DEF NewPairs
  <2> QED BY <1>1, <2>1 DEF EscapeInv, SweptDone
<1>7. "alloc" \in facts[c] => {g[1] : g \in regions[c]} \subseteq DOMAIN escaped'
  BY <1>1, <1>5 DEF OwnersToEscape, EscapeInv, SpreadDone
<1>8. WorkedOff'
  <2> SUFFICES ASSUME NEW e \in Live, rep[e] = e, e \notin worklist', ~Settled(e)'
               PROVE  \E d \in Class : rep[d] = e /\ Awaits(agenda', Process(d))
    BY <1>1, <1>3 DEF WorkedOff, Pending
  <2>1. e \in Class /\ facts'[e] = facts[e] BY <1>3, <1>4
  <2>2. e # c
    <3> SUFFICES ASSUME e = c PROVE Settled(c)'
      OBVIOUS
    <3>1. "ext" \in facts[c] => sites[c] \subseteq opened'[c]
      BY <1>1 DEF NowOpened, TypeInv, ContentOK
    <3>2. "esc" \in facts[c] => fns[c] \subseteq published' BY <1>1 DEF NowPublished
    <3> QED BY <1>1, <1>6, <1>7, <2>1, <3>1, <3>2 DEF Settled
  <2>3. opened'[e] = opened[e] BY <1>1, <2>1, <2>2 DEF TypeInv, ContentOK
  <2>4. Settled(e) => Settled(e)' BY <1>1, <1>5, <2>1, <2>3 DEF Settled
  <2>5. Pending(e) /\ e \notin worklist BY <1>4, <2>4 DEF EscapeInv, WorkedOff
  <2>6. PICK d \in Class : rep[d] = e /\ Awaits(agenda, Process(d)) BY <2>5 DEF Pending
  <2>7. Process(d).call \in CallNames BY DEF Process, CallNames
  <2>8. Head(agenda) # Process(d) BY <1>2, <2>2, <2>6
  <2>9. Awaits(agenda', Process(d)) BY <2>6, <2>7, <2>8, StepAwaits
  <2> QED BY <2>6, <2>9
<1>9. SweptDone'
  <2>1. \A d \in Class \ {c} : swept'[d] = swept[d] BY <1>1 DEF TypeInv, ContentOK
  <2>2. swept'[c] = NowSwept(c) BY <1>1 DEF TypeInv, ContentOK
  <2>3. NowSwept(c).sites \X NowSwept(c).fns \subseteq pairs'
    BY <1>1, <1>6 DEF NowSwept, EscapeInv, SweptDone
  <2>4. pairs \subseteq pairs' BY <1>1
  <2>5. ASSUME NEW d \in Class PROVE swept'[d].sites \X swept'[d].fns \subseteq pairs'
    BY <2>1, <2>2, <2>3, <2>4 DEF EscapeInv, SweptDone
  <2> QED BY <2>5 DEF SweptDone
<1>10. SpreadDone'
  <2> SUFFICES ASSUME NEW d \in Class PROVE {g[1] : g \in spread'[d]} \subseteq DOMAIN escaped'
    BY DEF SpreadDone
  <2>1. spread'[d] = spread[d] \/ ("alloc" \in facts[c] /\ d = c /\ spread'[d] = regions[c])
    BY <1>1 DEF TypeInv, ContentOK
  <2> QED BY <1>5, <1>7, <2>1 DEF EscapeInv, SpreadDone
<1>11. FieldsEscaped'
  <2> SUFFICES ASSUME NEW k \in DOMAIN cells, k[1] \in DOMAIN escaped'
               PROVE  Escape \subseteq facts'[rep[cells[k]]]
    BY <1>1 DEF FieldsEscaped
  <2>1. rep[cells[k]] \in Class BY RepLive DEF TypeInv, GraphOK, Live
  <2>2. CASE k[1] \in DOMAIN escaped
    BY <1>4, <2>1, <2>2 DEF EscapeInv, FieldsEscaped
  <2>3. CASE k[1] \in OwnersToEscape(c)
    <3>1. rep[cells[k]] \in FieldsOf(OwnersToEscape(c)) BY <2>3 DEF FieldsOf
    <3>2. Escape \subseteq GainedFacts(ProcessGiven(c), rep[cells[k]])
      BY <3>1 DEF GainedFacts, ProcessGiven, Escape, FactNames
    <3> QED BY <1>1, <2>1, <3>2 DEF Grant
  <2> QED BY <1>5, <2>2, <2>3
<1> QED BY <1>8, <1>9, <1>10, <1>11 DEF EscapeInv

\* Every step keeps escapes whole.
LEMMA NextEscape ==
  ASSUME TypeInv, EdgesOK, EscapeInv, Next
  PROVE  EscapeInv'
BY QuietStepsEscape, GrantEscape, RegisterSiteEscape, EscapeAllocationFieldsEscape, PointeeMadeEscape,
   FieldMadeEscape, JoinClassesEscape, PopClassEscape, ProcessClassEscape DEF Next, Step

\* So does a step that changes nothing.
LEMMA StutterEscape ==
  ASSUME EscapeInv, UNCHANGED vars
  PROVE  EscapeInv'
<1>1. UNCHANGED <<agenda, worklist, rep, spare, facts, sites, fns, opened, swept, regions, spread, pairs,
                  published, cells, escaped>>
  BY DEF vars, classVars, knownVars, graphVars, factVars, callVars, shiftVars, fieldVars, onceVars
<1>2. WorkedOff' BY <1>1 DEF EscapeInv, WorkedOff, Live, Pending, Settled, Awaits
<1>3. SweptDone' /\ SpreadDone' /\ FieldsEscaped'
  BY <1>1 DEF EscapeInv, SweptDone, SpreadDone, FieldsEscaped
<1> QED BY <1>2, <1>3 DEF EscapeInv

(***************************************************************************)
(* For every program, an allocation escapes as a whole: every region of an *)
(* escaped allocation is in an escaped class, a region made afterwards     *)
(* included; it has escaped for a reason; and once the solver has stopped, *)
(* every allocation with a region in an escaped class has escaped          *)
(* (field_class, escape_allocation_fields, process_class, join).           *)
(***************************************************************************)
THEOREM EscapesWhole == Spec => []EscapeIsWhole
<1>1. Init => TypeInv /\ EdgesOK /\ EscapeInv
  <2>1. Init => EdgesOK BY DEF Init, EdgesOK
  <2> QED BY <2>1, InitTypes, InitSettled
<1>2. TypeInv /\ EdgesOK /\ EscapeInv /\ [Next]_vars => TypeInv' /\ EdgesOK' /\ EscapeInv'
  BY NextTypes, StutterTypes, NextEscape, StutterEscape DEF StepTypes
<1>3. TypeInv /\ EdgesOK /\ EscapeInv => EscapeIsWhole
  <2> SUFFICES ASSUME TypeInv, EscapeInv PROVE EscapeIsWhole
    OBVIOUS
  <2>1. \A o \in DOMAIN escaped : escaped[o] # {} BY DEF TypeInv, EscapeOK
  <2>2. ASSUME AtRest, NEW c \in Roots, "alloc" \in facts[c]
        PROVE  {g[1] : g \in regions[c]} \subseteq DOMAIN escaped
    <3>1. c \in Live /\ rep[c] = c BY <2>2 DEF Roots, Live
    <3>2. ~Pending(c) BY <2>2 DEF Pending, AtRest, Awaits
    <3>3. Settled(c) BY <3>1, <3>2 DEF EscapeInv, WorkedOff
    <3> QED BY <2>2, <3>3 DEF Settled
  <2> QED BY <2>1, <2>2 DEF EscapeIsWhole, EscapeInv, FieldsEscaped
<1> QED BY <1>1, <1>2, <1>3, PTL DEF Spec

(***************************************************************************)
(* Calls: what is found to be due is on the agenda until it is done, and   *)
(* done from then on.                                                      *)
(***************************************************************************)
\* Which step makes a call.
LEMMA Dispatch ==
  ASSUME Step, agenda # <<>>
  PROVE  /\ Head(agenda).call = "set_facts" => SetFacts
         /\ Head(agenda).call = "join" => JoinClasses \/ JoinedAlready
         /\ Head(agenda).call = "register" => RegisterSite
         /\ Head(agenda).call = "apply_external_call" => ApplyExternalCall
         /\ Head(agenda).call = "publish_arguments" => PublishArguments
         /\ Head(agenda).call = "bind_indirect_call" => BindIndirectCall
         /\ Head(agenda).call = "bind_arguments" => BindArguments
BY DEF Step, SetFacts, PointeeKnown, PointeeMade, UnifyPointees, AddContentEdge, AddGepTransfer,
       JoinClasses, JoinedAlready, FieldKnown, FieldMade, ReplayTransfers, NothingToReplay,
       WidenSummary, ShiftTransfer, ShiftedFieldClass, EscapeAllocationFields, BindIndirectCall,
       BindArguments, ApplyExternalCall, PublishArguments, ApplyVarargCall, RegisterSite,
       ProcessClass, NextInAnyOrder, Calling

\* What only one kind of step changes.
LEMMA OnceStill ==
  ASSUME Next
  PROVE  /\ program' = program
         /\ ApplyExternalCall \/ externals' = externals
         /\ ProcessClass \/ (pairs' = pairs /\ published' = published)
         /\ ProcessClass \/ JoinClasses \/ opened' = opened
<1>1. CASE ReadEdge \/ RegisterCall \/ ReadSeed \/ ReadEntry \/ PopClass
  BY <1>1 DEF ReadEdge, RegisterCall, ReadSeed, ReadEntry, PopClass, readVars, classVars, knownVars,
              callVars, onceVars
<1>2. CASE SetFacts \/ PointeeKnown \/ PointeeMade \/ UnifyPointees \/ AddContentEdge
           \/ AddGepTransfer \/ JoinedAlready \/ FieldKnown \/ FieldMade
  BY <1>2 DEF SetFacts, PointeeKnown, PointeeMade, UnifyPointees, AddContentEdge, AddGepTransfer,
              JoinedAlready, FieldKnown, FieldMade, readVars, classVars, knownVars, callVars, onceVars
<1>3. CASE ReplayTransfers \/ NothingToReplay \/ WidenSummary \/ ShiftTransfer \/ ShiftedFieldClass
           \/ EscapeAllocationFields \/ BindIndirectCall \/ BindArguments
  BY <1>3 DEF ReplayTransfers, NothingToReplay, WidenSummary, ShiftTransfer, ShiftedFieldClass,
              EscapeAllocationFields, BindIndirectCall, BindArguments, readVars, classVars, knownVars,
              callVars, onceVars
<1>4. CASE PublishArguments \/ ApplyVarargCall \/ RegisterSite \/ NextInAnyOrder
  BY <1>4 DEF PublishArguments, ApplyVarargCall, RegisterSite, NextInAnyOrder, readVars,
              classVars, knownVars, callVars, onceVars
<1>5. CASE ApplyExternalCall
  BY <1>5 DEF ApplyExternalCall, readVars, callVars
<1>6. CASE ProcessClass
  <2>1. UNCHANGED <<readVars, externals>> BY <1>6 DEF ProcessClass
  <2> QED BY <1>6, <2>1 DEF readVars
<1>7. CASE JoinClasses
  <2>1. \E from, to : Merge(from, to) BY <1>7 DEF JoinClasses
  <2> QED BY <1>7, <2>1 DEF Merge, readVars, onceVars
<1> QED BY <1>1, <1>2, <1>3, <1>4, <1>5, <1>6, <1>7 DEF Next, Step

\* What has escaped stays escaped, however classes are joined.
LEMMA EscapedKept ==
  ASSUME TypeInv, EdgesOK, Next, NEW v \in Live, Escaped(v)
  PROVE  Escaped(v)'
<1>1. PICK y \in Class : TargetIs(v, y) /\ Escape \subseteq facts[rep[y]] BY DEF Escaped
<1>2. TargetIs(v, y)' /\ y \in Live BY <1>1, TargetKept
<1>3. facts[rep[y]] \subseteq facts'[rep'[y]] BY <1>2, Gains
<1> QED BY <1>1, <1>2, <1>3 DEF Escaped

\* A call stays registered at what its operand points to.
LEMMA RegisteredKept ==
  ASSUME TypeInv, EdgesOK, Next, NEW v \in Live, NEW site, Registered(v, site)
  PROVE  Registered(v, site)'
<1>1. PICK y \in Class : TargetIs(v, y) /\ site \in sites[rep[y]] BY DEF Registered
<1>2. TargetIs(v, y)' /\ y \in Live BY <1>1, TargetKept
<1>3. sites[rep[y]] \subseteq sites'[rep'[y]] BY <1>2, Gains
<1> QED BY <1>1, <1>2, <1>3 DEF Registered

\* Facts that are given arrive.
LEMMA GiveKept ==
  ASSUME TypeInv, EdgesOK, Next, NEW x \in Live, NEW names \in SUBSET FactNames, NEW labels,
         Awaits(agenda, Give(Of(x), names, labels))
  PROVE  Awaits(agenda', Give(Of(x), names, labels)) \/ names \subseteq facts'[rep'[x]]
<1> DEFINE call == Give(Of(x), names, labels)
<1>1. call.call = "set_facts" /\ call.call \in CallNames /\ call.of = Of(x) /\ call.names = names
  BY DEF Give, CallNames
<1> HIDE DEF call
<1> SUFFICES ASSUME agenda # <<>>, Head(agenda) = call, Step PROVE names \subseteq facts'[rep'[x]]
  BY <1>1, StepAwaits DEF call
<1>2. SetFacts BY <1>1, Dispatch
<1>3. \E l : Grant({Find(Of(x))} \X names, l) BY <1>1, <1>2 DEF SetFacts
<1>4. Find(Of(x)) = rep[x] BY DEF Find, Of
<1>5. rep' = rep BY <1>2 DEF SetFacts, graphVars
<1>6. rep[x] \in Class BY RepLive DEF TypeInv, Live
<1>7. names \subseteq GainedFacts({rep[x]} \X names, rep[x]) BY DEF GainedFacts
<1> QED BY <1>3, <1>4, <1>5, <1>6, <1>7 DEF Grant

\* What a pointer designates is published.
LEMMA PublishingKept ==
  ASSUME TypeInv, EdgesOK, Next, NEW v \in Live, Escaped(v) \/ Publishing(v)
  PROVE  Escaped(v)' \/ Publishing(v)'
<1> SUFFICES ASSUME Publishing(v) PROVE Escaped(v)' \/ Publishing(v)'
  BY EscapedKept
<1>1. PICK labels \in SUBSET Reasons : Awaits(agenda, Give(PointeeOf(v), Escape, labels))
  BY DEF Publishing
<1> DEFINE call == Give(PointeeOf(v), Escape, labels)
<1>2. /\ call.call = "set_facts" /\ call.call \in CallNames
      /\ call.of = PointeeOf(v) /\ call.names = Escape
  BY DEF Give, CallNames
<1> HIDE DEF call
<1>3. CASE Awaits(agenda', call) BY <1>3 DEF Publishing, call
<1>4. CASE agenda # <<>> /\ Head(agenda) = call /\ Step
  <2>1. SetFacts BY <1>2, <1>4, Dispatch
  <2>2. CallOK(program, Head(agenda), Resolved) BY <2>1, CalledOK DEF SetFacts, CallNames
  <2>3. PointeeOf(v) \in Resolved BY <1>2, <1>4, <2>2 DEF CallOK, Needed
  <2>4. PICK y : y = Find(PointeeOf(v))
    OBVIOUS
  <2>5. y = rep[pointee[rep[v]]] /\ pointee[rep[v]] # NoClass /\ y \in Live /\ rep[y] = y
    BY <2>3, <2>4, FindLive, TermsResolved DEF TypeInv, Find, PointeeOf
  <2>6. \E l : Grant({y} \X Escape, l) BY <1>2, <1>4, <2>1, <2>4 DEF SetFacts
  <2>7. UNCHANGED <<rep, pointee, spare>> BY <2>1 DEF SetFacts, graphVars
  <2>8. Escape \subseteq GainedFacts({y} \X Escape, y) BY DEF GainedFacts, Escape, FactNames
  <2>9. y \in Class /\ Escape \subseteq facts'[rep'[y]] BY <2>5, <2>6, <2>7, <2>8 DEF Grant, Live
  <2>10. TargetIs(v, y)' BY <2>5, <2>7 DEF TargetIs, Points, Same, Live
  <2> QED BY <2>9, <2>10 DEF Escaped
<1> QED BY <1>1, <1>2, <1>3, <1>4, StepAwaits DEF call

\* A call is registered at what its operand points to.
LEMMA RegisterKept ==
  ASSUME TypeInv, EdgesOK, Next, NEW site \in Sites, NEW v \in Live, v = program.operand[site],
         Awaits(agenda, Register(site)) \/ Registered(v, site)
  PROVE  Awaits(agenda', Register(site)) \/ Registered(v, site)'
<1> DEFINE call == Register(site)
<1>1. call.call = "register" /\ call.call \in CallNames /\ call.site = site
  BY DEF Register, CallNames
<1> HIDE DEF call
<1> SUFFICES ASSUME agenda # <<>>, Head(agenda) = call, Step PROVE Registered(v, site)'
  BY <1>1, RegisteredKept, StepAwaits DEF call
<1>2. RegisterSite BY <1>1, Dispatch
<1>3. CallOK(program, Head(agenda), Resolved) BY <1>2, CalledOK DEF RegisterSite, CallNames
<1>4. PointeeOf(v) \in Resolved BY <1>1, <1>3 DEF CallOK, Needed
<1>5. PICK y : y = Find(PointeeOf(v))
  OBVIOUS
<1>6. y = rep[pointee[rep[v]]] /\ pointee[rep[v]] # NoClass /\ y \in Live /\ rep[y] = y
  BY <1>4, <1>5, FindLive, TermsResolved DEF TypeInv, Find, PointeeOf
<1>7. sites' = [sites EXCEPT ![y] = @ \cup {site}] /\ UNCHANGED <<rep, pointee, spare>>
  BY <1>1, <1>2, <1>5 DEF RegisterSite, graphVars
<1>8. y \in Class /\ site \in sites'[rep'[y]] BY <1>6, <1>7 DEF Live, TypeInv, ContentOK
<1>9. TargetIs(v, y)' BY <1>6, <1>7 DEF TargetIs, Points, Same, Live
<1> QED BY <1>8, <1>9 DEF Registered

\* A value that is passed on arrives.
LEMMA FlowsKept ==
  ASSUME TypeInv, EdgesOK, Next, NEW src \in Values, NEW dst \in Values, Flows(src, dst)
  PROVE  Flows(src, dst)'
<1>1. src \in Live /\ dst \in Live /\ src \in Class /\ dst \in Class
  BY NodesLive DEF TypeInv
<1>2. program' = program BY OnceStill
<1>3. facts[rep[dst]] \subseteq facts'[rep'[dst]] BY <1>1, Gains
<1>4. CASE PassedTo(src, dst)
  <2>1. rep[src] = rep[dst] => rep'[src] = rep'[dst] BY <1>1, SameKept DEF Same
  <2> QED BY <1>2, <1>3, <1>4, <2>1 DEF Flows, PassedTo
<1>5. CASE src \notin program.empty /\ Awaits(agenda, Join(Of(src), Of(dst)))
  <2> DEFINE call == Join(Of(src), Of(dst))
  <2>1. call.call = "join" /\ call.call \in CallNames /\ call.left = Of(src) /\ call.right = Of(dst)
    BY DEF Join, CallNames
  <2> HIDE DEF call
  <2>2. CASE Awaits(agenda', call) BY <1>2, <1>5, <2>2 DEF Flows, call
  <2>3. CASE agenda # <<>> /\ Head(agenda) = call
    <3>1. Find(Of(src)) = rep[src] /\ Find(Of(dst)) = rep[dst] BY DEF Find, Of
    <3>2. Joining(src, dst) BY <2>1, <2>3, <3>1 DEF Joining, Calling
    <3>3. rep'[src] = rep'[dst] BY <1>1, <3>2, SameKept DEF Same
    <3> QED BY <1>2, <1>5, <3>3 DEF Flows, PassedTo
  <2> QED BY <1>5, <2>1, <2>2, <2>3, StepAwaits DEF call
<1>6. CASE src \in program.empty /\ Awaits(agenda, Give(Of(dst), {"empty"}, {}))
  <2>1. Awaits(agenda', Give(Of(dst), {"empty"}, {})) \/ {"empty"} \subseteq facts'[rep'[dst]]
    BY <1>1, <1>6, GiveKept DEF FactNames
  <2> QED BY <1>2, <1>6, <2>1 DEF Flows, PassedTo
<1> QED BY <1>4, <1>5, <1>6 DEF Flows

\* A call to outside is treated as one.
LEMMA ExternalKept ==
  ASSUME TypeInv, EdgesOK, Next, NEW site \in Sites, ExternalDue(site)
  PROVE  ExternalDue(site)'
<1> DEFINE call == ApplyExternal(site)
<1>1. call.call = "apply_external_call" /\ call.call \in CallNames /\ call.site = site
  BY DEF ApplyExternal, CallNames
<1>2. externals \subseteq externals' BY OnceStill DEF ApplyExternalCall
<1> HIDE DEF call
<1>3. ASSUME agenda # <<>>, Head(agenda) = call, Step PROVE site \in externals'
  BY <1>1, <1>3, Dispatch DEF ApplyExternalCall
<1> QED BY <1>1, <1>2, <1>3, StepAwaits DEF ExternalDue, call

\* Lists of one call and of two lists.
LEMMA AwaitsOne ==
  ASSUME NEW c
  PROVE  Awaits(<<c>>, c)
<1>1. DOMAIN <<c>> = {1} /\ <<c>>[1] = c
  OBVIOUS
<1> QED BY <1>1 DEF Awaits

\* Publishing gives the escape it is about.
LEMMA AwaitsPublish ==
  ASSUME NEW v, NEW labels
  PROVE  /\ \E k \in DOMAIN Publish(v, labels) :
              Publish(v, labels)[k] = Give(PointeeOf(v), Escape, labels)
         /\ Awaits(Publish(v, labels), Give(PointeeOf(v), Escape, labels))
<1> DEFINE give == Give(PointeeOf(v), Escape, labels)
           rest == <<Need(v), give>>
           calls == Publish(v, labels)
<1>1. DOMAIN rest = {1, 2} /\ rest[2] = give
  OBVIOUS
<1>2. Proper(rest) /\ Proper(EscapeExact(v, labels)) BY FewProper, PublishProper
<1>3. calls = EscapeExact(v, labels) \o rest BY DEF Publish
<1> HIDE DEF give, rest, calls
<1>4. \E k \in DOMAIN calls : calls[k] = give
  <2> DEFINE first == EscapeExact(v, labels)
  <2> HIDE DEF first
  <2>1. \A i \in DOMAIN rest : \E j \in DOMAIN (first \o rest) : (first \o rest)[j] = rest[i]
    BY <1>2, Parts DEF first
  <2> QED BY <1>1, <1>3, <2>1 DEF first
<1>5. Awaits(calls, give) BY <1>4 DEF Awaits
<1> QED BY <1>4, <1>5 DEF give, calls

\* A value is passed on from and to at most one place.
LEMMA TransferFlows ==
  ASSUME program' = program, NEW srcs, NEW dsts, AtMostOne(srcs), AtMostOne(dsts),
         \A call : Awaits(TransferAny(srcs, dsts), call) => Awaits(agenda', call),
         NEW v \in srcs, NEW x \in dsts
  PROVE  Flows(v, x)'
<1>1. v = (CHOOSE y \in srcs : TRUE) /\ x = (CHOOSE y \in dsts : TRUE) BY DEF AtMostOne
<1>2. TransferAny(srcs, dsts) = Transfer(v, x) BY <1>1 DEF TransferAny
<1>3. CASE ~PointerTransfer(program, v, x)
  BY <1>3 DEF Flows, PassedTo, PointerTransfer, Pointer
<1>4. CASE PointerTransfer(program, v, x) /\ v \in program.empty
  <2>1. Awaits(agenda', Give(Of(x), {"empty"}, {})) BY <1>2, <1>4, AwaitsOne DEF Transfer
  <2> QED BY <1>4, <2>1 DEF Flows
<1>5. CASE PointerTransfer(program, v, x) /\ v \notin program.empty
  <2>1. Awaits(agenda', Join(Of(v), Of(x))) BY <1>2, <1>5, AwaitsOne DEF Transfer
  <2> QED BY <1>5, <2>1 DEF Flows
<1> QED BY <1>3, <1>4, <1>5

\* The arguments of a call to outside are published one after the other, then
\* its result is external.
LEMMA PublishNext ==
  ASSUME TypeInv, EdgesOK, Next, NEW site \in Sites, NEW j \in Nat \ {0},
         Awaits(agenda, PublishFrom(site, j)), ~Awaits(agenda', PublishFrom(site, j))
  PROVE  /\ j \in DOMAIN Args(site) =>
              /\ Awaits(agenda', PublishFrom(site, j + 1))
              /\ \A v \in {Args(site)[j]} : v \in program.empty \/ Publishing(v)'
         /\ j \notin DOMAIN Args(site) =>
              \A v \in program.result[site] : Awaits(agenda', Give(Of(v), External, {}))
<1> DEFINE call == PublishFrom(site, j)
<1>1. /\ call.call = "publish_arguments" /\ call.call \in CallNames
      /\ call.site = site /\ call.from = j
  BY DEF PublishFrom, CallNames
<1> HIDE DEF call
<1>2. agenda # <<>> /\ Head(agenda) = call /\ PublishArguments
  BY <1>1, StepAwaits, Dispatch DEF call
<1>3. Proper(agenda) BY DEF TypeInv, AgendaOK
<1>4. CASE j \in DOMAIN Args(site)
  <2> DEFINE first == PublishArgument(site, Args(site)[j])
             next == <<PublishFrom(site, j + 1)>>
  <2>1. agenda' = (first \o next) \o Tail(agenda) BY <1>1, <1>2, <1>4 DEF PublishArguments, Then
  <2>2. Proper(first) /\ Proper(next) BY FewProper, PublishProper DEF PublishArgument
  <2>3. Awaits(next, PublishFrom(site, j + 1)) BY AwaitsOne
  <2> SUFFICES ASSUME NEW v \in {Args(site)[j]}
               PROVE  /\ Awaits(agenda', PublishFrom(site, j + 1))
                      /\ v \in program.empty \/ Publishing(v)'
    BY <1>4
  <2> DEFINE labels == {Label("external-call", site)}
  <2>4. v \notin program.empty => Awaits(first, Give(PointeeOf(v), Escape, labels))
    BY AwaitsPublish DEF PublishArgument
  <2>5. labels \in SUBSET Reasons BY LabelReason DEF LabelKinds
  <2> HIDE DEF first, next, labels
  <2>6. Proper(first \o next) BY <2>2, Concatenation
  <2>7. \A c : Awaits(first, c) \/ Awaits(next, c) => Awaits(agenda', c)
    BY <1>2, <1>3, <2>1, <2>2, <2>6, AwaitsAppend, AwaitsNew
  <2> QED BY <2>3, <2>4, <2>5, <2>7 DEF Publishing
<1>5. CASE j \notin DOMAIN Args(site)
  <2> SUFFICES ASSUME NEW v \in program.result[site]
               PROVE  Awaits(agenda', Give(Of(v), External, {}))
    BY <1>5
  <2>1. AtMostOne(program.result[site]) BY DEF TypeInv, ProgramOK
  <2>2. v = (CHOOSE x \in program.result[site] : TRUE) BY <2>1 DEF AtMostOne
  <2>3. agenda' = <<Give(Of(v), External, {})>> \o Tail(agenda)
    BY <1>1, <1>2, <1>5, <2>2 DEF PublishArguments, Then
  <2> QED BY <1>2, <1>3, <2>3, FewProper, AwaitsOne, AwaitsNew
<1> QED BY <1>4, <1>5

\* The arguments of a call are bound one after the other, then its result.
LEMMA BindNext ==
  ASSUME TypeInv, EdgesOK, Next, NEW site \in Sites, NEW f \in Functions, NEW j \in Nat \ {0},
         Awaits(agenda, BindFrom(site, f, j)), ~Awaits(agenda', BindFrom(site, f, j))
  PROVE  IF j \in DOMAIN Args(site) \cap DOMAIN Params(f)
           THEN /\ Awaits(agenda', BindFrom(site, f, j + 1))
                /\ \A a \in {Args(site)[j]}, v \in Params(f)[j] : Flows(a, v)'
           ELSE \A v \in program.ret[f], x \in program.result[site] : Flows(v, x)'
<1> DEFINE call == BindFrom(site, f, j)
<1>1. /\ call.call = "bind_arguments" /\ call.call \in CallNames
      /\ call.site = site /\ call.function = f /\ call.from = j
  BY DEF BindFrom, CallNames
<1> HIDE DEF call
<1>2. agenda # <<>> /\ Head(agenda) = call /\ BindArguments
  BY <1>1, StepAwaits, Dispatch DEF call
<1>3. Proper(agenda) /\ program' = program BY OnceStill DEF TypeInv, AgendaOK
<1>4. CASE j \in DOMAIN Args(site) \cap DOMAIN Params(f)
  <2> DEFINE first == TransferAny({Args(site)[j]}, Params(f)[j])
             next == <<BindFrom(site, f, j + 1)>>
  <2>1. agenda' = (first \o next) \o Tail(agenda) BY <1>1, <1>2, <1>4 DEF BindArguments, Then
  <2>2. Proper(first) /\ Proper(next) BY FewProper, TransferProper
  <2>3. Awaits(next, BindFrom(site, f, j + 1)) BY AwaitsOne
  <2> HIDE DEF first, next
  <2>4. Proper(first \o next) BY <2>2, Concatenation
  <2>5. \A c : Awaits(first, c) \/ Awaits(next, c) => Awaits(agenda', c)
    BY <1>2, <1>3, <2>1, <2>2, <2>4, AwaitsAppend, AwaitsNew
  <2>6. AtMostOne({Args(site)[j]}) BY DEF AtMostOne
  <2>7. AtMostOne(Params(f)[j]) BY <1>4 DEF TypeInv, ProgramOK, Params
  <2>8. ASSUME NEW a \in {Args(site)[j]}, NEW v \in Params(f)[j] PROVE Flows(a, v)'
    BY <1>3, <2>5, <2>6, <2>7, TransferFlows DEF first
  <2> QED BY <1>4, <2>3, <2>5, <2>8
<1>5. CASE j \notin DOMAIN Args(site) \cap DOMAIN Params(f)
  <2> DEFINE calls == TransferAny(program.ret[f], program.result[site])
  <2>1. agenda' = calls \o Tail(agenda) BY <1>1, <1>2, <1>5 DEF BindArguments, Then
  <2>2. Proper(calls) BY TransferProper
  <2>3. AtMostOne(program.ret[f]) /\ AtMostOne(program.result[site]) BY DEF TypeInv, ProgramOK
  <2> HIDE DEF calls
  <2>4. \A c : Awaits(calls, c) => Awaits(agenda', c) BY <1>2, <1>3, <2>1, <2>2, AwaitsNew
  <2>5. ASSUME NEW v \in program.ret[f], NEW x \in program.result[site] PROVE Flows(v, x)'
    BY <1>3, <2>3, <2>4, TransferFlows DEF calls
  <2> QED BY <1>5, <2>5
<1> QED BY <1>4, <1>5

\* An argument that goes outside is published, or stays to be.
LEMMA ArgumentKept ==
  ASSUME TypeInv, EdgesOK, Next, NEW site \in Sites, NEW i \in DOMAIN Args(site),
         NEW v \in {Args(site)[i]}, ArgumentOut(site, i, v)
  PROVE  ArgumentOut(site, i, v)'
<1>1. program' = program BY OnceStill
<1>2. Args(site) \in Seq(Values) BY DEF TypeInv, ProgramOK, Args
<1>3. i \in Nat \ {0} /\ DOMAIN Args(site) = 1 .. Len(Args(site)) /\ v \in Values BY <1>2
<1>4. v \in Live BY <1>3, NodesLive DEF TypeInv
<1>5. CASE v \in program.empty BY <1>1, <1>5 DEF ArgumentOut
<1>6. CASE Escaped(v) \/ Publishing(v) BY <1>4, <1>6, PublishingKept DEF ArgumentOut
<1>7. ASSUME NEW j \in 1 .. i, Awaits(agenda, PublishFrom(site, j)),
             ~Awaits(agenda', PublishFrom(site, j))
      PROVE  ArgumentOut(site, i, v)'
  <2>1. j \in Nat \ {0} /\ j \in DOMAIN Args(site) BY <1>2, <1>3
  <2>2. Awaits(agenda', PublishFrom(site, j + 1)) BY <1>7, <2>1, PublishNext
  <2>3. j # i => j + 1 \in 1 .. i BY <1>3
  <2>4. j = i => v \in program.empty \/ Publishing(v)' BY <1>7, <2>1, PublishNext
  <2> QED BY <1>1, <2>2, <2>3, <2>4 DEF ArgumentOut
<1> QED BY <1>5, <1>6, <1>7 DEF ArgumentOut

\* The result of a call to outside becomes external, or stays to be.
LEMMA ResultKept ==
  ASSUME TypeInv, EdgesOK, Next, NEW site \in Sites, NEW v \in program.result[site],
         ResultIn(site, v)
  PROVE  ResultIn(site, v)'
<1>1. v \in Values BY DEF TypeInv, ProgramOK
<1>2. v \in Live BY <1>1, NodesLive DEF TypeInv
<1>3. facts[rep[v]] \subseteq facts'[rep'[v]] BY <1>2, Gains
<1>4. CASE "ext" \in facts[rep[v]] BY <1>3, <1>4 DEF ResultIn
<1>5. CASE Awaits(agenda, Give(Of(v), External, {}))
  <2>1. Awaits(agenda', Give(Of(v), External, {})) \/ External \subseteq facts'[rep'[v]]
    BY <1>2, <1>5, GiveKept DEF External, FactNames
  <2> QED BY <2>1 DEF ResultIn, External
<1>6. ASSUME NEW j \in Nat \ {0}, Awaits(agenda, PublishFrom(site, j)),
             ~Awaits(agenda', PublishFrom(site, j))
      PROVE  ResultIn(site, v)'
  <2>1. j + 1 \in Nat \ {0}
    OBVIOUS
  <2> QED BY <1>6, <2>1, PublishNext DEF ResultIn, PublishDue
<1> QED BY <1>4, <1>5, <1>6 DEF ResultIn, PublishDue

\* An argument of a bound call is passed on, or stays to be.
LEMMA ArgumentBoundKept ==
  ASSUME TypeInv, EdgesOK, Next, NEW site \in Sites, NEW f \in Functions,
         NEW i \in DOMAIN Args(site) \cap DOMAIN Params(f),
         NEW a \in {Args(site)[i]}, NEW v \in Params(f)[i], ArgumentBound(site, f, i, a, v)
  PROVE  ArgumentBound(site, f, i, a, v)'
<1>1. Args(site) \in Seq(Values) /\ Params(f) \in Seq(SUBSET Values)
  BY DEF TypeInv, ProgramOK, Args, Params
<1>2. i \in Nat \ {0} /\ DOMAIN Args(site) = 1 .. Len(Args(site))
      /\ DOMAIN Params(f) = 1 .. Len(Params(f)) /\ a \in Values /\ v \in Values
  BY <1>1
<1>3. CASE Flows(a, v) BY <1>2, <1>3, FlowsKept DEF ArgumentBound
<1>4. ASSUME NEW j \in 1 .. i, Awaits(agenda, BindFrom(site, f, j)),
             ~Awaits(agenda', BindFrom(site, f, j))
      PROVE  ArgumentBound(site, f, i, a, v)'
  <2>1. j \in Nat \ {0} /\ j \in DOMAIN Args(site) \cap DOMAIN Params(f) BY <1>1, <1>2
  <2>2. Awaits(agenda', BindFrom(site, f, j + 1)) BY <1>4, <2>1, BindNext
  <2>3. j # i => j + 1 \in 1 .. i BY <1>2
  <2>4. j = i => Flows(a, v)' BY <1>4, <2>1, BindNext
  <2> QED BY <2>2, <2>3, <2>4 DEF ArgumentBound
<1> QED BY <1>3, <1>4 DEF ArgumentBound

\* So is the result.
LEMMA ResultBoundKept ==
  ASSUME TypeInv, EdgesOK, Next, NEW site \in Sites, NEW f \in Functions,
         NEW v \in program.ret[f], NEW x \in program.result[site], ResultBound(site, f, v, x)
  PROVE  ResultBound(site, f, v, x)'
<1>1. v \in Values /\ x \in Values BY DEF TypeInv, ProgramOK
<1>2. CASE Flows(v, x) BY <1>1, <1>2, FlowsKept DEF ResultBound
<1>3. ASSUME NEW j \in Nat \ {0}, Awaits(agenda, BindFrom(site, f, j)),
             ~Awaits(agenda', BindFrom(site, f, j))
      PROVE  ResultBound(site, f, v, x)'
  <2>1. j + 1 \in Nat \ {0}
    OBVIOUS
  <2> QED BY <1>3, <2>1, BindNext DEF ResultBound, BindDue
<1> QED BY <1>2, <1>3 DEF ResultBound, BindDue

\* A call stays bound.
LEMMA BoundKept ==
  ASSUME TypeInv, EdgesOK, Next, NEW site \in Sites, NEW f \in Functions, Bound(site, f)
  PROVE  Bound(site, f)'
<1>1. program' = program /\ Args(site)' = Args(site) /\ Params(f)' = Params(f)
  BY OnceStill DEF Args, Params
<1>2. f \in program.external => ExternalDue(site)' BY ExternalKept DEF Bound
<1>3. \A i \in DOMAIN Args(site) \cap DOMAIN Params(f) :
        \A a \in {Args(site)[i]}, v \in Params(f)[i] : ArgumentBound(site, f, i, a, v)'
  BY ArgumentBoundKept DEF Bound
<1>4. \A v \in program.ret[f], x \in program.result[site] : ResultBound(site, f, v, x)'
  BY ResultBoundKept DEF Bound
<1> QED BY <1>1, <1>2, <1>3, <1>4 DEF Bound

\* A call that is to be bound to a function is.
LEMMA BindKept ==
  ASSUME TypeInv, EdgesOK, Next, NEW site \in Sites, NEW f \in Functions,
         Awaits(agenda, Bind(site, f)) \/ Bound(site, f)
  PROVE  Awaits(agenda', Bind(site, f)) \/ Bound(site, f)'
<1> DEFINE call == Bind(site, f)
<1>1. /\ call.call = "bind_indirect_call" /\ call.call \in CallNames
      /\ call.site = site /\ call.function = f
  BY DEF Bind, CallNames
<1> HIDE DEF call
<1> SUFFICES ASSUME agenda # <<>>, Head(agenda) = call, Step PROVE Bound(site, f)'
  BY <1>1, BoundKept, StepAwaits DEF call
<1>2. BindIndirectCall /\ Proper(agenda) BY <1>1, Dispatch DEF TypeInv, AgendaOK
<1>3. program' = program /\ Args(site)' = Args(site) /\ Params(f)' = Params(f)
  BY OnceStill DEF Args, Params
<1> DEFINE first == IF f \in program.external THEN <<ApplyExternal(site)>> ELSE <<>>
           next == <<BindFrom(site, f, 1)>>
<1>4. agenda' = (first \o next) \o Tail(agenda) BY <1>1, <1>2 DEF BindIndirectCall, Then
<1>5. Proper(first) /\ Proper(next) BY FewProper
<1>6. Awaits(next, BindFrom(site, f, 1)) BY AwaitsOne
<1>7. f \in program.external => Awaits(first, ApplyExternal(site)) BY AwaitsOne
<1> HIDE DEF first, next
<1>8. Proper(first \o next) BY <1>5, Concatenation
<1>9. \A c : Awaits(first, c) \/ Awaits(next, c) => Awaits(agenda', c)
  BY <1>2, <1>4, <1>5, <1>8, AwaitsAppend, AwaitsNew
<1>10. f \in program.external => ExternalDue(site)' BY <1>7, <1>9 DEF ExternalDue
<1>11. \A i \in DOMAIN Args(site) \cap DOMAIN Params(f) :
         \A a \in {Args(site)[i]}, v \in Params(f)[i] : ArgumentBound(site, f, i, a, v)'
  <2> SUFFICES ASSUME NEW i \in DOMAIN Args(site) PROVE 1 \in 1 .. i
    BY <1>6, <1>9 DEF ArgumentBound
  <2>1. Args(site) \in Seq(Values) BY DEF TypeInv, ProgramOK, Args
  <2> QED BY <2>1
<1>12. \A v \in program.ret[f], x \in program.result[site] : ResultBound(site, f, v, x)'
  <2>1. 1 \in Nat \ {0}
    OBVIOUS
  <2> QED BY <1>6, <1>9, <2>1 DEF ResultBound, BindDue
<1> QED BY <1>3, <1>10, <1>11, <1>12 DEF Bound

\* What a class that is worked off leaves to be done.
LEMMA ProcessCalls ==
  ASSUME TypeInv, EdgesOK, ProcessClass, NEW c, c = rep[Head(agenda).of]
  PROVE  /\ \A v \in ReturnedBy(NowPublished(c)) :
              Awaits(agenda', Give(PointeeOf(v), Escape, sources[c]))
         /\ \A s \in NowOpened(c) : Awaits(agenda', ApplyExternal(s))
         /\ \A b \in (NewPairs(c) \ pairs) \cap program.compatible : Awaits(agenda', Bind(b[1], b[2]))
<1> DEFINE bindings == (NewPairs(c) \ pairs) \cap program.compatible
           publish == {Publish(v, sources[c]) : v \in ReturnedBy(NowPublished(c))}
           open == {<<ApplyExternal(s)>> : s \in NowOpened(c)}
           bind == {<<Bind(b[1], b[2])>> : b \in bindings}
<1>1. ASSUME NEW v \in ReturnedBy(NowPublished(c))
      PROVE  Awaits(AnyOrder(publish), Give(PointeeOf(v), Escape, sources[c]))
  BY AwaitsAnyOrder, AwaitsPublish
<1>2. ASSUME NEW s \in NowOpened(c) PROVE Awaits(AnyOrder(open), ApplyExternal(s))
  <2>1. DOMAIN <<ApplyExternal(s)>> = {1} /\ <<ApplyExternal(s)>>[1] = ApplyExternal(s)
    OBVIOUS
  <2>2. <<ApplyExternal(s)>> \in open
    OBVIOUS
  <2> QED BY <2>1, <2>2, AwaitsAnyOrder
<1>3. ASSUME NEW b \in bindings PROVE Awaits(AnyOrder(bind), Bind(b[1], b[2]))
  <2> DEFINE call == Bind(b[1], b[2])
  <2>1. <<call>> \in bind
    OBVIOUS
  <2> HIDE DEF call, bind
  <2>2. DOMAIN <<call>> = {1} /\ <<call>>[1] = call
    OBVIOUS
  <2>3. Awaits(AnyOrder(bind), call) BY <2>1, <2>2, AwaitsAnyOrder
  <2> QED BY <2>3 DEF call
<1>4. agenda' = (AnyOrder(publish) \o AnyOrder(open) \o AnyOrder(bind)) \o Tail(agenda)
  BY DEF ProcessClass, Then
<1>5. agenda # <<>> /\ Proper(agenda) BY DEF ProcessClass, Calling, TypeInv, AgendaOK
<1>6. Proper(AnyOrder(publish)) /\ Proper(AnyOrder(open)) /\ Proper(AnyOrder(bind)) BY BatchesProper
<1> HIDE DEF publish, open, bind
<1>7. Proper(AnyOrder(publish) \o AnyOrder(open)) BY <1>6, Concatenation
<1>8. Proper(AnyOrder(publish) \o AnyOrder(open) \o AnyOrder(bind)) BY <1>6, <1>7, Concatenation
<1>9. \A call : \/ Awaits(AnyOrder(publish), call) \/ Awaits(AnyOrder(open), call)
                \/ Awaits(AnyOrder(bind), call)
                => Awaits(agenda', call)
  BY <1>4, <1>5, <1>6, <1>7, <1>8, AwaitsAppend, AwaitsNew
<1> QED BY <1>1, <1>2, <1>3, <1>9

\* A call not yet read stays to be read.
LEMMA TodoStill ==
  ASSUME TypeInv, Next, ~RegisterCall
  PROVE  todo'.calls = todo.calls
<1>1. TodoOK BY DEF TypeInv
<1>2. CASE ReadEdge \/ ReadSeed \/ ReadEntry \/ PopClass
  <2>1. \/ todo' = todo
        \/ \E x : todo' = [todo EXCEPT !.edges = x]
        \/ \E x : todo' = [todo EXCEPT !.seeds = x]
        \/ \E x : todo' = [todo EXCEPT !.entry = x]
    BY <1>2 DEF ReadEdge, ReadSeed, ReadEntry, PopClass, readVars
  <2> QED BY <1>1, <2>1 DEF TodoOK
<1>3. CASE SetFacts \/ PointeeKnown \/ PointeeMade \/ UnifyPointees \/ AddContentEdge
           \/ AddGepTransfer \/ JoinedAlready \/ FieldKnown \/ FieldMade
  BY <1>3 DEF SetFacts, PointeeKnown, PointeeMade, UnifyPointees, AddContentEdge, AddGepTransfer,
              JoinedAlready, FieldKnown, FieldMade, readVars
<1>4. CASE ReplayTransfers \/ NothingToReplay \/ WidenSummary \/ ShiftTransfer \/ ShiftedFieldClass
           \/ EscapeAllocationFields \/ BindIndirectCall \/ BindArguments
  BY <1>4 DEF ReplayTransfers, NothingToReplay, WidenSummary, ShiftTransfer, ShiftedFieldClass,
              EscapeAllocationFields, BindIndirectCall, BindArguments, readVars
<1>5. CASE ApplyExternalCall \/ PublishArguments \/ ApplyVarargCall \/ RegisterSite \/ NextInAnyOrder
  BY <1>5 DEF ApplyExternalCall, PublishArguments, ApplyVarargCall, RegisterSite, NextInAnyOrder, readVars
<1>6. CASE ProcessClass
  <2>1. UNCHANGED readVars BY <1>6 DEF ProcessClass
  <2> QED BY <2>1 DEF readVars
<1>7. CASE JoinClasses
  <2>1. \E from, to : Merge(from, to) BY <1>7 DEF JoinClasses
  <2> QED BY <2>1 DEF Merge, readVars
<1> QED BY <1>2, <1>3, <1>4, <1>5, <1>6, <1>7 DEF Next, Step

\* Every call is read, registered or still to be.
LEMMA CallsRegisteredKept ==
  ASSUME TypeInv, EdgesOK, Next, CallsRegistered
  PROVE  CallsRegistered'
<1>1. program' = program /\ IndirectCalls' = IndirectCalls
  BY OnceStill DEF IndirectCalls, IsEmpty
<1> SUFFICES ASSUME NEW site \in IndirectCalls, NEW v \in {program.operand[site]}
             PROVE  \/ \E i \in DOMAIN todo'.calls : todo'.calls[i] = site
                    \/ Awaits(agenda', Register(site))
                    \/ Registered(v, site)'
  BY <1>1 DEF CallsRegistered
<1>2. site \in Sites /\ ~IsEmpty(v) BY DEF IndirectCalls, Listed, TypeInv, ProgramOK
<1>3. v \in Live
  <2>1. v \in Values BY <1>2 DEF TypeInv, ProgramOK
  <2> QED BY <2>1, NodesLive DEF TypeInv
<1>4. CASE Awaits(agenda, Register(site)) \/ Registered(v, site)
  BY <1>2, <1>3, <1>4, RegisterKept
<1>5. ASSUME NEW i \in DOMAIN todo.calls, todo.calls[i] = site, RegisterCall
      PROVE  \/ \E k \in DOMAIN todo'.calls : todo'.calls[k] = site
             \/ Awaits(agenda', Register(site))
  <2>1. /\ todo.calls # <<>> /\ todo' = [todo EXCEPT !.calls = Tail(@)]
        /\ agenda' = IF IsEmpty(program.operand[Head(todo.calls)]) THEN <<>>
                     ELSE <<Need(program.operand[Head(todo.calls)]), Register(Head(todo.calls))>>
    BY <1>5 DEF RegisterCall
  <2>2. todo.calls \in Seq(Sites) /\ todo'.calls = Tail(todo.calls)
    BY <2>1 DEF TypeInv, TodoOK
  <2>3. CASE i = 1
    <3> DEFINE s == <<Need(v), Register(site)>>
    <3>1. Head(todo.calls) = site BY <1>5, <2>1, <2>2, <2>3
    <3>2. agenda' = s /\ DOMAIN s = {1, 2} /\ s[2] = Register(site) BY <1>2, <2>1, <3>1
    <3> HIDE DEF s
    <3> QED BY <3>2 DEF Awaits
  <2>4. CASE i # 1
    <3>1. i - 1 \in DOMAIN Tail(todo.calls) /\ Tail(todo.calls)[i - 1] = site
      BY <1>5, <2>1, <2>2, <2>4
    <3> QED BY <2>2, <3>1
  <2> QED BY <2>3, <2>4
<1> QED BY <1>4, <1>5, TodoStill DEF CallsRegistered

\* A call found to be external is treated as one, in whichever class it is now.
LEMMA OpenedKept ==
  ASSUME TypeInv, EdgesOK, Next, OpenedDone
  PROVE  OpenedDone'
<1>1. ASSUME NEW c \in Class, NEW site \in opened[c] PROVE ExternalDue(site)'
  <2>1. site \in Sites BY DEF TypeInv, ContentOK
  <2> QED BY <2>1, ExternalKept DEF OpenedDone
<1> SUFFICES ASSUME NEW c \in Class, NEW site \in opened'[c] PROVE ExternalDue(site)'
  BY DEF OpenedDone
<1>2. CASE ProcessClass
  <2>1. PICK d : d = rep[Head(agenda).of]
    OBVIOUS
  <2>2. opened' = [opened EXCEPT ![d] = @ \cup NowOpened(d)] BY <1>2, <2>1 DEF ProcessClass
  <2>3. site \in opened[c] \/ site \in NowOpened(d) BY <2>2 DEF TypeInv, ContentOK
  <2>4. site \in NowOpened(d) => Awaits(agenda', ApplyExternal(site)) BY <1>2, <2>1, ProcessCalls
  <2> QED BY <1>1, <2>3, <2>4 DEF ExternalDue
<1>3. CASE JoinClasses
  <2>1. PICK from \in Live, to \in Live :
          rep[from] = from /\ rep[to] = to /\ from # to /\ Merge(from, to)
    BY <1>3, JoinMerges
  <2>2. /\ \A d \in Class \ {from, to} : opened'[d] = opened[d]
        /\ from \in Class /\ to \in Class
        /\ opened'[from] = {} /\ opened'[to] = opened[to] \cup opened[from]
    BY <2>1, MergeTables
  <2>3. site \in opened[c] \/ site \in opened[from] BY <2>2
  <2> QED BY <1>1, <2>2, <2>3
<1> QED BY <1>1, <1>2, <1>3, OnceStill

\* A call treated as external has its arguments and result given away.
LEMMA ExternalsKept ==
  ASSUME TypeInv, EdgesOK, Next, ExternalsDone
  PROVE  ExternalsDone'
<1>1. program' = program /\ \A site : Args(site)' = Args(site) BY OnceStill DEF Args
<1> SUFFICES ASSUME NEW site \in externals'
             PROVE  /\ \A i \in DOMAIN Args(site) : \A v \in {Args(site)[i]} : ArgumentOut(site, i, v)'
                    /\ \A v \in program.result[site] : ResultIn(site, v)'
  BY <1>1 DEF ExternalsDone
<1>2. CASE site \in externals
  <2>1. site \in Sites BY <1>2 DEF TypeInv, OnceOK
  <2> QED BY <1>2, <2>1, ArgumentKept, ResultKept DEF ExternalsDone
<1>3. CASE site \notin externals
  <2>1. ApplyExternalCall BY <1>3, OnceStill
  <2>2. site = Head(agenda).site /\ agenda # <<>> /\ agenda' = <<PublishFrom(site, 1)>> \o Tail(agenda)
    BY <1>3, <2>1 DEF ApplyExternalCall, Calling, Then
  <2>3. Proper(agenda) BY DEF TypeInv, AgendaOK
  <2>4. Awaits(agenda', PublishFrom(site, 1)) BY <2>2, <2>3, FewProper, AwaitsOne, AwaitsNew
  <2>5. site \in Sites
    BY <2>1, <2>2, CalledOK DEF ApplyExternalCall, CallNames, CallOK, Typed
  <2>6. \A i \in DOMAIN Args(site) : 1 \in 1 .. i
    <3>1. Args(site) \in Seq(Values) BY <2>5 DEF TypeInv, ProgramOK, Args
    <3> QED BY <3>1
  <2>7. 1 \in Nat \ {0}
    OBVIOUS
  <2> QED BY <2>4, <2>6, <2>7 DEF ArgumentOut, ResultIn, PublishDue
<1> QED BY <1>2, <1>3

\* A pair once considered is bound.
LEMMA PairsKept ==
  ASSUME TypeInv, EdgesOK, Next, PairsDone
  PROVE  PairsDone'
<1>1. program' = program BY OnceStill
<1> SUFFICES ASSUME NEW site \in Sites, NEW f \in Functions,
                    <<site, f>> \in pairs' \cap program.compatible
             PROVE  Awaits(agenda', Bind(site, f)) \/ Bound(site, f)'
  BY <1>1 DEF PairsDone
<1>2. CASE <<site, f>> \in pairs BY <1>2, BindKept DEF PairsDone
<1>3. CASE <<site, f>> \notin pairs
  <2>1. ProcessClass BY <1>3, OnceStill
  <2>2. PICK c : c = rep[Head(agenda).of]
    OBVIOUS
  <2>3. pairs' = pairs \cup NewPairs(c) BY <2>1, <2>2 DEF ProcessClass
  <2>4. <<site, f>> \in (NewPairs(c) \ pairs) \cap program.compatible BY <1>3, <2>3
  <2>5. \A b \in (NewPairs(c) \ pairs) \cap program.compatible : Awaits(agenda', Bind(b[1], b[2]))
    BY <2>1, <2>2, ProcessCalls
  <2>6. Awaits(agenda', Bind(<<site, f>>[1], <<site, f>>[2])) BY <2>4, <2>5
  <2> QED BY <2>6
<1> QED BY <1>2, <1>3

\* A function once published takes its parameters from outside.
LEMMA PublishedKept ==
  ASSUME TypeInv, EdgesOK, Next, PublishedDone
  PROVE  PublishedDone'
<1>1. program' = program /\ \A f : Params(f)' = Params(f) BY OnceStill DEF Params
<1> SUFFICES ASSUME NEW f \in published'
             PROVE  /\ \A i \in DOMAIN Params(f) : \A v \in Params(f)[i] : "ext" \in facts'[rep'[v]]
                    /\ \A v \in program.ret[f] \ program.empty : Escaped(v)' \/ Publishing(v)'
  BY <1>1 DEF PublishedDone
<1>2. Values \subseteq Live BY NodesLive DEF TypeInv
<1>3. CASE f \in published
  <2>1. f \in Functions BY <1>3 DEF TypeInv, OnceOK
  <2>2. \A i \in DOMAIN Params(f) : \A v \in Params(f)[i] : v \in Values
    <3>1. Params(f) \in Seq(SUBSET Values) BY <2>1 DEF TypeInv, ProgramOK, Params
    <3> QED BY <3>1
  <2>3. \A v \in program.ret[f] : v \in Values BY <2>1 DEF TypeInv, ProgramOK
  <2>4. \A i \in DOMAIN Params(f) : \A v \in Params(f)[i] : "ext" \in facts'[rep'[v]]
    BY <1>2, <1>3, <2>2, Gains DEF PublishedDone
  <2>5. \A v \in program.ret[f] \ program.empty : Escaped(v)' \/ Publishing(v)'
    BY <1>2, <1>3, <2>3, PublishingKept DEF PublishedDone
  <2> QED BY <2>4, <2>5
<1>4. CASE f \notin published
  <2>1. ProcessClass BY <1>4, OnceStill
  <2>2. PICK c : c = rep[Head(agenda).of]
    OBVIOUS
  <2>3. /\ c \in Class /\ Grant(ProcessGiven(c), ProcessLabels(c)) /\ rep' = rep
        /\ published' = published \cup NowPublished(c) /\ NowPublished(c) \subseteq Functions
    BY <2>1, <2>2, ProcessTables DEF graphVars
  <2>4. f \in NowPublished(c) /\ f \in Functions BY <1>4, <2>3
  <2>5. ASSUME NEW i \in DOMAIN Params(f), NEW v \in Params(f)[i] PROVE "ext" \in facts'[rep'[v]]
    <3>1. rep[v] \in ParametersOf(NowPublished(c)) BY <2>4 DEF ParametersOf
    <3>2. rep[v] \in Class BY <2>3, <3>1, ParametersLive DEF Live
    <3>3. "ext" \in GainedFacts(ProcessGiven(c), rep[v])
      BY <3>1 DEF GainedFacts, ProcessGiven, External, FactNames
    <3> QED BY <2>3, <3>2, <3>3 DEF Grant
  <2>6. ASSUME NEW v \in program.ret[f] \ program.empty PROVE Publishing(v)'
    <3>1. v \in ReturnedBy(NowPublished(c)) BY <2>4 DEF ReturnedBy
    <3>2. Awaits(agenda', Give(PointeeOf(v), Escape, sources[c])) BY <2>1, <2>2, <3>1, ProcessCalls
    <3>3. sources[c] \in SUBSET Reasons BY <2>3, EscapedReason
    <3> QED BY <3>2, <3>3 DEF Publishing
  <2> QED BY <2>5, <2>6
<1> QED BY <1>3, <1>4

\* Every step keeps the account of calls.
LEMMA NextCalls ==
  ASSUME TypeInv, EdgesOK, CallsInv, Next
  PROVE  CallsInv'
BY CallsRegisteredKept, OpenedKept, ExternalsKept, PairsKept, PublishedKept DEF CallsInv

\* So does a step that changes nothing.
LEMMA StutterCalls ==
  ASSUME CallsInv, UNCHANGED vars
  PROVE  CallsInv'
<1>1. UNCHANGED <<program, todo, agenda, rep, spare, pointee, facts, sites, opened, pairs, externals,
                  published>>
  BY DEF vars, readVars, classVars, knownVars, graphVars, factVars, callVars, onceVars
<1>2. CallsRegistered'
  <2>1. \A v, site : Registered(v, site)' <=> Registered(v, site)
    BY <1>1 DEF Registered, TargetIs, Points, Same, Joining, Calling, Find, Live
  <2>2. IndirectCalls' = IndirectCalls BY <1>1 DEF IndirectCalls, IsEmpty
  <2> QED BY <1>1, <2>1, <2>2 DEF CallsInv, CallsRegistered
<1>3. OpenedDone' BY <1>1 DEF CallsInv, OpenedDone, ExternalDue
<1>4. /\ \A v : Escaped(v)' <=> Escaped(v)
      /\ \A v : Publishing(v)' <=> Publishing(v)
      /\ \A v, x : Flows(v, x)' <=> Flows(v, x)
  <2>1. \A v : Escaped(v)' <=> Escaped(v)
    BY <1>1 DEF Escaped, TargetIs, Points, Same, Joining, Calling, Find, Live
  <2>2. \A v : Publishing(v)' <=> Publishing(v) BY <1>1 DEF Publishing
  <2>3. \A v, x : Flows(v, x)' <=> Flows(v, x)
    BY <1>1 DEF Flows, PassedTo, PointerTransfer, Pointer
  <2> QED BY <2>1, <2>2, <2>3
<1>5. ExternalsDone'
  BY <1>1, <1>4 DEF CallsInv, ExternalsDone, ArgumentOut, ResultIn, PublishDue, Args
<1>6. PairsDone'
  BY <1>1, <1>4 DEF CallsInv, PairsDone, Bound, ArgumentBound, ResultBound, BindDue, ExternalDue, Args,
                    Params
<1>7. PublishedDone' BY <1>1, <1>4 DEF CallsInv, PublishedDone, Params
<1> QED BY <1>2, <1>3, <1>5, <1>6, <1>7 DEF CallsInv

\* At rest nothing is due any more, and a pointer points where it is known to.
LEMMA RestTargets ==
  ASSUME TypeInv, EscapeInv, AtRest
  PROVE  /\ \A call : ~Awaits(agenda, call)
         /\ \A c \in Live : rep[c] = c => Settled(c)
         /\ \A v, y : TargetIs(v, y) =>
              TargetsOf(v) = {rep[y]} /\ rep[y] \in Live /\ rep[rep[y]] = rep[y]
<1>1. \A call : ~Awaits(agenda, call) BY DEF AtRest, Awaits
<1>2. \A c \in Live : rep[c] = c => Settled(c)
  BY <1>1 DEF AtRest, EscapeInv, WorkedOff, Pending
<1>3. ASSUME NEW v, NEW y, TargetIs(v, y)
      PROVE  TargetsOf(v) = {rep[y]} /\ rep[y] \in Live /\ rep[rep[y]] = rep[y]
  <2>1. ~Calling("join") BY DEF AtRest, Calling
  <2>2. pointee[rep[v]] # NoClass /\ y \in Live /\ rep[pointee[rep[v]]] = rep[y]
    BY <1>3, <2>1 DEF TargetIs, Points, Same, Joining
  <2> QED BY <2>2, RepLive DEF TypeInv, TargetsOf
<1> QED BY <1>1, <1>2, <1>3

\* At rest, a call is registered where its operand points, and is bound to what
\* is there.
LEMMA RestRegistered ==
  ASSUME TypeInv, EscapeInv, CallsInv, AtRest, NEW site \in IndirectCalls,
         NEW c \in TargetsOf(program.operand[site])
  PROVE  /\ site \in Sites /\ c \in Class
         /\ "ext" \in facts[c] => site \in externals
         /\ \A f \in fns[c] : <<site, f>> \in program.compatible =>
              f \in Functions /\ Bound(site, f)
<1>1. \A call : ~Awaits(agenda, call) BY RestTargets
<1>2. \A i \in DOMAIN todo.calls : FALSE BY DEF AtRest, AllRead
<1>3. Registered(program.operand[site], site) BY <1>1, <1>2 DEF CallsInv, CallsRegistered
<1>4. PICK y \in Class : TargetIs(program.operand[site], y) /\ site \in sites[rep[y]]
  BY <1>3 DEF Registered
<1>5. TargetsOf(program.operand[site]) = {rep[y]} /\ rep[y] \in Live /\ rep[rep[y]] = rep[y]
  BY <1>4, RestTargets
<1>6. c = rep[y] /\ c \in Class /\ Settled(c) BY <1>5, RestTargets DEF Live
<1>7. site \in Sites /\ fns[c] \subseteq Functions
  BY <1>4, <1>6 DEF TypeInv, ContentOK
<1>8. "ext" \in facts[c] => site \in externals
  BY <1>1, <1>4, <1>6 DEF Settled, CallsInv, OpenedDone, ExternalDue
<1>9. ASSUME NEW f \in fns[c], <<site, f>> \in program.compatible PROVE Bound(site, f)
  <2>1. <<site, f>> \in pairs BY <1>4, <1>6 DEF Settled
  <2> QED BY <1>1, <1>7, <1>9, <2>1 DEF CallsInv, PairsDone
<1> QED BY <1>6, <1>7, <1>8, <1>9

\* At rest indirect calls are bound.
LEMMA RestBound ==
  ASSUME TypeInv, EscapeInv, CallsInv, AtRest
  PROVE  CallsBound
<1>1. \A call : ~Awaits(agenda, call) BY RestTargets
<1> SUFFICES ASSUME NEW site \in IndirectCalls, NEW c \in TargetsOf(program.operand[site]),
                    NEW f \in fns[c], <<site, f>> \in program.compatible
             PROVE  /\ \A i \in DOMAIN Args(site) \cap DOMAIN Params(f) :
                         \A v \in Params(f)[i] : PassedTo(Args(site)[i], v)
                    /\ \A v \in program.ret[f], x \in program.result[site] : PassedTo(v, x)
  BY DEF CallsBound
<1>2. Bound(site, f) BY RestRegistered
<1>3. \A v, x : Flows(v, x) => PassedTo(v, x) BY <1>1 DEF Flows
<1>4. \A i \in DOMAIN Args(site) \cap DOMAIN Params(f) :
        \A v \in Params(f)[i] : PassedTo(Args(site)[i], v)
  BY <1>1, <1>2, <1>3 DEF Bound, ArgumentBound
<1>5. \A v \in program.ret[f], x \in program.result[site] : PassedTo(v, x)
  BY <1>1, <1>2, <1>3 DEF Bound, ResultBound, BindDue
<1> QED BY <1>4, <1>5

\* At rest unknown calls have published and escaped functions are open.
LEMMA RestPublished ==
  ASSUME TypeInv, EscapeInv, CallsInv, AtRest
  PROVE  UnknownCallsPublish /\ EscapedFunctionsAreOpen
<1>1. \A call : ~Awaits(agenda, call) BY RestTargets
<1>2. ASSUME NEW v, Escaped(v) \/ Publishing(v) PROVE \E d \in TargetsOf(v) : Escape \subseteq facts[d]
  <2>1. Escaped(v) BY <1>1, <1>2 DEF Publishing
  <2>2. PICK y \in Class : TargetIs(v, y) /\ Escape \subseteq facts[rep[y]] BY <2>1 DEF Escaped
  <2> QED BY <2>2, RestTargets
<1>3. UnknownCallsPublish
  <2> SUFFICES ASSUME NEW site \in IndirectCalls, NEW c \in TargetsOf(program.operand[site]),
                      MayLeave(site, c)
               PROVE  /\ \A i \in DOMAIN Args(site) :
                           \/ Args(site)[i] \in program.empty
                           \/ \E d \in TargetsOf(Args(site)[i]) : Escape \subseteq facts[d]
                      /\ \A v \in program.result[site] : "ext" \in facts[rep[v]]
    BY DEF UnknownCallsPublish
  <2>1. site \in externals
    <3>1. CASE "ext" \in facts[c] BY <3>1, RestRegistered
    <3>2. ASSUME NEW f \in fns[c] \cap program.external, <<site, f>> \in program.compatible
          PROVE  site \in externals
      <4>1. Bound(site, f) BY <3>2, RestRegistered
      <4> QED BY <1>1, <4>1 DEF Bound, ExternalDue
    <3> QED BY <3>1, <3>2 DEF MayLeave
  <2>2. \A i \in DOMAIN Args(site) :
          \/ Args(site)[i] \in program.empty
          \/ \E d \in TargetsOf(Args(site)[i]) : Escape \subseteq facts[d]
    BY <1>1, <1>2, <2>1 DEF CallsInv, ExternalsDone, ArgumentOut
  <2>3. \A v \in program.result[site] : "ext" \in facts[rep[v]]
    BY <1>1, <2>1 DEF CallsInv, ExternalsDone, ResultIn, PublishDue
  <2> QED BY <2>2, <2>3
<1>4. EscapedFunctionsAreOpen
  <2> SUFFICES ASSUME NEW c \in Roots, "esc" \in facts[c], NEW f \in fns[c]
               PROVE  /\ \A i \in DOMAIN Params(f) : \A v \in Params(f)[i] : "ext" \in facts[rep[v]]
                      /\ \A v \in program.ret[f] \ program.empty :
                           \E d \in TargetsOf(v) : Escape \subseteq facts[d]
    BY DEF EscapedFunctionsAreOpen
  <2>1. c \in Live /\ rep[c] = c BY DEF Roots, Live
  <2>2. f \in published BY <2>1, RestTargets DEF Settled
  <2> QED BY <1>2, <2>2 DEF CallsInv, PublishedDone
<1> QED BY <1>3, <1>4

(***************************************************************************)
(* For every program, once the solver has stopped every way control can    *)
(* enter or leave is accounted for: an indirect call is bound to every     *)
(* compatible function its operand may point to, a call that may go        *)
(* outside has published its arguments, and a function foreign code can    *)
(* reach is open, in whatever order calls and functions came to a class    *)
(* and however often classes were joined on the way (process_class,        *)
(* consider_indirect_pair, bind_indirect_call, apply_external_call, join). *)
(***************************************************************************)
THEOREM ControlClosed == Spec => []CallsClosed
<1>1. Init => TypeInv /\ EdgesOK /\ EscapeInv /\ CallsInv
  <2>1. Init => EdgesOK BY DEF Init, EdgesOK
  <2> QED BY <2>1, InitTypes, InitSettled
<1>2. TypeInv /\ EdgesOK /\ EscapeInv /\ CallsInv /\ [Next]_vars
      => TypeInv' /\ EdgesOK' /\ EscapeInv' /\ CallsInv'
  BY NextTypes, StutterTypes, NextEscape, StutterEscape, NextCalls, StutterCalls DEF StepTypes
<1>3. TypeInv /\ EscapeInv /\ CallsInv => CallsClosed
  <2>1. ~AtRest => CallsClosed
    BY DEF CallsClosed, CallsBound, UnknownCallsPublish, EscapedFunctionsAreOpen
  <2> QED BY <2>1, RestBound, RestPublished DEF CallsClosed
<1> QED BY <1>1, <1>2, <1>3, PTL DEF Spec

(***************************************************************************)
(* Values and locations, and null constants.                               *)
(*                                                                         *)
(* Whether two classes may be joined is seen from the terms of the call:   *)
(* what is pointed to and what is a region of an allocation is a location, *)
(* and so is a class that holds regions, functions or shifts.              *)
(***************************************************************************)
Place(t) == t[1] # "class" \/ t[2] \notin Values
Clear(nulls, t) == t[1] = "class" => t[2] \notin nulls

Sound(nulls, call) ==
  /\ call.call = "pointee_of" => call.of \notin nulls
  /\ call.call = "join" =>
       /\ Place(call.left) <=> Place(call.right)
       /\ Clear(nulls, call.left) /\ Clear(nulls, call.right)
  /\ call.call = "unify_pointees" => Clear(nulls, call.left) /\ Clear(nulls, call.right)
  /\ call.call = "add_content_edge" => Clear(nulls, call.dst)
  /\ call.call = "add_gep_transfer" => call.dst \notin nulls
  /\ call.call = "set_facts" =>
       Clear(nulls, call.of) /\ (call.names \cap Escape # {} => Place(call.of))
  /\ call.call \in {"shift", "widen"} => call.of \notin Values

OneSound(nulls, call) == call.call # "in_any_order" /\ Sound(nulls, call)
BatchSound(nulls, b) == Proper(b) /\ \A i \in DOMAIN b : OneSound(nulls, b[i])
ListSound(nulls, s) ==
  /\ Proper(s)
  /\ \A i \in DOMAIN s :
       \/ OneSound(nulls, s[i])
       \/ s[i].call = "in_any_order" /\ \A b \in s[i].batches : BatchSound(nulls, b)

Nulls == CanonicalNulls(program)

\* A class is a value's or a location's; only locations hold what locations hold.
SortInv ==
  /\ \A c \in Class : rep[c] \in Values <=> c \in Values
  /\ \A c \in Class : pointee[c] \notin Values
  /\ \A k \in DOMAIN cells : cells[k] \notin Values
  /\ \A v \in Values : facts[v] \cap Escape = {} /\ fns[v] = {} /\ regions[v] = {}
  /\ \A v \in Values : shifts[v] = <<>>

\* Null constants are by themselves, and nothing flows to them.
NullInv ==
  /\ program.empty \subseteq Values
  /\ \A v \in Nulls : \A c \in Class : rep[c] = v <=> c = v
  /\ \A v \in Nulls : facts[v] = {"empty"} /\ pointee[v] = NoClass
  /\ \A c \in Class : content[c] \cap Nulls = {}
  /\ \A c \in Class : \A t \in Transfers(c) : t.dst \notin Nulls

\* A region is in its class.
RegionInv == \A k \in DOMAIN cells : k \in regions[rep[cells[k]]]

\* What is still to be read is part of the program.
TodoInv ==
  /\ Listed(todo.edges) \subseteq Listed(program.edges)
  /\ Listed(todo.seeds) \subseteq Listed(program.seeds)
  /\ todo.entry \subseteq program.entry

SortedInv == SortInv /\ NullInv /\ RegionInv
AssertInv == SortedInv /\ TodoInv /\ ListSound(Nulls, agenda)

\* No call, a sound call and a list of sound calls are sound lists.
LEMMA SoundFew ==
  ASSUME NEW n
  PROVE  /\ BatchSound(n, <<>>)
         /\ \A c : OneSound(n, c) => BatchSound(n, <<c>>)
         /\ \A c, d : OneSound(n, c) /\ OneSound(n, d) => BatchSound(n, <<c, d>>)
         /\ \A b : BatchSound(n, b) => ListSound(n, b)
<1>1. BatchSound(n, <<>>)
  <2>1. DOMAIN <<>> = {}
    OBVIOUS
  <2> QED BY <2>1, FewProper DEF BatchSound
<1>2. ASSUME NEW c, OneSound(n, c) PROVE BatchSound(n, <<c>>)
  <2>1. DOMAIN <<c>> = {1} /\ <<c>>[1] = c
    OBVIOUS
  <2> QED BY <1>2, <2>1, FewProper DEF BatchSound
<1>3. ASSUME NEW c, NEW d, OneSound(n, c), OneSound(n, d) PROVE BatchSound(n, <<c, d>>)
  <2>1. DOMAIN <<c, d>> = {1, 2} /\ <<c, d>>[1] = c /\ <<c, d>>[2] = d
    OBVIOUS
  <2> QED BY <1>3, <2>1, FewProper DEF BatchSound
<1>4. \A b : BatchSound(n, b) => ListSound(n, b) BY DEF BatchSound, ListSound
<1> QED BY <1>1, <1>2, <1>3, <1>4

\* So are two sound lists, one after the other.
LEMMA SoundAppend ==
  ASSUME NEW n, NEW a, NEW b
  PROVE  /\ BatchSound(n, a) /\ BatchSound(n, b) => BatchSound(n, a \o b)
         /\ ListSound(n, a) /\ ListSound(n, b) => ListSound(n, a \o b)
<1>1. ASSUME Proper(a), Proper(b)
      PROVE  /\ Proper(a \o b)
             /\ \A i \in DOMAIN (a \o b) : \/ \E j \in DOMAIN a : (a \o b)[i] = a[j]
                                          \/ \E j \in DOMAIN b : (a \o b)[i] = b[j]
  BY <1>1, Parts, Concatenation
<1> DEFINE whole == a \o b
<1>2. Proper(a) /\ Proper(b) =>
        /\ Proper(whole)
        /\ \A i \in DOMAIN whole : \/ \E j \in DOMAIN a : whole[i] = a[j]
                                   \/ \E j \in DOMAIN b : whole[i] = b[j]
  BY <1>1
<1> HIDE DEF whole
<1>3. BatchSound(n, a) /\ BatchSound(n, b) => BatchSound(n, whole) BY <1>2 DEF BatchSound
<1>4. ListSound(n, a) /\ ListSound(n, b) => ListSound(n, whole) BY <1>2 DEF ListSound
<1> QED BY <1>3, <1>4 DEF whole

\* So are sound lists in any order.
LEMMA SoundAnyOrder ==
  ASSUME NEW n, NEW batches, \A b \in batches : BatchSound(n, b)
  PROVE  ListSound(n, AnyOrder(batches))
<1> DEFINE c == [call |-> "in_any_order", batches |-> batches]
<1>1. DOMAIN <<c>> = {1} /\ <<c>>[1] = c /\ c.call = "in_any_order" /\ c.batches = batches
  OBVIOUS
<1>2. AnyOrder(batches) = IF batches = {} THEN <<>> ELSE <<c>> BY DEF AnyOrder
<1> HIDE DEF c
<1>3. ListSound(n, <<c>>) BY <1>1, FewProper DEF ListSound
<1> QED BY <1>2, <1>3, SoundFew

\* The head of a sound list is made.
LEMMA SoundNext ==
  ASSUME NEW n, NEW s, s # <<>>, ListSound(n, s)
  PROVE  /\ ListSound(n, Tail(s))
         /\ \/ OneSound(n, Head(s))
            \/ Head(s).call = "in_any_order" /\ \A b \in Head(s).batches : BatchSound(n, b)
<1>1. Proper(s) BY DEF ListSound
<1> DEFINE rest == Tail(s)
<1>2. /\ Proper(rest) /\ 1 \in DOMAIN s /\ Head(s) = s[1]
      /\ \A i \in DOMAIN rest : \E j \in DOMAIN s : rest[i] = s[j]
  <2>1. \A i \in DOMAIN rest : i + 1 \in DOMAIN s /\ rest[i] = s[i + 1]
    BY <1>1, Remainder, Concatenation
  <2> QED BY <1>1, <2>1, Remainder
<1> HIDE DEF rest
<1>3. ListSound(n, rest) BY <1>2 DEF ListSound
<1> QED BY <1>2, <1>3 DEF ListSound, rest

\* What the running handler calls is sound if what the call made calls is.
LEMMA SoundStep ==
  ASSUME ListSound(Nulls, agenda), agenda # <<>>, program' = program,
         \/ Return
         \/ \E calls : ListSound(Nulls, calls) /\ Then(calls)
  PROVE  ListSound(Nulls, agenda)' /\ Nulls' = Nulls
<1>1. Nulls' = Nulls BY DEF Nulls
<1>2. ListSound(Nulls, Tail(agenda)) BY SoundNext
<1>3. CASE Return BY <1>1, <1>2, <1>3 DEF Return
<1>4. CASE \E calls : ListSound(Nulls, calls) /\ Then(calls)
  <2>1. PICK calls : ListSound(Nulls, calls) /\ agenda' = calls \o Tail(agenda) BY <1>4 DEF Then
  <2>2. ListSound(Nulls, calls \o Tail(agenda)) BY <1>2, <2>1, SoundAppend
  <2> QED BY <1>1, <2>1, <2>2
<1> QED BY <1>3, <1>4

\* What the terms of a sound call stand for.
LEMMA FindSorted ==
  ASSUME TypeInv, SortedInv, NEW t \in Resolved
  PROVE  /\ Place(t) <=> Find(t) \notin Values
         /\ Clear(Nulls, t) => Find(t) \notin Nulls
<1>1. Nulls \subseteq Values BY DEF SortedInv, NullInv, Nulls, CanonicalNulls
<1>2. GraphOK BY DEF TypeInv
<1>3. CASE \E c \in Live : t = Of(c)
  <2>1. PICK c \in Live : t = Of(c) BY <1>3
  <2>2. Find(t) = rep[c] /\ t[1] = "class" /\ t[2] = c /\ c \in Class BY <2>1 DEF Of, Find, Live
  <2>3. rep[c] \in Nulls => c \in Nulls BY <2>2 DEF SortedInv, NullInv
  <2> QED BY <2>2, <2>3 DEF SortedInv, SortInv, Place, Clear
<1>4. CASE \E v \in Live : t = PointeeOf(v) /\ pointee[rep[v]] # NoClass
  <2>1. PICK v \in Live : t = PointeeOf(v) /\ pointee[rep[v]] # NoClass BY <1>4
  <2>2. rep[v] \in Class BY <1>2, RepLive DEF Live
  <2>3. pointee[rep[v]] \in Class BY <1>2, <2>1, <2>2 DEF GraphOK, Live
  <2>4. Find(t) = rep[pointee[rep[v]]] /\ t[1] = "pointee" BY <2>1 DEF PointeeOf, Find
  <2>5. Find(t) \notin Values BY <2>2, <2>3, <2>4 DEF SortedInv, SortInv
  <2> QED BY <1>1, <2>4, <2>5 DEF Place
<1>5. CASE \E k \in DOMAIN cells : t = CellOf(k[1], k[2])
  <2>1. PICK k \in DOMAIN cells : t = CellOf(k[1], k[2]) BY <1>5
  <2>2. k = <<k[1], k[2]>> /\ cells[k] \in Class BY <1>2, <2>1 DEF GraphOK, Live
  <2>3. Find(t) = rep[cells[k]] /\ t[1] = "cell" BY <2>1, <2>2 DEF CellOf, Find
  <2>4. Find(t) \notin Values BY <2>1, <2>2, <2>3 DEF SortedInv, SortInv
  <2> QED BY <1>1, <2>3, <2>4 DEF Place
<1> QED BY <1>3, <1>4, <1>5 DEF Resolved

\* What does not change stays as it is.
LEMMA SortedStill ==
  ASSUME SortedInv, UNCHANGED <<program, rep, pointee, cells, facts, fns, regions, shifts, content>>
  PROVE  SortedInv'
<1>1. \A c \in Class : Transfers(c)' = Transfers(c) BY DEF Transfers
<1> QED BY <1>1 DEF SortedInv, SortInv, NullInv, RegionInv, Nulls

\* Facts that only locations may have are given to locations, none to nulls.
LEMMA GrantSorted ==
  ASSUME TypeInv, SortedInv, NEW given, NEW labels, Grant(given, labels),
         \A g \in given : g[1] \notin Nulls /\ (g[2] \in Escape => g[1] \notin Values),
         UNCHANGED <<program, rep, pointee, cells, fns, regions, shifts, content>>
  PROVE  SortedInv'
<1>1. Nulls \subseteq Values /\ Values \subseteq Class
  BY DEF SortedInv, NullInv, Nulls, CanonicalNulls, Class, Nodes
<1>2. facts' = [c \in Class |-> facts[c] \cup GainedFacts(given, c)] BY DEF Grant
<1>3. \A v \in Values : facts'[v] \cap Escape = {}
  <2> SUFFICES ASSUME NEW v \in Values, NEW f \in Escape PROVE f \notin facts'[v]
    OBVIOUS
  <2>1. f \notin GainedFacts(given, v)
    <3> SUFFICES ASSUME <<v, f>> \in given PROVE FALSE BY DEF GainedFacts
    <3> DEFINE g == <<v, f>>
    <3>1. g \in given /\ g[1] = v /\ g[2] = f
      OBVIOUS
    <3> HIDE DEF g
    <3> QED BY <3>1
  <2> QED BY <1>1, <1>2, <2>1 DEF SortedInv, SortInv
<1>4. \A v \in Nulls : facts'[v] = {"empty"}
  <2> SUFFICES ASSUME NEW v \in Nulls PROVE GainedFacts(given, v) = {}
    BY <1>1, <1>2 DEF SortedInv, NullInv
  <2> SUFFICES ASSUME NEW f, <<v, f>> \in given PROVE FALSE BY DEF GainedFacts
  <2> DEFINE g == <<v, f>>
  <2>1. g \in given /\ g[1] = v
    OBVIOUS
  <2> HIDE DEF g
  <2> QED BY <2>1
<1>5. (\A c \in Class : Transfers(c)' = Transfers(c)) /\ Nulls' = Nulls BY DEF Transfers, Nulls
<1> QED BY <1>3, <1>4, <1>5 DEF SortedInv, SortInv, NullInv, RegionInv

\* When a call is sound.
LEMMA SoundCalls ==
  ASSUME NEW n
  PROVE  /\ \A c : c \notin n => OneSound(n, Need(c))
         /\ \A o, region : OneSound(n, NeedCell(o, region))
         /\ \A l, r : (Place(l) <=> Place(r)) /\ Clear(n, l) /\ Clear(n, r) => OneSound(n, Join(l, r))
         /\ \A l, r : Clear(n, l) /\ Clear(n, r) => OneSound(n, Unify(l, r))
         /\ \A s, d : Clear(n, d) => OneSound(n, Content(s, d))
         /\ \A s, d, delta : d \notin n => OneSound(n, AddShift(s, d, delta))
         /\ \A t, names, labels :
              Clear(n, t) /\ (names \cap Escape # {} => Place(t)) => OneSound(n, Give(t, names, labels))
         /\ \A o, labels : OneSound(n, EscapeFields(o, labels))
         /\ \A site : OneSound(n, ApplyExternal(site)) /\ OneSound(n, Register(site))
         /\ \A site, i : OneSound(n, PublishFrom(site, i)) /\ OneSound(n, PublishTail(site, i))
         /\ \A site, f : OneSound(n, Bind(site, f))
         /\ \A site, f, i : OneSound(n, BindFrom(site, f, i))
         /\ \A c : OneSound(n, Replay(c)) /\ OneSound(n, Process(c))
         /\ \A c, transfer, given : c \notin Values => OneSound(n, Shift(c, transfer, given))
         /\ \A o, region, dst : OneSound(n, ShiftedField(o, region, dst))
         /\ \A c, given : c \notin Values => OneSound(n, Widen(c, given))
<1> USE DEF OneSound, Sound
<1>1. \A c : c \notin n => OneSound(n, Need(c)) BY DEF Need
<1>2. \A o, region : OneSound(n, NeedCell(o, region)) BY DEF NeedCell
<1>3. \A l, r : (Place(l) <=> Place(r)) /\ Clear(n, l) /\ Clear(n, r) => OneSound(n, Join(l, r))
  BY DEF Join
<1>4. \A l, r : Clear(n, l) /\ Clear(n, r) => OneSound(n, Unify(l, r)) BY DEF Unify
<1>5. \A s, d : Clear(n, d) => OneSound(n, Content(s, d)) BY DEF Content
<1>6. \A s, d, delta : d \notin n => OneSound(n, AddShift(s, d, delta)) BY DEF AddShift
<1>7. \A t, names, labels :
        Clear(n, t) /\ (names \cap Escape # {} => Place(t)) => OneSound(n, Give(t, names, labels))
  BY DEF Give
<1>8. \A o, labels : OneSound(n, EscapeFields(o, labels)) BY DEF EscapeFields
<1>9. \A site : OneSound(n, ApplyExternal(site)) /\ OneSound(n, Register(site))
  BY DEF ApplyExternal, Register
<1>10. \A site, i : OneSound(n, PublishFrom(site, i)) /\ OneSound(n, PublishTail(site, i))
  BY DEF PublishFrom, PublishTail
<1>11. /\ \A site, f : OneSound(n, Bind(site, f))
       /\ \A site, f, i : OneSound(n, BindFrom(site, f, i))
  BY DEF Bind, BindFrom
<1>12. \A c : OneSound(n, Replay(c)) /\ OneSound(n, Process(c)) BY DEF Replay, Process
<1>13. \A c, transfer, given : c \notin Values => OneSound(n, Shift(c, transfer, given)) BY DEF Shift
<1>14. \A o, region, dst : OneSound(n, ShiftedField(o, region, dst)) BY DEF ShiftedField
<1>15. \A c, given : c \notin Values => OneSound(n, Widen(c, given)) BY DEF Widen
<1> HIDE DEF OneSound, Sound
<1> QED BY <1>1, <1>2, <1>3, <1>4, <1>5, <1>6, <1>7, <1>8, <1>9, <1>10, <1>11, <1>12, <1>13, <1>14,
           <1>15

\* What is pointed to and what is a region is a location; neither is a null.
LEMMA TermsSorted ==
  ASSUME NEW n
  PROVE  /\ \A c : (Place(Of(c)) <=> c \notin Values) /\ (Clear(n, Of(c)) <=> c \notin n)
         /\ \A c : Place(PointeeOf(c)) /\ Clear(n, PointeeOf(c))
         /\ \A o, region : Place(CellOf(o, region)) /\ Clear(n, CellOf(o, region))
BY DEF Place, Clear, Of, PointeeOf, CellOf

\* Null constants are values, and alone in their classes.
LEMMA NullsAlone ==
  ASSUME SortedInv
  PROVE  /\ Nulls \subseteq Values /\ Values \subseteq Class
         /\ \A c \in Class : rep[c] \in Nulls <=> c \in Nulls
         /\ \A c \in Class : rep[c] \in Values <=> c \in Values
<1>1. Nulls \subseteq Values BY DEF SortedInv, NullInv, Nulls, CanonicalNulls
<1>2. Values \subseteq Class BY DEF Class, Nodes
<1>3. \A c \in Nulls : rep[c] = c BY <1>1, <1>2 DEF SortedInv, NullInv
<1>4. \A c \in Class : rep[c] \in Nulls => c = rep[c] BY DEF SortedInv, NullInv
<1> QED BY <1>1, <1>2, <1>3, <1>4 DEF SortedInv, SortInv

\* The call being made is sound.
LEMMA HeadSound ==
  ASSUME AssertInv, NEW name, Calling(name), name # "in_any_order"
  PROVE  Sound(Nulls, Head(agenda)) /\ agenda # <<>> /\ Head(agenda).call = name
BY SoundNext DEF AssertInv, Calling, OneSound

\* A step that makes sound calls and changes no class.
LEMMA OnlySound ==
  ASSUME AssertInv, agenda # <<>>,
         Return \/ \E calls : ListSound(Nulls, calls) /\ Then(calls),
         UNCHANGED <<readVars, rep, pointee, cells, facts, fns, regions, shifts, content>>
  PROVE  AssertInv'
<1>1. program' = program /\ todo' = todo BY DEF readVars
<1>2. SortedInv' BY <1>1, SortedStill DEF AssertInv
<1>3. ListSound(Nulls, agenda)' BY <1>1, SoundStep DEF AssertInv
<1>4. TodoInv' BY <1>1 DEF AssertInv, TodoInv
<1> QED BY <1>2, <1>3, <1>4 DEF AssertInv

\* A step that returns, or makes sound calls, and keeps the classes sorted.
LEMMA SortedSteps ==
  ASSUME AssertInv, agenda # <<>>, SortedInv', readVars' = readVars,
         Return \/ \E calls : ListSound(Nulls, calls) /\ Then(calls)
  PROVE  AssertInv'
<1>1. program' = program /\ todo' = todo BY DEF readVars
<1>2. ListSound(Nulls, agenda)' BY <1>1, SoundStep DEF AssertInv
<1>3. TodoInv' BY <1>1 DEF AssertInv, TodoInv
<1> QED BY <1>2, <1>3 DEF AssertInv

\* Facts go where they may.
LEMMA SetFactsSorted ==
  ASSUME TypeInv, AssertInv, SetFacts
  PROVE  AssertInv'
<1> DEFINE call == Head(agenda)
<1>1. /\ Sound(Nulls, call) /\ agenda # <<>> /\ call.call = "set_facts"
      /\ CallOK(program, call, Resolved)
  BY HeadSound, CalledOK DEF SetFacts, CallNames
<1>2. call.of \in Resolved /\ Clear(Nulls, call.of) /\ (call.names \cap Escape # {} => Place(call.of))
  BY <1>1 DEF Sound, CallOK, Needed
<1>3. /\ Grant({Find(call.of)} \X call.names, {Find(call.of)} \X call.labels) /\ Return
      /\ UNCHANGED <<readVars, graphVars, contentVars, callVars, shiftVars, fieldVars, onceVars>>
  BY DEF SetFacts
<1> DEFINE given == {Find(call.of)} \X call.names
<1>4. \A g \in given : g[1] = Find(call.of) /\ g[2] \in call.names
  OBVIOUS
<1>5. Find(call.of) \notin Nulls /\ (call.names \cap Escape # {} => Find(call.of) \notin Values)
  BY <1>2, FindSorted DEF AssertInv
<1>6. \A g \in given : g[1] \notin Nulls /\ (g[2] \in Escape => g[1] \notin Values) BY <1>4, <1>5
<1> HIDE DEF given
<1>7. SortedInv'
  BY <1>3, <1>6, GrantSorted DEF AssertInv, readVars, graphVars, contentVars, callVars, shiftVars, fieldVars,
     given
<1> QED BY <1>1, <1>3, <1>7, SortedSteps DEF readVars

\* A call that finds nothing to do, and one that registers a call site.
LEMMA IdleSorted ==
  ASSUME TypeInv, AssertInv, PointeeKnown \/ JoinedAlready \/ FieldKnown \/ NothingToReplay \/ RegisterSite
  PROVE  AssertInv'
<1>1. agenda # <<>> BY DEF PointeeKnown, JoinedAlready, FieldKnown, NothingToReplay, RegisterSite, Calling
<1>2. Return BY DEF PointeeKnown, JoinedAlready, FieldKnown, NothingToReplay, RegisterSite
<1>3. UNCHANGED <<readVars, rep, pointee, cells, facts, fns, regions, shifts, content>>
  BY DEF PointeeKnown, JoinedAlready, FieldKnown, NothingToReplay, RegisterSite, classVars, knownVars, graphVars,
         factVars, contentVars, callVars, shiftVars, fieldVars
<1> QED BY <1>1, <1>2, <1>3, OnlySound

\* A pointee that is made is a location; a null gets none.
LEMMA PointeeMadeSorted ==
  ASSUME TypeInv, AssertInv, PointeeMade
  PROVE  AssertInv'
<1> DEFINE call == Head(agenda)  root == rep[call.of]
<1>1. /\ Sound(Nulls, call) /\ agenda # <<>> /\ call.call = "pointee_of"
      /\ CallOK(program, call, Resolved)
  BY HeadSound, CalledOK DEF PointeeMade, CallNames
<1>2. GraphOK /\ Of(call.of) \in Resolved BY <1>1 DEF CallOK, Needed, TypeInv
<1>3. call.of \in Class /\ call.of \notin Nulls BY <1>1, <1>2, TermsResolved DEF Sound, Live
<1>4. root \notin Nulls BY <1>3, NullsAlone DEF AssertInv
<1>5. spare # {} /\ spare' = spare \ {NewClass} BY DEF PointeeMade
<1>6. NewClass \in Spare BY <1>2, <1>5, NewClassUsed DEF GraphOK
<1>7. NewClass \notin Values BY <1>6, SteensgaardAssumption
<1>8. pointee' = [pointee EXCEPT ![root] = NewClass] /\ Return /\ UNCHANGED <<readVars, rep>>
      /\ UNCHANGED <<factVars, contentVars, callVars, shiftVars, fieldVars>>
  BY DEF PointeeMade
<1>9. pointee \in [Class -> Live \cup {NoClass}] BY <1>2 DEF GraphOK
<1>10. \A c \in Class : pointee'[c] = pointee[c] \/ (c = root /\ pointee'[c] = NewClass) BY <1>8, <1>9
<1>11. program' = program /\ Nulls' = Nulls BY <1>8 DEF readVars, Nulls
<1>12. \A c \in Class : pointee'[c] \notin Values BY <1>7, <1>10 DEF AssertInv, SortedInv, SortInv
<1>13. \A v \in Nulls : pointee'[v] = NoClass
  BY <1>4, <1>10, NullsAlone DEF AssertInv, SortedInv, NullInv
<1>14. (\A c \in Class : Transfers(c)' = Transfers(c)) BY <1>8 DEF Transfers, shiftVars
<1>15. SortedInv'
  BY <1>8, <1>11, <1>12, <1>13, <1>14 DEF AssertInv, SortedInv, SortInv, NullInv, RegionInv, factVars, contentVars,
     callVars, shiftVars, fieldVars
<1> QED BY <1>1, <1>8, <1>15, SortedSteps

\* No contents flow to a null.
LEMMA AddContentEdgeSorted ==
  ASSUME TypeInv, AssertInv, AddContentEdge
  PROVE  AssertInv'
<1> DEFINE call == Head(agenda)  src == Find(call.src)  dst == Find(call.dst)
<1>1. /\ Sound(Nulls, call) /\ agenda # <<>> /\ call.call = "add_content_edge"
      /\ CallOK(program, call, Resolved)
  BY HeadSound, CalledOK DEF AddContentEdge, CallNames
<1>2. call.dst \in Resolved /\ Clear(Nulls, call.dst) BY <1>1 DEF CallOK, Needed, Sound
<1>3. dst \notin Nulls BY <1>2, FindSorted DEF AssertInv
<1>4. content' = [content EXCEPT ![src] = @ \cup {dst}] /\ Return
      /\ UNCHANGED <<readVars, graphVars, factVars, callVars, shiftVars, fieldVars>>
  BY DEF AddContentEdge
<1> HIDE DEF dst
<1>5. \A c \in Class : content'[c] \subseteq content[c] \cup {dst} BY <1>4
<1>6. program' = program /\ Nulls' = Nulls BY <1>4 DEF readVars, Nulls
<1>7. \A c \in Class : content'[c] \cap Nulls = {}
  BY <1>3, <1>5 DEF AssertInv, SortedInv, NullInv
<1>8. (\A c \in Class : Transfers(c)' = Transfers(c)) BY <1>4 DEF Transfers, shiftVars
<1>9. SortedInv'
  BY <1>4, <1>6, <1>7, <1>8 DEF AssertInv, SortedInv, SortInv, NullInv, RegionInv, factVars, graphVars,
     callVars, shiftVars, fieldVars
<1> QED BY <1>1, <1>4, <1>9, SortedSteps

\* Arithmetic is kept at a location and ends at no null.
LEMMA AddGepTransferSorted ==
  ASSUME TypeInv, EdgesOK, AssertInv, AddGepTransfer
  PROVE  AssertInv'
<1> DEFINE call == Head(agenda)  target == Find(PointeeOf(call.src))
           transfer == [dst |-> call.dst, delta |-> call.delta]
<1>1. /\ Sound(Nulls, call) /\ agenda # <<>> /\ call.call = "add_gep_transfer"
      /\ CallOK(program, call, Resolved)
  BY HeadSound, CalledOK DEF AddGepTransfer, CallNames
<1>2. PointeeOf(call.src) \in Resolved /\ call.dst \notin Nulls BY <1>1 DEF CallOK, Needed, Sound
<1>3. target \notin Values BY <1>2, FindSorted, TermsSorted DEF AssertInv
<1>4. shifts' = [shifts EXCEPT ![target] = Append(@, transfer)] /\ Return
      /\ UNCHANGED <<readVars, graphVars, factVars, contentVars, callVars, regions, fieldVars>>
  BY DEF AddGepTransfer
<1>5. transfer.dst = call.dst
  OBVIOUS
<1>6. shifts = [c \in Class |-> shifts[c]] /\ \A c \in Class : Proper(shifts[c]) BY DEF TypeInv, ContentOK
<1> HIDE DEF transfer, target
<1>7. \A c \in Class : c # target => shifts'[c] = shifts[c] BY <1>4, <1>6
<1>8. \A c \in Class : \A t \in Transfers(c)' : t \in Transfers(c) \/ t = transfer
  <2> SUFFICES ASSUME NEW c \in Class PROVE \A t \in Transfers(c)' : t \in Transfers(c) \/ t = transfer
    OBVIOUS
  <2>1. CASE c # target BY <1>7, <2>1 DEF Transfers
  <2>2. CASE c = target
    <3>1. PICK S : shifts[c] \in Seq(S) BY <1>6 DEF Proper
    <3> DEFINE s == shifts[c]  s2 == Append(s, transfer)
    <3>2. shifts'[c] = s2 BY <1>4, <1>6, <2>2
    <3>3. s \in Seq(S) BY <3>1
    <3> HIDE DEF s
    <3>4. DOMAIN s = 1 .. Len(s) /\ Len(s) \in Nat /\ DOMAIN s2 = 1 .. Len(s) + 1
          /\ s2[Len(s) + 1] = transfer /\ \A i \in 1 .. Len(s) : s2[i] = s[i]
      BY <3>3
    <3>5. \A i \in DOMAIN s2 : i \in DOMAIN s \/ i = Len(s) + 1 BY <3>4
    <3> HIDE DEF s2
    <3> QED BY <3>2, <3>4, <3>5 DEF Transfers, s
  <2> QED BY <2>1, <2>2
<1>9. program' = program /\ Nulls' = Nulls BY <1>4 DEF readVars, Nulls
<1>10. \A v \in Values : shifts'[v] = <<>>
  BY <1>3, <1>7, NullsAlone DEF AssertInv, SortedInv, SortInv
<1>11. \A c \in Class : \A t \in Transfers(c)' : t.dst \notin Nulls'
  BY <1>2, <1>5, <1>8, <1>9 DEF AssertInv, SortedInv, NullInv
<1>12. SortedInv'
  BY <1>4, <1>9, <1>10, <1>11 DEF AssertInv, SortedInv, SortInv, NullInv, RegionInv, factVars, graphVars,
     contentVars, callVars, fieldVars
<1> QED BY <1>1, <1>4, <1>12, SortedSteps

\* What a class points to is a location.
LEMMA PointeeSorted ==
  ASSUME TypeInv, SortedInv, NEW a \in Class, pointee[a] # NoClass
  PROVE  /\ pointee[a] \in Live /\ pointee[a] \in Class /\ pointee[a] \notin Values
         /\ rep[pointee[a]] \notin Values /\ a \notin Nulls
<1>1. pointee[a] \in Live /\ pointee[a] \in Class BY DEF TypeInv, GraphOK, Live
<1>2. a \notin Nulls BY DEF SortedInv, NullInv
<1>3. pointee[a] \notin Values BY DEF SortedInv, SortInv
<1> QED BY <1>1, <1>2, <1>3, NullsAlone

\* Two classes are told to point to one location.
LEMMA UnifyPointeesSorted ==
  ASSUME TypeInv, AssertInv, UnifyPointees
  PROVE  AssertInv'
<1> DEFINE call == Head(agenda)  a == Find(call.left)  b == Find(call.right)
           pa == pointee[a]  pb == pointee[b]
<1>1. /\ Sound(Nulls, call) /\ agenda # <<>> /\ call.call = "unify_pointees"
      /\ CallOK(program, call, Resolved)
  BY HeadSound, CalledOK DEF UnifyPointees, CallNames
<1>2. /\ call.left \in Resolved /\ call.right \in Resolved
      /\ Clear(Nulls, call.left) /\ Clear(Nulls, call.right)
  BY <1>1 DEF CallOK, Needed, Sound
<1>3. a \notin Nulls /\ b \notin Nulls BY <1>2, FindSorted DEF AssertInv
<1>4. a \in Class /\ b \in Class BY <1>2, FindLive DEF TypeInv, Live
<1>5. Nulls \subseteq Values BY NullsAlone DEF AssertInv
<1>6. /\ UNCHANGED <<readVars, rep, size, spare, factVars, contentVars, callVars, shiftVars, fieldVars>>
      /\ \/ Then(<<Need(a)>>) /\ UNCHANGED pointee
         \/ pa # NoClass /\ pb # NoClass /\ Then(<<Join(Of(pa), Of(pb))>>) /\ UNCHANGED pointee
         \/ pa # NoClass /\ pointee' = [pointee EXCEPT ![b] = rep[pa]] /\ Return
         \/ pb # NoClass /\ pointee' = [pointee EXCEPT ![a] = rep[pb]] /\ Return
         \/ Then(<<Need(a), Unify(Of(a), Of(b))>>) /\ UNCHANGED pointee
  BY DEF UnifyPointees
<1>7. UNCHANGED <<rep, cells, facts, fns, regions, shifts, content>>
  BY <1>6 DEF factVars, contentVars, callVars, shiftVars, fieldVars
<1> HIDE DEF a, b, call
<1>8. CASE Then(<<Need(a)>>) /\ UNCHANGED pointee
  <2>1. ListSound(Nulls, <<Need(a)>>) BY <1>3, SoundCalls, SoundFew
  <2> QED BY <1>1, <1>6, <1>7, <1>8, <2>1, OnlySound
<1>9. CASE pa # NoClass /\ pb # NoClass /\ Then(<<Join(Of(pa), Of(pb))>>) /\ UNCHANGED pointee
  <2>1. pa \notin Values /\ pb \notin Values BY <1>4, <1>9, PointeeSorted DEF AssertInv
  <2>2. ListSound(Nulls, <<Join(Of(pa), Of(pb))>>)
    BY <1>5, <2>1, SoundCalls, TermsSorted, SoundFew
  <2> QED BY <1>1, <1>6, <1>7, <1>9, <2>2, OnlySound
<1>10. ASSUME NEW x \in Class, NEW y \in Class, pointee[x] # NoClass, y \notin Nulls,
              pointee' = [pointee EXCEPT ![y] = rep[pointee[x]]], Return
       PROVE  AssertInv'
  <2>1. rep[pointee[x]] \notin Values BY <1>10, PointeeSorted DEF AssertInv
  <2>2. pointee \in [Class -> Live \cup {NoClass}] BY DEF TypeInv, GraphOK
  <2>3. \A c \in Class : pointee'[c] = pointee[c] \/ (c = y /\ pointee'[c] = rep[pointee[x]])
    BY <1>10, <2>2
  <2>4. program' = program /\ Nulls' = Nulls BY <1>6 DEF readVars, Nulls
  <2>5. \A c \in Class : pointee'[c] \notin Values BY <2>1, <2>3 DEF AssertInv, SortedInv, SortInv
  <2>6. \A v \in Nulls : pointee'[v] = NoClass
    BY <1>10, <2>3, NullsAlone DEF AssertInv, SortedInv, NullInv
  <2>7. \A c \in Class : Transfers(c)' = Transfers(c) BY <1>7 DEF Transfers
  <2>8. SortedInv' BY <1>7, <2>4, <2>5, <2>6, <2>7 DEF AssertInv, SortedInv, SortInv, NullInv, RegionInv
  <2> QED BY <1>1, <1>6, <1>10, <2>8, SortedSteps
<1>11. CASE pa # NoClass /\ pointee' = [pointee EXCEPT ![b] = rep[pa]] /\ Return
  BY <1>3, <1>4, <1>10, <1>11
<1>12. CASE pb # NoClass /\ pointee' = [pointee EXCEPT ![a] = rep[pb]] /\ Return
  BY <1>3, <1>4, <1>10, <1>12
<1>13. CASE Then(<<Need(a), Unify(Of(a), Of(b))>>) /\ UNCHANGED pointee
  <2>1. ListSound(Nulls, <<Need(a), Unify(Of(a), Of(b))>>) BY <1>3, SoundCalls, TermsSorted, SoundFew
  <2> QED BY <1>1, <1>6, <1>7, <1>13, <2>1, OnlySound
<1> QED BY <1>6, <1>8, <1>9, <1>11, <1>12, <1>13

\* Two classes of one sort become one, which no null is part of.
LEMMA JoinClassesSorted ==
  ASSUME TypeInv, EdgesOK, AssertInv, JoinClasses
  PROVE  AssertInv'
<1> DEFINE call == Head(agenda)
<1>1. /\ Sound(Nulls, call) /\ agenda # <<>> /\ call.call = "join"
      /\ CallOK(program, call, Resolved)
  BY HeadSound, CalledOK DEF JoinClasses, CallNames
<1>2. PICK from \in Live, to \in Live :
        /\ rep[from] = from /\ rep[to] = to /\ from # to
        /\ {from, to} = {Find(call.left), Find(call.right)}
        /\ Merge(from, to)
  BY JoinMerges
<1>3. /\ call.left \in Resolved /\ call.right \in Resolved
      /\ Clear(Nulls, call.left) /\ Clear(Nulls, call.right) /\ (Place(call.left) <=> Place(call.right))
  BY <1>1 DEF CallOK, Needed, Sound
<1>4. /\ Find(call.left) \notin Nulls /\ Find(call.right) \notin Nulls
      /\ Find(call.left) \notin Values <=> Find(call.right) \notin Values
  BY <1>3, FindSorted DEF AssertInv
<1>5. from \notin Nulls /\ to \notin Nulls /\ (from \in Values <=> to \in Values) BY <1>2, <1>4
<1> HIDE DEF call
<1>6. /\ from \in Class /\ to \in Class /\ cells' = cells
      /\ \A c \in Class : rep'[c] = IF rep[c] = from THEN to ELSE rep[c]
      /\ \A c \in Class \ {from, to} :
           /\ pointee'[c] = pointee[c] /\ facts'[c] = facts[c] /\ fns'[c] = fns[c]
           /\ regions'[c] = regions[c]
      /\ pointee'[from] = NoClass
      /\ pointee'[to] = IF pointee[to] = NoClass THEN pointee[from] ELSE pointee[to]
      /\ facts'[from] = {} /\ facts'[to] = facts[to] \cup facts[from]
      /\ fns'[from] = {} /\ fns'[to] = fns[to] \cup fns[from]
      /\ regions'[from] = {} /\ regions'[to] = regions[to] \cup regions[from]
  BY <1>2, MergeTables
<1>7. /\ content' = Moved(content, from, to)
      /\ shifts' = [shifts EXCEPT ![to] = @ \o shifts[from], ![from] = <<>>]
      /\ JoinPointees(from, to) /\ readVars' = readVars
  BY <1>2 DEF Merge
<1>8. /\ content = [c \in Class |-> content[c]] /\ shifts = [c \in Class |-> shifts[c]]
      /\ \A c \in Class : Proper(shifts[c])
  BY DEF EdgesOK, TypeInv, ContentOK
<1>9. \A c \in Class : content'[c] \subseteq content[c] \cup content[from]
  BY <1>2, <1>6, <1>7, <1>8 DEF Moved
<1>10. /\ \A c \in Class \ {from, to} : shifts'[c] = shifts[c]
       /\ shifts'[from] = <<>> /\ shifts'[to] = shifts[to] \o shifts[from]
  BY <1>2, <1>6, <1>7, <1>8
<1>11. \A c \in Class : \A t \in Transfers(c)' : t \in Transfers(c) \/ t \in Transfers(from)
  <2> DEFINE x == shifts[to]  y == shifts[from]  z == x \o y
  <2>1. Proper(x) /\ Proper(y) BY <1>6, <1>8
  <2> HIDE DEF x, y
  <2>2. \A i \in DOMAIN z : \/ i \in DOMAIN x /\ z[i] = x[i]
                            \/ \E j \in DOMAIN y : z[i] = y[j]
    BY <2>1, Parts
  <2>3. shifts'[to] = z BY <1>10 DEF x, y
  <2>4. DOMAIN <<>> = {}
    OBVIOUS
  <2> HIDE DEF z
  <2>5. \A t \in Transfers(to)' : t \in Transfers(to) \/ t \in Transfers(from)
    BY <2>2, <2>3 DEF Transfers, x, y
  <2>6. Transfers(from)' = {} BY <1>10, <2>4 DEF Transfers
  <2>7. \A c \in Class \ {from, to} : Transfers(c)' = Transfers(c) BY <1>10 DEF Transfers
  <2> QED BY <2>5, <2>6, <2>7
<1>12. program' = program /\ Nulls' = Nulls BY <1>7 DEF readVars, Nulls
<1>13. Nulls \subseteq Values /\ Values \subseteq Class BY NullsAlone DEF AssertInv
<1>14. SortInv'
  <2>1. \A c \in Class : rep'[c] \in Values <=> c \in Values
    BY <1>5, <1>6 DEF AssertInv, SortedInv, SortInv
  <2>2. \A c \in Class : pointee'[c] \notin Values
    <3>1. NoClass \notin Values BY SteensgaardAssumption
    <3> QED BY <1>6, <3>1 DEF AssertInv, SortedInv, SortInv
  <2>3. \A k \in DOMAIN cells : cells[k] \notin Values BY DEF AssertInv, SortedInv, SortInv
  <2>4. ASSUME NEW v \in Values
        PROVE  facts'[v] \cap Escape = {} /\ fns'[v] = {} /\ regions'[v] = {} /\ shifts'[v] = <<>>
    <3>1. \A w \in Values : facts[w] \cap Escape = {} /\ fns[w] = {} /\ regions[w] = {} /\ shifts[w] = <<>>
      BY DEF AssertInv, SortedInv, SortInv
    <3>2. v \in Class BY <1>13
    <3>3. CASE v \notin {from, to} BY <1>6, <1>10, <3>1, <3>2, <3>3
    <3>4. CASE v = from BY <1>6, <1>10, <3>4
    <3>5. CASE v = to
      <4>1. from \in Values /\ to \in Values BY <1>5, <3>5
      <4>2. shifts'[to] = <<>> \o <<>> BY <1>10, <3>1, <4>1
      <4>3. <<>> \o <<>> = <<>>
        OBVIOUS
      <4>4. facts'[to] \cap Escape = {} BY <1>6, <3>1, <4>1
      <4>5. fns'[to] = {} /\ regions'[to] = {} BY <1>6, <3>1, <4>1
      <4> QED BY <3>5, <4>2, <4>3, <4>4, <4>5
    <3> QED BY <3>3, <3>4, <3>5
  <2> QED BY <1>6, <2>1, <2>2, <2>3, <2>4 DEF SortInv
<1>15. NullInv'
  <2>1. ASSUME NEW v \in Nulls, NEW c \in Class PROVE rep'[c] = v <=> c = v
    <3>1. rep[c] = v <=> c = v BY DEF AssertInv, SortedInv, NullInv
    <3> QED BY <1>5, <1>6, <3>1
  <2>2. ASSUME NEW v \in Nulls PROVE facts'[v] = {"empty"} /\ pointee'[v] = NoClass
    BY <1>5, <1>6, <1>13 DEF AssertInv, SortedInv, NullInv
  <2>3. \A c \in Class : content'[c] \cap Nulls = {} BY <1>6, <1>9 DEF AssertInv, SortedInv, NullInv
  <2>4. \A c \in Class : \A t \in Transfers(c)' : t.dst \notin Nulls
    BY <1>6, <1>11 DEF AssertInv, SortedInv, NullInv
  <2>5. program.empty \subseteq Values BY DEF AssertInv, SortedInv, NullInv
  <2> QED BY <1>12, <2>1, <2>2, <2>3, <2>4, <2>5 DEF NullInv
<1>16. RegionInv'
  <2> SUFFICES ASSUME NEW k \in DOMAIN cells PROVE k \in regions'[rep'[cells[k]]]
    BY <1>6 DEF RegionInv
  <2>1. k \in regions[rep[cells[k]]] BY DEF AssertInv, SortedInv, RegionInv
  <2>2. cells[k] \in Class /\ rep[cells[k]] \in Class BY DEF TypeInv, GraphOK, Live
  <2>3. rep'[cells[k]] = IF rep[cells[k]] = from THEN to ELSE rep[cells[k]] BY <1>6, <2>2
  <2> QED BY <1>2, <1>6, <2>1, <2>2, <2>3
<1>17. Return \/ \E calls : ListSound(Nulls, calls) /\ Then(calls)
  <2>1. CASE pointee[from] # NoClass /\ pointee[to] # NoClass
    <3>1. pointee[from] \notin Values /\ pointee[to] \notin Values
      BY <1>6, <2>1, PointeeSorted DEF AssertInv
    <3> DEFINE calls == <<Join(Of(pointee[to]), Of(pointee[from]))>>
    <3>2. ListSound(Nulls, calls) BY <1>13, <3>1, SoundCalls, TermsSorted, SoundFew
    <3>3. Then(calls) BY <1>7, <2>1 DEF JoinPointees
    <3> QED BY <3>2, <3>3
  <2> QED BY <1>7, <2>1 DEF JoinPointees
<1>18. SortedInv' BY <1>14, <1>15, <1>16 DEF SortedInv
<1> QED BY <1>1, <1>7, <1>17, <1>18, SortedSteps

\* The class of a region is a location.
LEMMA FieldMadeSorted ==
  ASSUME TypeInv, AssertInv, FieldMade
  PROVE  AssertInv'
<1> DEFINE o == Head(agenda).root  region == Head(agenda).region  key == <<o, region>>
           batches == {<<Join(Of(NewClass), Of(c))>> : c \in Overlapped(o, region)}
<1>1. /\ NewClass \in spare /\ NewClass \in Class /\ NewClass \notin Live /\ rep[NewClass] = NewClass
      /\ key \notin DOMAIN cells
      /\ DOMAIN cells' = DOMAIN cells \cup {key}
      /\ cells'[key] = NewClass
      /\ \A k \in DOMAIN cells : cells'[k] = cells[k]
      /\ \A c \in Class \ {NewClass} : facts'[c] = facts[c] /\ regions'[c] = regions[c]
      /\ regions'[NewClass] = {key}
      /\ UNCHANGED <<readVars, worklist, rep, size, pointee, contentVars, callVars, shifts>>
      /\ Then(AnyOrder(batches))
  BY FieldMadeTables
<1>2. agenda # <<>> BY DEF FieldMade, Calling
<1>3. NewClass \notin Values /\ NewClass \notin Nulls
  BY <1>1, NodesLive, NullsAlone DEF TypeInv, AssertInv
<1>4. \A c \in Overlapped(o, region) : c \notin Values
  BY DEF Overlapped, AssertInv, SortedInv, SortInv
<1>5. Nulls \subseteq Values /\ Values \subseteq Class BY NullsAlone DEF AssertInv
<1>6. ListSound(Nulls, AnyOrder(batches))
  <2>1. \A c \in Overlapped(o, region) : OneSound(Nulls, Join(Of(NewClass), Of(c)))
    BY <1>3, <1>4, <1>5, SoundCalls, TermsSorted
  <2>2. \A b \in batches : BatchSound(Nulls, b) BY <2>1, SoundFew
  <2> HIDE DEF batches
  <2> QED BY <2>2, SoundAnyOrder
<1> HIDE DEF key, batches
<1>7. program' = program /\ Nulls' = Nulls BY <1>1 DEF readVars, Nulls
<1>8. SortInv'
  <2>1. \A k \in DOMAIN cells' : cells'[k] \notin Values
    BY <1>1, <1>3 DEF AssertInv, SortedInv, SortInv
  <2>2. \A v \in Values : facts'[v] \cap Escape = {} /\ fns'[v] = {} /\ regions'[v] = {}
    BY <1>1, <1>3, <1>5 DEF AssertInv, SortedInv, SortInv, callVars
  <2> QED BY <1>1, <2>1, <2>2 DEF AssertInv, SortedInv, SortInv
<1>9. NullInv'
  <2>1. \A c \in Class : Transfers(c)' = Transfers(c) BY <1>1 DEF Transfers
  <2>2. \A v \in Nulls : facts'[v] = {"empty"}
    BY <1>1, <1>3, <1>5 DEF AssertInv, SortedInv, NullInv
  <2> QED BY <1>1, <1>7, <2>1, <2>2 DEF AssertInv, SortedInv, NullInv, contentVars
<1>10. RegionInv'
  <2> SUFFICES ASSUME NEW k \in DOMAIN cells' PROVE k \in regions'[rep[cells'[k]]]
    BY <1>1 DEF RegionInv
  <2>1. CASE k = key BY <1>1, <2>1
  <2>2. CASE k # key
    <3>1. k \in DOMAIN cells /\ cells'[k] = cells[k] BY <1>1, <2>2
    <3>2. rep[cells[k]] \in Live /\ rep[cells[k]] \in Class BY <3>1, RepLive DEF TypeInv, GraphOK, Live
    <3>3. k \in regions[rep[cells[k]]] BY <3>1 DEF AssertInv, SortedInv, RegionInv
    <3> QED BY <1>1, <3>1, <3>2, <3>3
  <2> QED BY <2>1, <2>2
<1> QED BY <1>1, <1>2, <1>6, <1>8, <1>9, <1>10, SortedSteps DEF SortedInv

\* Calls that stay in a class that is shifted.
LEMMA StayInSound ==
  ASSUME SortedInv, NEW c \in Class, c \notin Values
  PROVE  ListSound(Nulls, StayIn(c))
<1> DEFINE batches == {<<Need(t.dst), Join(PointeeOf(t.dst), Of(c))>> : t \in Transfers(c)}
<1>1. \A t \in Transfers(c) : t.dst \notin Nulls BY DEF SortedInv, NullInv
<1>2. c \notin Nulls BY NullsAlone
<1>3. \A t \in Transfers(c) : /\ OneSound(Nulls, Need(t.dst))
                              /\ OneSound(Nulls, Join(PointeeOf(t.dst), Of(c)))
  BY <1>1, <1>2, SoundCalls, TermsSorted
<1>4. \A b \in batches : BatchSound(Nulls, b) BY <1>3, SoundFew
<1>5. StayIn(c) = AnyOrder(batches) BY DEF StayIn
<1> HIDE DEF batches
<1> QED BY <1>4, <1>5, SoundAnyOrder

\* Arithmetic is done for a location.
LEMMA ReplayTransfersSorted ==
  ASSUME TypeInv, AssertInv, ReplayTransfers
  PROVE  AssertInv'
<1> DEFINE c == rep[Head(agenda).of]  given == StandFor(regions[c])
           widen == IF \A t \in Transfers(c) : t.delta = Exact(0) THEN <<>> ELSE <<Widen(c, regions[c])>>
           batches == {<<Need(t.dst), Shift(c, t, given)>> : t \in Transfers(c)}
<1>1. /\ CallOK(program, Head(agenda), Resolved) /\ agenda # <<>>
      /\ Head(agenda).call = "replay_gep_transfers"
  BY CalledOK DEF ReplayTransfers, CallNames
<1>2. c \in Class
  <2>1. Of(Head(agenda).of) \in Resolved BY <1>1 DEF CallOK, Needed
  <2>2. Head(agenda).of \in Live BY <2>1, TermsResolved DEF TypeInv
  <2> QED BY <2>2, RepLive DEF TypeInv, Live
<1>3. shifts[c] # <<>> /\ Then(ReplayCalls(c))
      /\ UNCHANGED <<readVars, graphVars, factVars, contentVars, callVars, regions, shifts, fieldVars>>
  BY DEF ReplayTransfers
<1>4. c \notin Values BY <1>3 DEF AssertInv, SortedInv, SortInv
<1>5. c \notin Nulls BY <1>4, NullsAlone DEF AssertInv
<1>6. ReplayCalls(c) \in {StayIn(c) \o widen, StayIn(c), AnyOrder(batches)} BY DEF ReplayCalls
<1>7. ListSound(Nulls, StayIn(c)) BY <1>2, <1>4, StayInSound DEF AssertInv
<1>8. ListSound(Nulls, widen)
  BY <1>4, SoundCalls, SoundFew
<1>9. ListSound(Nulls, AnyOrder(batches))
  <2>1. \A t \in Transfers(c) : t.dst \notin Nulls BY <1>2 DEF AssertInv, SortedInv, NullInv
  <2> HIDE DEF given, c
  <2>2. \A t \in Transfers(c) : /\ OneSound(Nulls, Need(t.dst))
                                /\ OneSound(Nulls, Shift(c, t, given))
    BY <1>4, <2>1, SoundCalls
  <2>3. \A b \in batches : BatchSound(Nulls, b) BY <2>2, SoundFew
  <2> HIDE DEF batches
  <2> QED BY <2>3, SoundAnyOrder
<1> HIDE DEF widen, batches, given, c
<1>10. ListSound(Nulls, StayIn(c) \o widen) BY <1>7, <1>8, SoundAppend
<1>11. ListSound(Nulls, ReplayCalls(c)) BY <1>6, <1>7, <1>9, <1>10
<1>12. UNCHANGED <<rep, pointee, cells, facts, fns, content>>
  BY <1>3 DEF graphVars, factVars, contentVars, callVars, fieldVars
<1> QED BY <1>1, <1>3, <1>11, <1>12, OnlySound

\* A summary is joined with regions.
LEMMA WidenSummarySorted ==
  ASSUME TypeInv, AssertInv, WidenSummary
  PROVE  AssertInv'
<1> DEFINE call == Head(agenda)  unknown == Region(Unknown, {0})
           owners == fns[rep[call.of]] \cup {g[1] : g \in call.given}
           batches == {<<NeedCell(o, unknown), Join(Of(call.of), CellOf(o, unknown))>> : o \in owners}
<1>1. /\ Sound(Nulls, call) /\ agenda # <<>> /\ call.call = "widen"
  BY HeadSound DEF WidenSummary
<1>2. call.of \notin Values /\ call.of \notin Nulls BY <1>1, NullsAlone DEF Sound, AssertInv
<1>3. Then(AnyOrder(batches)) /\ UNCHANGED <<readVars, classVars>> BY DEF WidenSummary
<1> HIDE DEF call, unknown, owners
<1>4. \A o \in owners : /\ OneSound(Nulls, NeedCell(o, unknown))
                        /\ OneSound(Nulls, Join(Of(call.of), CellOf(o, unknown)))
  BY <1>2, SoundCalls, TermsSorted
<1>5. \A b \in batches : BatchSound(Nulls, b) BY <1>4, SoundFew
<1> HIDE DEF batches
<1>6. ListSound(Nulls, AnyOrder(batches)) BY <1>5, SoundAnyOrder
<1>7. UNCHANGED <<rep, pointee, cells, facts, fns, regions, shifts, content>>
  BY <1>3 DEF classVars, knownVars, graphVars, factVars, contentVars, callVars, shiftVars, fieldVars
<1> QED BY <1>1, <1>3, <1>6, <1>7, OnlySound

\* A shift joins what its target points to with a region.
LEMMA ShiftTransferSorted ==
  ASSUME TypeInv, AssertInv, ShiftTransfer
  PROVE  AssertInv'
<1> DEFINE call == Head(agenda)  c == call.of  dst == call.transfer.dst  delta == call.transfer.delta
           circular == IsExact(delta) /\ Find(PointeeOf(dst)) = rep[c]
           Shifted(o, region) ==
             IF circular /\ IsExact(region.location)
               THEN LET unknown == Region(Unknown, region.width)
                    IN <<NeedCell(o, unknown), Join(PointeeOf(dst), CellOf(o, unknown))>>
               ELSE <<ShiftedField(o, Region(add(region.location, delta), region.width), dst)>>
           batches == {Shifted(g[1], g[2]) : g \in call.given}
           calls == ShiftCalls(c, call.transfer, call.given)
<1>1. /\ Sound(Nulls, call) /\ agenda # <<>> /\ call.call = "shift" BY HeadSound DEF ShiftTransfer
<1>2. c \notin Values /\ c \notin Nulls BY <1>1, NullsAlone DEF Sound, AssertInv
<1>3. Then(calls) /\ UNCHANGED <<readVars, classVars>> BY DEF ShiftTransfer
<1>4. calls = IF delta = Exact(0) THEN <<Join(PointeeOf(dst), Of(c))>> ELSE AnyOrder(batches)
  BY DEF ShiftCalls
<1> HIDE DEF call, circular, calls
<1>5. \A o, region : BatchSound(Nulls, Shifted(o, region))
  <2> TAKE o, region
  <2> DEFINE unknown == Region(Unknown, region.width)
             there == Region(add(region.location, delta), region.width)
  <2>1. BatchSound(Nulls, <<NeedCell(o, unknown), Join(PointeeOf(dst), CellOf(o, unknown))>>)
    BY SoundCalls, TermsSorted, SoundFew
  <2>2. BatchSound(Nulls, <<ShiftedField(o, there, dst)>>) BY SoundCalls, SoundFew
  <2> QED BY <2>1, <2>2
<1> HIDE DEF Shifted
<1>6. \A b \in batches : BatchSound(Nulls, b) BY <1>5
<1> HIDE DEF batches
<1>7. ListSound(Nulls, AnyOrder(batches)) BY <1>6, SoundAnyOrder
<1>8. ListSound(Nulls, <<Join(PointeeOf(dst), Of(c))>>) BY <1>2, SoundCalls, TermsSorted, SoundFew
<1>9. ListSound(Nulls, calls) BY <1>4, <1>7, <1>8
<1>10. UNCHANGED <<rep, pointee, cells, facts, fns, regions, shifts, content>>
  BY <1>3 DEF classVars, knownVars, graphVars, factVars, contentVars, callVars, shiftVars, fieldVars
<1> QED BY <1>1, <1>3, <1>9, <1>10, OnlySound

\* So does a shift that found its region.
LEMMA ShiftedFieldClassSorted ==
  ASSUME TypeInv, AssertInv, ShiftedFieldClass
  PROVE  AssertInv'
<1> DEFINE call == Head(agenda)
<1>1. agenda # <<>> BY DEF ShiftedFieldClass, Calling
<1>2. PICK o, region, dst : Then(<<NeedCell(o, region), Join(PointeeOf(dst), CellOf(o, region))>>)
  BY DEF ShiftedFieldClass
<1>3. ListSound(Nulls, <<NeedCell(o, region), Join(PointeeOf(dst), CellOf(o, region))>>)
  BY SoundCalls, TermsSorted, SoundFew
<1>4. UNCHANGED <<readVars, rep, pointee, cells, facts, fns, regions, shifts, content>>
  BY DEF ShiftedFieldClass, graphVars, factVars, contentVars, callVars, shiftVars
<1> QED BY <1>1, <1>2, <1>3, <1>4, OnlySound

\* The regions of allocations are in classes of locations.
LEMMA FieldsSorted ==
  ASSUME TypeInv, SortedInv, NEW owners
  PROVE  FieldsOf(owners) \cap Values = {}
<1>1. \A k \in DOMAIN cells : cells[k] \in Class BY DEF TypeInv, GraphOK, Live
<1>2. \A k \in DOMAIN cells : cells[k] \notin Values BY DEF SortedInv, SortInv
<1>3. \A k \in DOMAIN cells : rep[cells[k]] \notin Values BY <1>1, <1>2, NullsAlone
<1> QED BY <1>3 DEF FieldsOf

\* What escapes with an allocation are regions.
LEMMA EscapeAllocationFieldsSorted ==
  ASSUME TypeInv, AssertInv, EscapeAllocationFields
  PROVE  AssertInv'
<1>1. agenda # <<>> BY DEF EscapeAllocationFields, Calling
<1>2. PICK owners, labels : Grant(FieldsOf(owners) \X Escape, labels)
  <2> DEFINE call == Head(agenda)
             already == call.root \in DOMAIN escaped /\ escaped[call.root] # {}
             reached == IF already THEN {} ELSE FieldsOf({call.root})
  <2>1. Grant(reached \X Escape, reached \X {FieldLabel(call.labels)}) BY DEF EscapeAllocationFields
  <2>2. FieldsOf({}) = {} BY DEF FieldsOf
  <2>3. CASE already BY <2>1, <2>2, <2>3
  <2>4. CASE ~already BY <2>1, <2>4
  <2> QED BY <2>3, <2>4
<1> DEFINE given == FieldsOf(owners) \X Escape
<1>3. \A g \in given : g[1] \in FieldsOf(owners)
  OBVIOUS
<1>4. \A g \in given : g[1] \notin Nulls /\ (g[2] \in Escape => g[1] \notin Values)
  BY <1>3, FieldsSorted, NullsAlone DEF AssertInv
<1>5. /\ Return
      /\ UNCHANGED <<readVars, graphVars, contentVars, callVars, shiftVars, cells, lanes>>
  BY DEF EscapeAllocationFields
<1> HIDE DEF given
<1>6. Grant(given, labels) BY <1>2 DEF given
<1>7. SortedInv'
  BY <1>4, <1>5, <1>6, GrantSorted DEF AssertInv, readVars, graphVars, contentVars, callVars, shiftVars
<1> QED BY <1>1, <1>5, <1>7, SortedSteps

\* No instruction, call or caller makes a null constant.
LEMMA NullsUnmade ==
  ASSUME NEW v \in Nulls
  PROVE  /\ v \in program.empty /\ v \notin program.entry
         /\ \A e \in Listed(program.edges) :
              e.kind \in {"addrof", "assign", "load", "gep"} => e.dst # v
         /\ \A f \in Functions :
              v \notin program.ret[f] /\ \A i \in DOMAIN program.params[f] : v \notin program.params[f][i]
         /\ \A site \in Sites : v \notin program.result[site]
         /\ \A seed \in Listed(program.seeds) :
              seed.kind \in {"int_to_ptr", "unknown_result", "vararg_list"} => seed.at # v
BY DEF Nulls, CanonicalNulls, Producers

\* What publishing calls is sound for any value but a null.
LEMMA PublishSound ==
  ASSUME NEW v, NEW labels
  PROVE  /\ BatchSound(Nulls, EscapeExact(v, labels))
         /\ v \notin Nulls => BatchSound(Nulls, Publish(v, labels))
<1>1. BatchSound(Nulls, EscapeExact(v, labels))
  <2>1. EscapeExact(v, labels) = <<>> \/ \E o : EscapeExact(v, labels) = <<EscapeFields(o, labels)>>
    BY DEF EscapeExact
  <2> QED BY <2>1, SoundCalls, SoundFew
<1>2. v \notin Nulls => BatchSound(Nulls, <<Need(v), Give(PointeeOf(v), Escape, labels)>>)
  BY SoundCalls, TermsSorted, SoundFew
<1> QED BY <1>1, <1>2, SoundAppend DEF Publish

\* So is a transfer to anything but a null.
LEMMA TransferSound ==
  ASSUME AssertInv, NEW src \in Values, NEW dst \in Values, dst \notin Nulls
  PROVE  BatchSound(Nulls, Transfer(src, dst))
<1>1. src \notin program.empty => src \notin Nulls BY NullsUnmade
<1>2. {"empty"} \cap Escape = {} BY DEF Escape
<1>3. OneSound(Nulls, Give(Of(dst), {"empty"}, {})) BY <1>2, SoundCalls, TermsSorted
<1>4. src \notin program.empty => OneSound(Nulls, Join(Of(src), Of(dst)))
  BY <1>1, SoundCalls, TermsSorted
<1> QED BY <1>3, <1>4, SoundFew DEF Transfer

\* And a transfer between sets.
LEMMA TransferAnySound ==
  ASSUME AssertInv, NEW srcs \in SUBSET Values, NEW dsts \in SUBSET Values, dsts \cap Nulls = {}
  PROVE  ListSound(Nulls, TransferAny(srcs, dsts))
<1>1. CASE srcs = {} \/ dsts = {} BY <1>1, SoundFew DEF TransferAny
<1>2. CASE srcs # {} /\ dsts # {}
  <2> DEFINE src == CHOOSE v \in srcs : TRUE  dst == CHOOSE v \in dsts : TRUE
  <2>1. src \in srcs /\ dst \in dsts BY <1>2
  <2>2. TransferAny(srcs, dsts) = Transfer(src, dst) BY <1>2 DEF TransferAny
  <2> HIDE DEF src, dst
  <2>3. src \in Values /\ dst \in Values /\ dst \notin Nulls BY <2>1
  <2> QED BY <2>2, <2>3, TransferSound, SoundFew
<1> QED BY <1>1, <1>2

\* Binding a call is to bind its arguments.
LEMMA BindIndirectCallSorted ==
  ASSUME TypeInv, AssertInv, BindIndirectCall
  PROVE  AssertInv'
<1> DEFINE site == Head(agenda).site  f == Head(agenda).function
           opens == IF f \in program.external THEN <<ApplyExternal(site)>> ELSE <<>>
<1>1. agenda # <<>> /\ Then(opens \o <<BindFrom(site, f, 1)>>) /\ UNCHANGED <<readVars, classVars>>
  BY DEF BindIndirectCall, Calling
<1>2. ListSound(Nulls, opens) /\ ListSound(Nulls, <<BindFrom(site, f, 1)>>) BY SoundCalls, SoundFew
<1> HIDE DEF opens
<1>3. ListSound(Nulls, opens \o <<BindFrom(site, f, 1)>>) BY <1>2, SoundAppend
<1>4. UNCHANGED <<rep, pointee, cells, facts, fns, regions, shifts, content>>
  BY <1>1 DEF classVars, knownVars, graphVars, factVars, contentVars, callVars, shiftVars, fieldVars
<1> QED BY <1>1, <1>3, <1>4, OnlySound

\* Arguments go to parameters and results to results, which are no nulls.
LEMMA BindArgumentsSorted ==
  ASSUME TypeInv, AssertInv, BindArguments
  PROVE  AssertInv'
<1> DEFINE site == Head(agenda).site  f == Head(agenda).function  i == Head(agenda).from
           passed == TransferAny({Args(site)[i]}, Params(f)[i])
           rest == <<BindFrom(site, f, i + 1)>>
           returned == TransferAny(program.ret[f], program.result[site])
           calls == IF i \in DOMAIN Args(site) /\ i \in DOMAIN Params(f) THEN passed \o rest ELSE returned
<1>1. agenda # <<>> /\ Then(calls) /\ UNCHANGED <<readVars, classVars>> BY DEF BindArguments, Calling
<1>2. site \in Sites /\ f \in Functions
  BY CalledOK DEF BindArguments, CallNames, CallOK, Typed
<1>3. ProgramOK BY DEF TypeInv
<1>4. ListSound(Nulls, returned)
  <2>1. program.ret[f] \in SUBSET Values /\ program.result[site] \in SUBSET Values
    BY <1>2, <1>3 DEF ProgramOK
  <2>2. program.result[site] \cap Nulls = {} BY <1>2, NullsUnmade
  <2> QED BY <2>1, <2>2, TransferAnySound
<1>5. ASSUME i \in DOMAIN Args(site), i \in DOMAIN Params(f) PROVE ListSound(Nulls, passed)
  <2>1. {Args(site)[i]} \in SUBSET Values BY <1>2, <1>3, <1>5 DEF ProgramOK, Args
  <2>2. Params(f)[i] \in SUBSET Values BY <1>2, <1>3, <1>5 DEF ProgramOK, Params
  <2>3. Params(f)[i] \cap Nulls = {} BY <1>2, <1>5, NullsUnmade DEF Params
  <2> QED BY <2>1, <2>2, <2>3, TransferAnySound
<1>6. ListSound(Nulls, rest) BY SoundCalls, SoundFew
<1> HIDE DEF passed, rest, returned
<1>7. ListSound(Nulls, calls) BY <1>4, <1>5, <1>6, SoundAppend
<1>8. UNCHANGED <<rep, pointee, cells, facts, fns, regions, shifts, content>>
  BY <1>1 DEF classVars, knownVars, graphVars, factVars, contentVars, callVars, shiftVars, fieldVars
<1> HIDE DEF calls
<1> QED BY <1>1, <1>7, <1>8, OnlySound

\* A call to outside publishes its arguments.
LEMMA ApplyExternalCallSorted ==
  ASSUME TypeInv, AssertInv, ApplyExternalCall
  PROVE  AssertInv'
<1> DEFINE site == Head(agenda).site  calls == IF site \in externals THEN <<>> ELSE <<PublishFrom(site, 1)>>
<1>1. agenda # <<>> /\ Then(calls) BY DEF ApplyExternalCall, Calling
<1>2. ListSound(Nulls, calls) BY SoundCalls, SoundFew
<1>3. UNCHANGED <<readVars, rep, pointee, cells, facts, fns, regions, shifts, content>>
  BY DEF ApplyExternalCall, graphVars, factVars, contentVars, callVars, shiftVars, fieldVars
<1> HIDE DEF calls
<1> QED BY <1>1, <1>2, <1>3, OnlySound

\* An argument that may be a null is not published.
LEMMA PublishArgumentsSorted ==
  ASSUME TypeInv, AssertInv, PublishArguments
  PROVE  AssertInv'
<1> DEFINE site == Head(agenda).site  i == Head(agenda).from  result == program.result[site]
           given == PublishArgument(site, Args(site)[i])
           rest == <<PublishFrom(site, i + 1)>>
           last == IF result = {} THEN <<>> ELSE <<Give(Of(CHOOSE v \in result : TRUE), External, {})>>
           calls == IF i \in DOMAIN Args(site) THEN given \o rest ELSE last
<1>1. agenda # <<>> /\ Then(calls) /\ UNCHANGED <<readVars, classVars>> BY DEF PublishArguments, Calling
<1>2. site \in Sites BY CalledOK DEF PublishArguments, CallNames, CallOK, Typed
<1>3. ListSound(Nulls, given)
  <2> DEFINE v == Args(site)[i]
  <2> HIDE DEF v
  <2>1. v \notin program.empty => v \notin Nulls BY NullsUnmade
  <2>2. BatchSound(Nulls, PublishArgument(site, v)) BY <2>1, PublishSound, SoundFew DEF PublishArgument
  <2> QED BY <2>2, SoundFew DEF v
<1>4. ListSound(Nulls, rest) BY SoundCalls, SoundFew
<1>5. ListSound(Nulls, last)
  <2> DEFINE v == CHOOSE w \in result : TRUE
  <2>1. CASE result = {} BY <2>1, SoundFew
  <2>2. CASE result # {}
    <3>1. v \in result BY <2>2
    <3>2. v \notin Nulls BY <1>2, <3>1, NullsUnmade
    <3> HIDE DEF v
    <3>3. External \cap Escape = {} BY DEF External, Escape
    <3>4. ListSound(Nulls, <<Give(Of(v), External, {})>>) BY <3>2, <3>3, SoundCalls, TermsSorted, SoundFew
    <3> QED BY <2>2, <3>4 DEF v
  <2> QED BY <2>1, <2>2
<1> HIDE DEF given, rest, last
<1>6. ListSound(Nulls, calls) BY <1>3, <1>4, <1>5, SoundAppend
<1>7. UNCHANGED <<rep, pointee, cells, facts, fns, regions, shifts, content>>
  BY <1>1 DEF classVars, knownVars, graphVars, factVars, contentVars, callVars, shiftVars, fieldVars
<1> HIDE DEF calls
<1> QED BY <1>1, <1>6, <1>7, OnlySound

\* A variadic argument is published only as far as it points anywhere.
LEMMA ApplyVarargCallSorted ==
  ASSUME TypeInv, AssertInv, ApplyVarargCall
  PROVE  AssertInv'
<1> DEFINE site == Head(agenda).site  i == Head(agenda).from
           given == TailCalls(site, Args(site)[i])
           rest == <<PublishTail(site, i + 1)>>
           calls == IF i \in DOMAIN Args(site) THEN given \o rest ELSE <<>>
<1>1. agenda # <<>> /\ Then(calls) /\ UNCHANGED <<readVars, classVars>> BY DEF ApplyVarargCall, Calling
<1>2. BatchSound(Nulls, given)
  <2> DEFINE v == Args(site)[i]  label == {Label("vararg-call", site)}
             tail == IF pointee[rep[v]] = NoClass THEN <<>> ELSE <<Give(PointeeOf(v), Escape, label)>>
  <2>1. given = EscapeExact(v, label) \o tail BY DEF TailCalls
  <2>2. BatchSound(Nulls, tail) BY SoundCalls, TermsSorted, SoundFew
  <2> HIDE DEF tail, label, v, given
  <2> QED BY <2>1, <2>2, PublishSound, SoundAppend
<1>3. ListSound(Nulls, given) /\ ListSound(Nulls, rest) /\ ListSound(Nulls, <<>>)
  BY <1>2, SoundCalls, SoundFew
<1> HIDE DEF given, rest
<1>4. ListSound(Nulls, calls) BY <1>3, SoundAppend
<1>5. UNCHANGED <<rep, pointee, cells, facts, fns, regions, shifts, content>>
  BY <1>1 DEF classVars, knownVars, graphVars, factVars, contentVars, callVars, shiftVars, fieldVars
<1> HIDE DEF calls
<1> QED BY <1>1, <1>4, <1>5, OnlySound

\* Whatever working off a class gives and calls is sound.
LEMMA ProcessClassSorted ==
  ASSUME TypeInv, EdgesOK, AssertInv, ProcessClass
  PROVE  AssertInv'
<1> DEFINE c == rep[Head(agenda).of]
           returned == {Publish(v, sources[c]) : v \in ReturnedBy(NowPublished(c))}
           outside == {<<ApplyExternal(s)>> : s \in NowOpened(c)}
           bound == {<<Bind(b[1], b[2])>> : b \in (NewPairs(c) \ pairs) \cap program.compatible}
           calls == (AnyOrder(returned) \o AnyOrder(outside)) \o AnyOrder(bound)
<1>1. /\ c \in Live /\ c \in Class /\ rep[c] = c
      /\ agenda # <<>>
      /\ Grant(ProcessGiven(c), ProcessLabels(c))
      /\ Then(calls)
      /\ NowPublished(c) \subseteq Functions
      /\ UNCHANGED <<readVars, graphVars, content, sites, fns, regions, shifts, replayed,
                     cells, lanes, externals>>
  BY ProcessTables
<1> HIDE DEF c, returned, outside, bound
<1>2. GraphOK /\ ProgramOK BY DEF TypeInv
<1>3. ListSound(Nulls, AnyOrder(returned))
  <2>1. \A v \in ReturnedBy(NowPublished(c)) : v \notin Nulls BY NullsUnmade DEF ReturnedBy
  <2>2. \A b \in returned : BatchSound(Nulls, b) BY <2>1, PublishSound DEF returned
  <2> QED BY <2>2, SoundAnyOrder
<1>4. ListSound(Nulls, AnyOrder(outside))
  <2>1. \A b \in outside : BatchSound(Nulls, b) BY SoundCalls, SoundFew DEF outside
  <2> QED BY <2>1, SoundAnyOrder
<1>5. ListSound(Nulls, AnyOrder(bound))
  <2>1. \A b \in bound : BatchSound(Nulls, b) BY SoundCalls, SoundFew DEF bound
  <2> QED BY <2>1, SoundAnyOrder
<1>6. ListSound(Nulls, calls)
  <2> DEFINE x == AnyOrder(returned)  y == AnyOrder(outside)  z == AnyOrder(bound)
  <2> HIDE DEF x, y, z
  <2>1. ListSound(Nulls, x \o y) BY <1>3, <1>4, SoundAppend DEF x, y
  <2>2. ListSound(Nulls, (x \o y) \o z) BY <1>5, <2>1, SoundAppend DEF z
  <2> QED BY <2>2 DEF x, y, z
<1>7. \A d \in FieldsOf(OwnersToEscape(c)) : d \notin Values /\ d \notin Nulls
  BY FieldsSorted, NullsAlone DEF AssertInv
<1>8. \A d \in Targets(c) : d \notin Values /\ d \notin Nulls
  BY <1>1, PointeeSorted, NullsAlone DEF Targets, AssertInv
<1>9. \A d \in Successors(c) : d \notin Nulls
  <2>1. \A d \in content[c] : d \in Class /\ d \notin Nulls
    BY <1>1 DEF EdgesOK, Live, AssertInv, SortedInv, NullInv
  <2>2. \A d \in Successors(c) : \E e \in content[c] : d = rep[e] BY DEF Successors
  <2> QED BY <2>1, <2>2, NullsAlone DEF AssertInv
<1>10. Carried(c) \cap Escape = {} /\ External \cap Escape = {}
  BY DEF Carried, External, Escape, ForgedUnion
<1>11. \A d \in ParametersOf(NowPublished(c)) : d \notin Nulls
  <2>1. \A d \in ParametersOf(NowPublished(c)) :
          \E f \in Functions : \E i \in DOMAIN Params(f) : \E v \in Params(f)[i] : d = rep[v]
    BY <1>1 DEF ParametersOf
  <2>2. \A f \in Functions : \A i \in DOMAIN Params(f) : \A v \in Params(f)[i] : v \in Values /\ v \notin Nulls
    BY <1>2, NullsUnmade DEF ProgramOK, Params
  <2> QED BY <2>1, <2>2, NullsAlone DEF AssertInv
<1> DEFINE given == ProcessGiven(c)
<1>12. \A g \in given : g[1] \notin Nulls /\ (g[2] \in Escape => g[1] \notin Values)
  <2>1. \A g \in FieldsOf(OwnersToEscape(c)) \X Escape : g[1] \notin Nulls /\ g[1] \notin Values
    BY <1>7
  <2>2. \A g \in Targets(c) \X PushedDown(c) : g[1] \notin Nulls /\ g[1] \notin Values
    BY <1>8
  <2>3. \A g \in Successors(c) \X Carried(c) : g[1] \notin Nulls /\ g[2] \notin Escape
    BY <1>9, <1>10
  <2>4. \A g \in ParametersOf(NowPublished(c)) \X External : g[1] \notin Nulls /\ g[2] \notin Escape
    BY <1>10, <1>11
  <2>5. \A g \in given : \/ g \in FieldsOf(OwnersToEscape(c)) \X Escape
                         \/ g \in Targets(c) \X PushedDown(c)
                         \/ g \in Successors(c) \X Carried(c)
                         \/ g \in ParametersOf(NowPublished(c)) \X External
    BY Zenon DEF ProcessGiven
  <2> HIDE DEF given
  <2> QED BY <2>1, <2>2, <2>3, <2>4, <2>5
<1> HIDE DEF given
<1>13. Grant(given, ProcessLabels(c)) BY <1>1 DEF given
<1>14. SortedInv'
  BY <1>1, <1>12, <1>13, GrantSorted DEF AssertInv, readVars, graphVars
<1> HIDE DEF calls
<1> QED BY <1>1, <1>6, <1>14, SortedSteps

\* One of several sound lists.
LEMMA NextInAnyOrderSorted ==
  ASSUME TypeInv, AssertInv, NextInAnyOrder
  PROVE  AssertInv'
<1>1. agenda # <<>> /\ Head(agenda).call = "in_any_order" /\ UNCHANGED <<readVars, classVars>>
  BY DEF NextInAnyOrder, Calling
<1> DEFINE batches == Head(agenda).batches
<1>2. PICK b \in batches : Then(b \o AnyOrder(batches \ {b})) BY DEF NextInAnyOrder
<1>3. \A x \in batches : BatchSound(Nulls, x) BY <1>1, SoundNext DEF AssertInv, OneSound
<1> HIDE DEF batches
<1>4. ListSound(Nulls, b) /\ ListSound(Nulls, AnyOrder(batches \ {b})) BY <1>3, SoundFew, SoundAnyOrder
<1> DEFINE rest == AnyOrder(batches \ {b})
<1> HIDE DEF rest
<1>5. ListSound(Nulls, b \o rest) BY <1>4, SoundAppend DEF rest
<1>6. UNCHANGED <<rep, pointee, cells, facts, fns, regions, shifts, content>>
  BY <1>1 DEF classVars, knownVars, graphVars, factVars, contentVars, callVars, shiftVars, fieldVars
<1> QED BY <1>1, <1>2, <1>5, <1>6, OnlySound DEF rest

\* The storage of an access through a pointer that is no null.
LEMMA StorageSound ==
  ASSUME TypeInv, AssertInv, NEW v \in Values, v \notin Nulls, NEW width, NEW direct
  PROVE  /\ BatchSound(Nulls, Storage(v, width, direct))
         /\ Place(StorageTerm(v, width, direct)) /\ Clear(Nulls, StorageTerm(v, width, direct))
<1>1. CASE program.exact[v] = {}
  <2>1. Storage(v, width, direct) = <<Need(v)>> /\ StorageTerm(v, width, direct) = PointeeOf(v)
    BY <1>1 DEF Storage, StorageTerm
  <2>2. OneSound(Nulls, Need(v)) BY SoundCalls
  <2>3. Place(PointeeOf(v)) /\ Clear(Nulls, PointeeOf(v)) BY TermsSorted
  <2> QED BY <2>1, <2>2, <2>3, SoundFew
<1>2. CASE program.exact[v] # {}
  <2> DEFINE a == TheExact(v)
             cell == Region(a.location, width)
             make == NeedCell(a.root, cell)
             merge == Join(Of(a.root), CellOf(a.root, cell))
  <2>1. Storage(v, width, direct) = ExactStorage(a, width, direct)
        /\ StorageTerm(v, width, direct) = ExactStorageTerm(a, width, direct)
    BY <1>2 DEF Storage, StorageTerm
  <2>2. a.root \in Allocations BY <1>2 DEF TypeInv, ProgramOK, TheExact
  <2> HIDE DEF a
  <2>3. a.root \notin Values /\ a.root \notin Nulls BY <2>2, SteensgaardAssumption, NullsAlone DEF AssertInv
  <2>4. OneSound(Nulls, make) BY SoundCalls
  <2>5. OneSound(Nulls, merge) BY <2>3, SoundCalls, TermsSorted
  <2>6. ExactStorage(a, width, direct) = IF ~DirectRoot(a, direct) THEN <<make>>
                                         ELSE IF width = {0} THEN <<>> ELSE <<make, merge>>
    BY DEF ExactStorage
  <2>7. ExactStorageTerm(a, width, direct) = IF DirectRoot(a, direct) THEN Of(a.root)
                                             ELSE CellOf(a.root, cell)
    BY DEF ExactStorageTerm
  <2> HIDE DEF make, merge, cell
  <2>8. BatchSound(Nulls, ExactStorage(a, width, direct)) BY <2>4, <2>5, <2>6, SoundFew
  <2>9. /\ Place(ExactStorageTerm(a, width, direct)) /\ Clear(Nulls, ExactStorageTerm(a, width, direct))
    BY <2>3, <2>7, TermsSorted DEF cell
  <2> QED BY <2>1, <2>8, <2>9
<1> QED BY <1>1, <1>2

\* Three calls.
LEMMA SoundThree ==
  ASSUME NEW n, NEW c, NEW d, NEW e, OneSound(n, c), OneSound(n, d), OneSound(n, e)
  PROVE  BatchSound(n, <<c, d, e>>)
<1>1. <<c, d, e>> \in Seq({c, d, e})
  OBVIOUS
<1>2. DOMAIN <<c, d, e>> = {1, 2, 3} /\ <<c, d, e>>[1] = c /\ <<c, d, e>>[2] = d /\ <<c, d, e>>[3] = e
  OBVIOUS
<1> DEFINE s == <<c, d, e>>
<1> HIDE DEF s
<1>3. Proper(s) /\ DOMAIN s = {1, 2, 3} /\ s[1] = c /\ s[2] = d /\ s[3] = e
  BY <1>1, <1>2 DEF Proper, s
<1>4. BatchSound(n, s) BY <1>3 DEF BatchSound
<1> QED BY <1>4 DEF s

\* What an edge of the program calls is sound.
LEMMA EdgeSound ==
  ASSUME TypeInv, AssertInv, NEW e \in EdgeShapes, e \in Listed(program.edges)
  PROVE  ListSound(Nulls, EdgeCalls(e))
<1> DEFINE n == Nulls
<1>1. /\ e.kind = "addrof" => e.src \in Owners
      /\ e.kind # "addrof" => e.src \in Values
      /\ e.dst \in Values /\ e.kind \in {"addrof"} \cup FlowKinds
  BY EdgeTypes
<1>2. e.kind \in {"addrof", "assign", "load", "gep"} => e.dst \notin n BY NullsUnmade
<1>3. \A v : v \notin program.empty => v \notin n BY NullsUnmade
<1>4. n \subseteq Values BY NullsAlone DEF AssertInv
<1> HIDE DEF n
<1>5. CASE e.kind = "addrof"
  <2>1. e.src \notin Values BY <1>1, <1>5, SteensgaardAssumption DEF Owners
  <2>2. OneSound(n, Need(e.dst)) /\ OneSound(n, Join(PointeeOf(e.dst), Of(e.src)))
    BY <1>2, <1>4, <1>5, <2>1, SoundCalls, TermsSorted
  <2>3. BatchSound(n, AddrOfCalls(e)) BY <2>2, SoundFew DEF AddrOfCalls
  <2> QED BY <1>5, <2>3, SoundFew DEF EdgeCalls, n
<1>6. CASE e.kind = "assign"
  <2> DEFINE storage == StorageTerm(e.dst, {0}, TRUE)
             first == Storage(e.dst, {0}, TRUE)
             calls == <<Need(e.dst), Join(PointeeOf(e.dst), storage)>>
  <2>1. BatchSound(n, Transfer(e.src, e.dst))
    BY <1>1, <1>2, <1>6, TransferSound DEF n
  <2>2. e.dst \in Values /\ e.dst \notin n /\ e.src \in Values BY <1>1, <1>2, <1>6
  <2>3. CASE program.exact[e.dst] = {}
    <3>1. AssignCalls(e) = Transfer(e.src, e.dst) BY <2>3 DEF AssignCalls
    <3> QED BY <1>6, <2>1, <3>1, SoundFew DEF EdgeCalls, n
  <2>4. CASE program.exact[e.dst] # {}
    <3>1. BatchSound(n, first) /\ Place(storage) /\ Clear(n, storage)
      BY <2>2, StorageSound DEF n
    <3> HIDE DEF storage, first
    <3>2. BatchSound(n, calls) BY <2>2, <3>1, SoundCalls, TermsSorted, SoundFew
    <3> HIDE DEF calls
    <3>3. BatchSound(n, first \o calls) BY <3>1, <3>2, SoundAppend
    <3>4. BatchSound(n, AssignCalls(e)) BY <2>1, <3>3 DEF AssignCalls, storage, first, calls
    <3> QED BY <1>6, <3>4, SoundFew DEF EdgeCalls, n
  <2> QED BY <2>3, <2>4
<1>7. CASE e.kind = "load"
  <2> DEFINE storage == StorageTerm(e.src, e.width, TRUE)
             first == Storage(e.src, e.width, TRUE)
             calls == <<Unify(storage, Of(e.dst)), Content(storage, Of(e.dst))>>
  <2>1. e.dst \notin n /\ e.src \in Values BY <1>1, <1>2, <1>7
  <2>2. ForgedUnion \cap Escape = {} BY DEF ForgedUnion, Escape
  <2>3. BatchSound(n, <<Give(Of(e.dst), ForgedUnion, {})>>) BY <2>1, <2>2, SoundCalls, TermsSorted, SoundFew
  <2>4. ASSUME e.src \notin program.empty PROVE BatchSound(n, first \o calls)
    <3>1. BatchSound(n, first) /\ Place(storage) /\ Clear(n, storage)
      BY <1>3, <2>1, <2>4, StorageSound DEF n
    <3> HIDE DEF storage, first
    <3>2. BatchSound(n, calls) BY <2>1, <3>1, SoundCalls, TermsSorted, SoundFew
    <3> HIDE DEF calls
    <3> QED BY <3>1, <3>2, SoundAppend
  <2> HIDE DEF calls, first, storage
  <2>5. BatchSound(n, LoadCalls(e)) BY <2>3, <2>4, SoundFew DEF LoadCalls, IsEmpty, calls, first, storage
  <2> QED BY <1>7, <2>5, SoundFew DEF EdgeCalls, n
<1>8. CASE e.kind = "store"
  <2> DEFINE storage == StorageTerm(e.dst, e.width, TRUE)
             first == Storage(e.dst, e.width, TRUE)
             null == <<Give(storage, {"empty"}, {})>>
             calls == <<Unify(storage, Of(e.src)), Give(storage, {"written"}, {}),
                        Content(Of(e.src), storage)>>
  <2>1. e.dst \in Values /\ e.src \in Values BY <1>1, <1>8
  <2>2. {"empty"} \cap Escape = {} /\ {"written"} \cap Escape = {} BY DEF Escape
  <2>3. ASSUME e.dst \notin program.empty
        PROVE  /\ BatchSound(n, first \o null)
               /\ e.src \notin program.empty => BatchSound(n, first \o calls)
    <3>1. BatchSound(n, first) /\ Place(storage) /\ Clear(n, storage)
      BY <1>3, <2>1, <2>3, StorageSound DEF n
    <3> HIDE DEF storage, first
    <3>2. BatchSound(n, null) BY <2>2, <3>1, SoundCalls, SoundFew
    <3>3. ASSUME e.src \notin program.empty PROVE BatchSound(n, calls)
      <4>1. Clear(n, Of(e.src)) BY <1>3, <3>3, TermsSorted
      <4>2. /\ OneSound(n, Unify(storage, Of(e.src))) /\ OneSound(n, Give(storage, {"written"}, {}))
            /\ OneSound(n, Content(Of(e.src), storage))
        BY <2>2, <3>1, <4>1, SoundCalls
      <4> QED BY <4>2, SoundThree
    <3> HIDE DEF null, calls
    <3> QED BY <3>1, <3>2, <3>3, SoundAppend
  <2> HIDE DEF calls, first, storage, null
  <2>4. BatchSound(n, StoreCalls(e)) BY <2>3, SoundFew DEF StoreCalls, IsEmpty, calls, first, storage, null
  <2> QED BY <1>8, <2>4, SoundFew DEF EdgeCalls, n
<1>9. CASE e.kind = "gep"
  <2> DEFINE o == TheExact(e.dst).root  cell == Region(TheExact(e.dst).location, {0})
  <2>1. e.dst \notin n /\ e.src \in Values BY <1>1, <1>2, <1>9
  <2>2. ForgedUnion \cap Escape = {} BY DEF ForgedUnion, Escape
  <2>3. BatchSound(n, <<Give(Of(e.dst), ForgedUnion, {})>>) BY <2>1, <2>2, SoundCalls, TermsSorted, SoundFew
  <2>4. ASSUME e.src \notin program.empty
        PROVE  BatchSound(n, <<Need(e.src), AddShift(e.src, e.dst, e.delta), Content(Of(e.src), Of(e.dst))>>)
    <3>1. e.src \notin n BY <1>3, <2>4
    <3>2. /\ OneSound(n, Need(e.src)) /\ OneSound(n, AddShift(e.src, e.dst, e.delta))
          /\ OneSound(n, Content(Of(e.src), Of(e.dst)))
      BY <2>1, <3>1, SoundCalls, TermsSorted
    <3> QED BY <3>2, SoundThree
  <2>5. BatchSound(n, <<Need(e.dst), NeedCell(o, cell), Join(PointeeOf(e.dst), CellOf(o, cell))>>)
    BY <2>1, SoundCalls, TermsSorted, SoundThree
  <2>6. BatchSound(n, GepCalls(e)) BY <2>3, <2>4, <2>5 DEF GepCalls, IsEmpty
  <2> QED BY <1>9, <2>6, SoundFew DEF EdgeCalls, n
<1>10. CASE e.kind = "memcpy"
  <2> DEFINE to == StorageTerm(e.dst, e.width, FALSE)
             from == StorageTerm(e.src, e.width, FALSE)
             first == Storage(e.dst, e.width, FALSE)
             second == Storage(e.src, e.width, FALSE)
             null == <<Give(to, ForgedUnion, {})>>
             calls == <<Unify(to, from), Give(to, {"written"}, {}), Content(from, to)>>
             rest == second \o calls
  <2>1. e.dst \in Values /\ e.src \in Values BY <1>1, <1>10
  <2>2. ForgedUnion \cap Escape = {} /\ {"written"} \cap Escape = {} BY DEF ForgedUnion, Escape
  <2>3. ASSUME e.dst \notin program.empty
        PROVE  /\ BatchSound(n, first \o null)
               /\ e.src \notin program.empty => BatchSound(n, first \o rest)
    <3>1. BatchSound(n, first) /\ Place(to) /\ Clear(n, to) BY <1>3, <2>1, <2>3, StorageSound DEF n
    <3> HIDE DEF to, first
    <3>2. BatchSound(n, null) BY <2>2, <3>1, SoundCalls, SoundFew
    <3>3. ASSUME e.src \notin program.empty PROVE BatchSound(n, rest)
      <4>1. BatchSound(n, second) /\ Place(from) /\ Clear(n, from) BY <1>3, <2>1, <3>3, StorageSound DEF n
      <4> HIDE DEF from, second
      <4>2. /\ OneSound(n, Unify(to, from)) /\ OneSound(n, Give(to, {"written"}, {}))
            /\ OneSound(n, Content(from, to))
        BY <2>2, <3>1, <4>1, SoundCalls
      <4>3. BatchSound(n, calls) BY <4>2, SoundThree
      <4> HIDE DEF calls
      <4> QED BY <4>1, <4>3, SoundAppend
    <3> HIDE DEF null, rest
    <3> QED BY <3>1, <3>2, <3>3, SoundAppend
  <2> HIDE DEF rest, null, first
  <2>4. BatchSound(n, MemcpyCalls(e))
    BY <2>3, SoundFew DEF MemcpyCalls, IsEmpty, first, null, rest
  <2> QED BY <1>10, <2>4, SoundFew DEF EdgeCalls, n
<1> QED BY <1>1, <1>5, <1>6, <1>7, <1>8, <1>9, <1>10 DEF FlowKinds

\* What is read next is part of the program, and so is what is left.
LEMMA FirstListed ==
  ASSUME NEW S, NEW s \in Seq(S), s # <<>>
  PROVE  Head(s) \in S /\ Head(s) \in Listed(s) /\ Listed(Tail(s)) \subseteq Listed(s)
<1>1. Len(s) \in Nat /\ Len(s) # 0 /\ DOMAIN s = 1 .. Len(s) /\ Head(s) = s[1]
  OBVIOUS
<1>2. Head(s) \in S /\ Tail(s) \in Seq(S) /\ Len(Tail(s)) = Len(s) - 1
  OBVIOUS
<1>3. DOMAIN Tail(s) = 1 .. Len(s) - 1 /\ \A i \in 1 .. Len(s) - 1 : Tail(s)[i] = s[i + 1] BY <1>1
<1>4. Head(s) \in Listed(s) BY <1>1 DEF Listed
<1>5. \A i \in DOMAIN Tail(s) : i + 1 \in DOMAIN s /\ Tail(s)[i] = s[i + 1] BY <1>1, <1>3
<1>6. Listed(Tail(s)) \subseteq Listed(s) BY <1>5 DEF Listed
<1> QED BY <1>2, <1>4, <1>6

\* Reading makes sound calls and changes no class.
LEMMA ReadSorted ==
  ASSUME AssertInv, UNCHANGED <<program, classVars>>, TodoInv', ListSound(Nulls, agenda')
  PROVE  AssertInv'
<1>1. Nulls' = Nulls BY DEF Nulls
<1>2. UNCHANGED <<program, rep, pointee, cells, facts, fns, regions, shifts, content>>
  BY DEF classVars, knownVars, graphVars, factVars, contentVars, callVars, shiftVars, fieldVars
<1>3. SortedInv' BY <1>2, SortedStill DEF AssertInv
<1> QED BY <1>1, <1>3 DEF AssertInv

\* Reading an edge.
LEMMA ReadEdgeSorted ==
  ASSUME TypeInv, AssertInv, ReadEdge
  PROVE  AssertInv'
<1>1. /\ todo.edges # <<>> /\ todo' = [todo EXCEPT !.edges = Tail(@)]
      /\ agenda' = EdgeCalls(Head(todo.edges)) /\ UNCHANGED <<program, classVars>>
  BY DEF ReadEdge
<1>2. todo.edges \in Seq(EdgeShapes)
      /\ todo = [edges |-> todo.edges, calls |-> todo.calls, seeds |-> todo.seeds, entry |-> todo.entry]
  BY DEF TypeInv, TodoOK
<1>3. /\ Head(todo.edges) \in EdgeShapes /\ Head(todo.edges) \in Listed(todo.edges)
      /\ Listed(Tail(todo.edges)) \subseteq Listed(todo.edges)
  BY <1>1, <1>2, FirstListed
<1>4. ListSound(Nulls, agenda') BY <1>1, <1>3, EdgeSound DEF AssertInv, TodoInv
<1>5. todo'.edges = Tail(todo.edges) /\ todo'.seeds = todo.seeds /\ todo'.entry = todo.entry BY <1>1, <1>2
<1>6. TodoInv' BY <1>1, <1>3, <1>5 DEF AssertInv, TodoInv
<1> QED BY <1>1, <1>4, <1>6, ReadSorted

\* Reading a call; the operand may be a null, which is left alone.
LEMMA RegisterCallSorted ==
  ASSUME TypeInv, AssertInv, RegisterCall
  PROVE  AssertInv'
<1> DEFINE site == Head(todo.calls)  operand == program.operand[site]
<1>1. /\ todo' = [todo EXCEPT !.calls = Tail(@)] /\ UNCHANGED <<program, classVars>>
      /\ agenda' = IF IsEmpty(operand) THEN <<>> ELSE <<Need(operand), Register(site)>>
  BY DEF RegisterCall
<1>2. operand \notin program.empty => operand \notin Nulls BY NullsUnmade
<1> HIDE DEF site, operand
<1>3. ListSound(Nulls, agenda') BY <1>1, <1>2, SoundCalls, SoundFew DEF IsEmpty
<1>4. todo = [edges |-> todo.edges, calls |-> todo.calls, seeds |-> todo.seeds, entry |-> todo.entry]
  BY DEF TypeInv, TodoOK
<1>5. todo'.edges = todo.edges /\ todo'.seeds = todo.seeds /\ todo'.entry = todo.entry BY <1>1, <1>4
<1>6. TodoInv' BY <1>1, <1>5 DEF AssertInv, TodoInv
<1> QED BY <1>1, <1>3, <1>6, ReadSorted

\* What a seed of the program calls is sound.
LEMMA SeedSound ==
  ASSUME TypeInv, AssertInv, NEW seed \in SeedShapes, seed \in Listed(program.seeds)
  PROVE  ListSound(Nulls, SeedCalls(seed))
<1> DEFINE n == Nulls  label == {Label(seed.kind, seed.at)}
<1>1. /\ seed.kind \in OwnerSeeds => seed.at \in Owners
      /\ seed.kind \in OwnerSeeds \cup ValueSeeds \cup SiteSeeds
  BY DEF SeedShapes, OwnerSeeds, ValueSeeds, SiteSeeds
<1>2. seed.kind \in {"int_to_ptr", "unknown_result", "vararg_list"} => seed.at \notin n
  BY NullsUnmade
<1>3. seed.at \notin program.empty => seed.at \notin n BY NullsUnmade
<1>4. n \subseteq Values BY NullsAlone DEF AssertInv
<1>5. External \cap Escape = {} /\ ForgedUnion \cap Escape = {} BY DEF External, Escape, ForgedUnion
<1>6. seed.kind \in OwnerSeeds => seed.at \notin Values /\ seed.at \notin n
  BY <1>1, <1>4, SteensgaardAssumption DEF Owners
<1> HIDE DEF n, label
<1>7. CASE seed.kind = "exported"
  <2>1. OneSound(n, Give(Of(seed.at), Escape, label)) /\ OneSound(n, EscapeFields(seed.at, label))
    BY <1>6, <1>7, SoundCalls, TermsSorted DEF OwnerSeeds
  <2>2. SeedCalls(seed) = <<Give(Of(seed.at), Escape, label), EscapeFields(seed.at, label)>>
    BY <1>7 DEF SeedCalls, label
  <2> QED BY <2>1, <2>2, SoundFew DEF n
<1>8. CASE seed.kind = "imported"
  <2>1. OneSound(n, Give(Of(seed.at), Escape, label))
    BY <1>6, <1>8, SoundCalls, TermsSorted DEF OwnerSeeds
  <2>2. SeedCalls(seed) = <<Give(Of(seed.at), Escape, label)>> BY <1>8 DEF SeedCalls, label
  <2> QED BY <2>1, <2>2, SoundFew DEF n
<1>9. CASE seed.kind \in {"ptr_to_int", "unknown_operand_escape"}
  <2>1. SeedCalls(seed) = IF IsEmpty(seed.at) THEN <<>> ELSE Publish(seed.at, label)
    BY <1>9 DEF SeedCalls, label
  <2>2. seed.at \notin program.empty => BatchSound(n, Publish(seed.at, label)) BY <1>3, PublishSound DEF n
  <2> QED BY <2>1, <2>2, SoundFew DEF n, IsEmpty
<1>10. CASE seed.kind = "int_to_ptr"
  <2>1. OneSound(n, Give(Of(seed.at), ForgedUnion, {})) BY <1>2, <1>5, <1>10, SoundCalls, TermsSorted
  <2>2. SeedCalls(seed) = <<Give(Of(seed.at), ForgedUnion, {})>> BY <1>10 DEF SeedCalls
  <2> QED BY <2>1, <2>2, SoundFew DEF n
<1>11. CASE seed.kind = "unknown_result"
  <2>1. OneSound(n, Give(Of(seed.at), External, {})) BY <1>2, <1>5, <1>11, SoundCalls, TermsSorted
  <2>2. SeedCalls(seed) = <<Give(Of(seed.at), External, {})>> BY <1>11 DEF SeedCalls
  <2> QED BY <2>1, <2>2, SoundFew DEF n
<1>12. CASE seed.kind = "external-call"
  <2>1. SeedCalls(seed) = <<ApplyExternal(seed.at)>> BY <1>12 DEF SeedCalls
  <2> QED BY <2>1, SoundCalls, SoundFew
<1>13. CASE seed.kind = "vararg-call"
  <2>1. SeedCalls(seed) = <<PublishTail(seed.at, program.fixed[seed.at] + 1)>> BY <1>13 DEF SeedCalls
  <2> QED BY <2>1, SoundCalls, SoundFew
<1>14. CASE seed.kind = "vararg_list"
  <2>1. OneSound(n, Need(seed.at)) /\ OneSound(n, Give(PointeeOf(seed.at), External, {}))
    BY <1>2, <1>5, <1>14, SoundCalls, TermsSorted
  <2>2. SeedCalls(seed) = <<Need(seed.at), Give(PointeeOf(seed.at), External, {})>>
    BY <1>14 DEF SeedCalls
  <2> QED BY <2>1, <2>2, SoundFew DEF n
<1> QED BY <1>1, <1>7, <1>8, <1>9, <1>10, <1>11, <1>12, <1>13, <1>14 DEF OwnerSeeds, ValueSeeds, SiteSeeds

\* Reading a seed.
LEMMA ReadSeedSorted ==
  ASSUME TypeInv, AssertInv, ReadSeed
  PROVE  AssertInv'
<1>1. /\ todo.seeds # <<>> /\ todo' = [todo EXCEPT !.seeds = Tail(@)]
      /\ agenda' = SeedCalls(Head(todo.seeds)) /\ UNCHANGED <<program, classVars>>
  BY DEF ReadSeed
<1>2. todo.seeds \in Seq(SeedShapes)
      /\ todo = [edges |-> todo.edges, calls |-> todo.calls, seeds |-> todo.seeds, entry |-> todo.entry]
  BY DEF TypeInv, TodoOK
<1>3. /\ Head(todo.seeds) \in SeedShapes /\ Head(todo.seeds) \in Listed(todo.seeds)
      /\ Listed(Tail(todo.seeds)) \subseteq Listed(todo.seeds)
  BY <1>1, <1>2, FirstListed
<1>4. ListSound(Nulls, agenda') BY <1>1, <1>3, SeedSound DEF AssertInv, TodoInv
<1>5. todo'.edges = todo.edges /\ todo'.seeds = Tail(todo.seeds) /\ todo'.entry = todo.entry BY <1>1, <1>2
<1>6. TodoInv' BY <1>1, <1>3, <1>5 DEF AssertInv, TodoInv
<1> QED BY <1>1, <1>4, <1>6, ReadSorted

\* Parameters of main come from outside.
LEMMA ReadEntrySorted ==
  ASSUME TypeInv, AssertInv, ReadEntry
  PROVE  AssertInv'
<1> DEFINE given == {rep[v] : v \in todo.entry} \X External
<1>1. /\ todo' = [todo EXCEPT !.entry = {}] /\ Grant(given, {})
      /\ UNCHANGED <<program, agenda, graphVars, contentVars, callVars, shiftVars, fieldVars, onceVars>>
  BY DEF ReadEntry
<1>2. todo = [edges |-> todo.edges, calls |-> todo.calls, seeds |-> todo.seeds, entry |-> todo.entry]
      /\ todo.entry \subseteq Values
  BY DEF TypeInv, TodoOK
<1>3. \A v \in todo.entry : rep[v] \notin Nulls
  <2>1. \A v \in todo.entry : v \notin Nulls /\ v \in Class
    BY <1>2, NullsUnmade, NullsAlone DEF AssertInv, TodoInv
  <2> QED BY <2>1, NullsAlone DEF AssertInv
<1>4. External \cap Escape = {} BY DEF External, Escape
<1>5. \A g \in given : g[1] \in {rep[v] : v \in todo.entry} /\ g[2] \in External
  OBVIOUS
<1> HIDE DEF given
<1>6. \A g \in given : g[1] \notin Nulls /\ (g[2] \in Escape => g[1] \notin Values) BY <1>3, <1>4, <1>5
<1>7. SortedInv'
  BY <1>1, <1>6, GrantSorted DEF AssertInv, graphVars, contentVars, callVars, shiftVars, fieldVars
<1>8. Nulls' = Nulls BY <1>1 DEF Nulls
<1>9. todo'.edges = todo.edges /\ todo'.seeds = todo.seeds /\ todo'.entry = {} BY <1>1, <1>2
<1>10. TodoInv' BY <1>1, <1>9 DEF AssertInv, TodoInv
<1> QED BY <1>1, <1>7, <1>8, <1>10 DEF AssertInv

\* Taking a class from the queue.
LEMMA PopClassSorted ==
  ASSUME AssertInv, PopClass
  PROVE  AssertInv'
<1>1. UNCHANGED <<readVars, knownVars>> BY DEF PopClass
<1>2. PICK c : agenda' = <<Replay(rep[c]), Process(rep[c])>> BY DEF PopClass
<1>3. ListSound(Nulls, agenda') BY <1>2, SoundCalls, SoundFew
<1>4. UNCHANGED <<program, todo, rep, pointee, cells, facts, fns, regions, shifts, content>>
  BY <1>1 DEF readVars, knownVars, graphVars, factVars, contentVars, callVars, shiftVars, fieldVars
<1>5. SortedInv' BY <1>4, SortedStill DEF AssertInv
<1>6. Nulls' = Nulls BY <1>4 DEF Nulls
<1>7. TodoInv' BY <1>4 DEF AssertInv, TodoInv
<1> QED BY <1>3, <1>5, <1>6, <1>7 DEF AssertInv

\* Before the solver starts nothing has been joined.
LEMMA InitSorted ==
  ASSUME Init
  PROVE  AssertInv
<1>1. PICK p \in Programs :
        /\ program = [x \in DOMAIN p \cup {"exact"} |->
                        IF x = "exact" THEN ExactAddresses(p) ELSE p[x]]
        /\ todo = [edges |-> p.edges, calls |-> p.indirect, seeds |-> p.seeds, entry |-> p.entry]
        /\ facts = [c \in Class |-> IF c \in p.empty THEN {"empty"} ELSE {}]
  BY DEF Init
<1>2. p \in ProgramShapes BY ProgramAssumption
<1>3. /\ program.edges = p.edges /\ program.seeds = p.seeds
      /\ program.entry = p.entry /\ program.empty = p.empty
  <2>1. {"edges", "seeds", "entry", "empty"} \subseteq DOMAIN p BY <1>2 DEF ProgramShapes
  <2> QED BY <1>1, <2>1
<1>4. program.empty \subseteq Values BY <1>2, <1>3 DEF ProgramShapes
<1>5. TodoInv BY <1>1, <1>3 DEF TodoInv
<1>6. Nulls \subseteq Values /\ Values \subseteq Class /\ \A v \in Nulls : v \in p.empty
  BY <1>3, <1>4, NullsUnmade DEF Nulls, CanonicalNulls, Class, Nodes
<1>7. DOMAIN <<>> = {}
  OBVIOUS
<1>8. \A c \in Class : Transfers(c) = {} BY <1>7 DEF Init, Transfers
<1>9. SortInv
  <2>1. \A k \in DOMAIN cells : cells[k] \notin Values BY SteensgaardAssumption DEF Init
  <2>2. \A v \in Values : facts[v] \cap Escape = {} BY <1>1, <1>6 DEF Escape
  <2>3. \A v \in Values : fns[v] = {} /\ regions[v] = {} BY <1>6, SteensgaardAssumption DEF Init
  <2>4. \A c \in Class : pointee[c] \notin Values BY SteensgaardAssumption DEF Init
  <2> QED BY <1>6, <2>1, <2>2, <2>3, <2>4 DEF Init, SortInv
<1>10. NullInv
  <2>1. \A v \in Nulls : facts[v] = {"empty"} BY <1>1, <1>6
  <2> QED BY <1>4, <1>6, <1>8, <2>1 DEF Init, NullInv
<1>11. RegionInv
  <2> SUFFICES ASSUME NEW k \in Allocations \X {Home} PROVE k \in regions[rep[cells[k]]]
    BY DEF Init, RegionInv
  <2>1. k = <<k[1], Home>> /\ k[1] \in Allocations /\ k[1] \in Class BY DEF Class, Nodes, Owners
  <2>2. cells[k] = k[1] BY DEF Init
  <2>3. rep[k[1]] = k[1] /\ regions[k[1]] = {<<k[1], Home>>} BY <2>1 DEF Init
  <2> QED BY <2>1, <2>2, <2>3
<1>12. ListSound(Nulls, agenda) BY SoundFew DEF Init
<1> QED BY <1>5, <1>9, <1>10, <1>11, <1>12 DEF AssertInv, SortedInv

\* Every step keeps the classes sorted.
LEMMA NextSorted ==
  ASSUME TypeInv, EdgesOK, AssertInv, [Next]_vars
  PROVE  AssertInv'
<1>1. CASE UNCHANGED vars
  <2>1. UNCHANGED <<agenda, program, todo, rep, pointee, cells, facts, fns, regions, shifts, content>>
    BY <1>1 DEF vars, readVars, classVars, knownVars, graphVars, factVars, contentVars, callVars, shiftVars,
                fieldVars
  <2>2. SortedInv' BY <2>1, SortedStill DEF AssertInv
  <2>3. Nulls' = Nulls BY <2>1 DEF Nulls
  <2>4. TodoInv' BY <2>1 DEF AssertInv, TodoInv
  <2> QED BY <2>1, <2>2, <2>3, <2>4 DEF AssertInv
<1>2. CASE ReadEdge \/ RegisterCall \/ ReadSeed \/ ReadEntry \/ PopClass
  BY <1>2, ReadEdgeSorted, RegisterCallSorted, ReadSeedSorted, ReadEntrySorted, PopClassSorted
<1>3. CASE SetFacts \/ PointeeMade \/ UnifyPointees \/ AddContentEdge \/ AddGepTransfer
  BY <1>3, SetFactsSorted, PointeeMadeSorted, UnifyPointeesSorted, AddContentEdgeSorted, AddGepTransferSorted
<1>4. CASE PointeeKnown \/ JoinedAlready \/ FieldKnown \/ NothingToReplay \/ RegisterSite
  BY <1>4, IdleSorted
<1>5. CASE JoinClasses \/ FieldMade \/ ReplayTransfers \/ WidenSummary
  BY <1>5, JoinClassesSorted, FieldMadeSorted, ReplayTransfersSorted, WidenSummarySorted
<1>6. CASE ShiftTransfer \/ ShiftedFieldClass \/ EscapeAllocationFields
  BY <1>6, ShiftTransferSorted, ShiftedFieldClassSorted, EscapeAllocationFieldsSorted
<1>7. CASE BindIndirectCall \/ BindArguments \/ ApplyExternalCall \/ PublishArguments
  BY <1>7, BindIndirectCallSorted, BindArgumentsSorted, ApplyExternalCallSorted, PublishArgumentsSorted
<1>8. CASE ApplyVarargCall \/ ProcessClass \/ NextInAnyOrder
  BY <1>8, ApplyVarargCallSorted, ProcessClassSorted, NextInAnyOrderSorted
<1> QED BY <1>1, <1>2, <1>3, <1>4, <1>5, <1>6, <1>7, <1>8 DEF Next, Step

(***************************************************************************)
(* The solver's own assertions hold, for every program and in every order  *)
(* of its queues (assert_one_hop_invariant, assert_canonical_null_isolated,*)
(* assert_field_root_coherence; debug_asserts of join).                    *)
(***************************************************************************)
THEOREM AssertionsKept == Spec => []AssertionsHold
<1>1. Init => AssertInv BY InitSorted
<1>2. TypeInv /\ EdgesOK /\ AssertInv /\ [Next]_vars => AssertInv' BY NextSorted
<1>3. TypeInv /\ AssertInv => AssertionsHold
  <2> SUFFICES ASSUME TypeInv, AssertInv PROVE AssertionsHold
    OBVIOUS
  <2>1. OneHop
    <3> SUFFICES ASSUME NEW c \in Roots, Members(c) \cap Values # {}
                 PROVE  /\ Members(c) \subseteq Values
                        /\ "esc" \notin facts[c] /\ fns[c] = {} /\ regions[c] = {}
      BY DEF OneHop
    <3>1. \A n \in Members(c) : n \in Class /\ rep[n] = c BY DEF Members
    <3>2. c \in Values BY <3>1, NullsAlone DEF AssertInv
    <3>3. Members(c) \subseteq Values BY <3>1, <3>2, NullsAlone DEF AssertInv
    <3>4. facts[c] \cap Escape = {} /\ fns[c] = {} /\ regions[c] = {}
      BY <3>2 DEF AssertInv, SortedInv, SortInv
    <3> QED BY <3>3, <3>4 DEF Escape
  <2>2. NullIsolated
    <3> SUFFICES ASSUME NEW v \in Nulls
                 PROVE  /\ "empty" \in facts[rep[v]] /\ facts[rep[v]] \cap {"ext", "esc"} = {}
                        /\ pointee[rep[v]] = NoClass
      BY DEF NullIsolated, Nulls
    <3>1. rep[v] = v BY NullsAlone DEF AssertInv, SortedInv, NullInv
    <3>2. facts[v] = {"empty"} /\ pointee[v] = NoClass BY DEF AssertInv, SortedInv, NullInv
    <3> QED BY <3>1, <3>2
  <2>3. FieldsCoherent BY DEF AssertInv, SortedInv, RegionInv, FieldsCoherent
  <2> QED BY <2>1, <2>2, <2>3 DEF AssertionsHold
<1> QED BY <1>1, <1>2, <1>3, TypeCorrect, PTL DEF Spec
=============================================================================
