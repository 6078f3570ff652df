--------------------------- MODULE MCSteensgaard ---------------------------
(***************************************************************************)
(* Small programs for the base tier.                                       *)
(***************************************************************************)
EXTENDS CallQueries, TLC

CONSTANTS z, p, q, r, s, t, u, w, A, B, F, G, H, S0, S1, S2

MCMinOffset == -1
MCValues == {z, p, q, r, s, t, u, w}
MCAllocations == {A, B}
MCFunctions == {F, G, H}
MCSites == {S0, S1, S2}

Edge(kind, src, dst) ==
  [kind |-> kind, src |-> src, dst |-> dst, width |-> {1}, delta |-> Unknown]
Take(v, o) == Edge("addrof", o, v)
Assign(dst, src) == Edge("assign", src, dst)
Load(dst, src) == Edge("load", src, dst)
Store(dst, src) == Edge("store", src, dst)
Copy(dst, src) == Edge("memcpy", src, dst)
Gep(dst, src, delta) == [Edge("gep", src, dst) EXCEPT !.delta = delta]
Seed(kind, at) == [kind |-> kind, at |-> at]

Blank ==
  [ edges |-> <<>>, seeds |-> <<>>, indirect |-> <<>>, entry |-> {}, pointers |-> Values, empty |-> {},
    root |-> [v \in Values |-> {}], operand |-> [x \in Sites |-> z],
    args |-> [x \in Sites |-> <<>>], result |-> [x \in Sites |-> {}], fixed |-> [x \in Sites |-> 0],
    params |-> [f \in Functions |-> <<>>], ret |-> [f \in Functions |-> {}],
    external |-> {}, variadic |-> {}, unread |-> {}, compatible |-> Sites \X Functions,
    startup |-> {}, freed |-> {}, captured |-> {}, cleared |-> {}, asm |-> {} ]

\* H, with a parameter that a direct call of it assigns.
Parameter(param) == (F :> <<>> @@ G :> <<>> @@ H :> <<{param}>>)

Rooted(places) == [v \in Values |-> {x[2] : x \in {y \in places : y[1] = v}}]

(***************************************************************************)
(* Calls.  F's two parameters are one value.  When S0 binds F, the         *)
(* operands of S1 and S2 fall together: in CallsProgram after their own    *)
(* pairs were bound, in OpenProgram after S1 was found to call outside.    *)
(***************************************************************************)
CallsProgram ==
  [Blank EXCEPT
    !.edges = <<Take(z, F), Take(p, G), Take(q, H), Assign(s, r)>>,
    !.indirect = <<S0, S1, S2>>,
    !.operand = (S0 :> z @@ S1 :> p @@ S2 :> q),
    !.args = (S0 :> <<p, q>> @@ S1 :> <<t>> @@ S2 :> <<u>>),
    !.params = (F :> <<{r}, {s}>> @@ G :> <<{w}>> @@ H :> <<{}>>),
    !.external = {H}]

OpenProgram ==
  [Blank EXCEPT
    !.edges = <<Take(z, F), Assign(s, r)>>,
    !.indirect = <<S0, S1, S2>>,
    !.operand = (S0 :> z @@ S1 :> p @@ S2 :> q),
    !.args = (S0 :> <<p, q>> @@ S1 :> <<t>> @@ S2 :> <<u>>),
    !.result = (S0 :> {} @@ S1 :> {} @@ S2 :> {w}),
    !.params = (F :> <<{r}, {s}>> @@ G :> <<>> @@ H :> <<>>),
    !.seeds = <<Seed("vararg_list", p)>>]

\* main's second parameter holds a function that is called, and F escapes.
EntryProgram ==
  [Blank EXCEPT
    !.edges = <<Take(z, F), Take(r, A), Take(s, B)>>,
    !.root = Rooted({<<r, A>>, <<s, B>>}),
    !.indirect = <<S0>>,
    !.operand = [x \in Sites |-> p],
    !.args = (S0 :> <<r>> @@ S1 :> <<z, q>> @@ S2 :> <<>>),
    !.result = (S0 :> {w} @@ S1 :> {t} @@ S2 :> {}),
    !.params = (F :> <<{u}>> @@ G :> <<>> @@ H :> <<>>),
    !.ret = (F :> {s} @@ G :> {} @@ H :> {}),
    !.empty = {q},
    !.seeds = <<Seed("external-call", S1)>>,
    !.entry = {p}]

(***************************************************************************)
(* Address arithmetic.  t walks over A and B one byte at a time; what was  *)
(* stored through t is read at the next byte.                              *)
(***************************************************************************)
WalkProgram ==
  [Blank EXCEPT
    !.edges = <<Take(r, A), Take(s, B), Take(z, F), Assign(t, r), Assign(t, s),
                Gep(u, t, Exact(1)), Store(t, z), Load(w, u), Assign(t, u)>>,
    !.root = Rooted({<<r, A>>, <<s, B>>}),
    !.indirect = <<S0>>,
    !.operand = [x \in Sites |-> w]]

\* Somewhere in A, or at B; one byte on.  Two accesses of A overlap.
MixedProgram ==
  [Blank EXCEPT
    !.edges = <<Take(r, A), Gep(p, r, Unknown), Take(s, B), Assign(t, p), Assign(t, s),
                Gep(u, t, Exact(1)), [Store(r, z) EXCEPT !.width = {2}], Load(w, q),
                Gep(q, r, Exact(1)), Take(z, F)>>,
    !.root = Rooted({<<r, A>>, <<p, A>>, <<s, B>>, <<q, A>>})]

\* Two lanes of A, of which only one fits; a function moved with them.
LaneProgram ==
  [Blank EXCEPT
    !.edges = <<Take(r, A), Assign(t, r), Gep(u, t, Lane(2, 0)), Gep(w, t, Lane(3, 1)),
                Take(z, F), Assign(p, z), Gep(q, p, Exact(1)), Gep(s, p, Exact(0))>>,
    !.params = Parameter(t),
    !.root = Rooted({<<r, A>>})]

(***************************************************************************)
(* Escapes and contents.  A is exported; its second byte is only reached   *)
(* while solving, B is stored there, and B's second byte has a name of its *)
(* own.                                                                    *)
(***************************************************************************)
EscapeProgram ==
  [Blank EXCEPT
    !.edges = <<Take(r, A), Assign(t, r), Gep(u, t, Exact(1)), Take(p, B), Gep(q, p, Exact(1)),
                Store(u, p), Store(q, z)>>,
    !.params = Parameter(t),
    !.root = Rooted({<<r, A>>, <<p, B>>, <<q, B>>}),
    !.seeds = <<Seed("exported", A)>>]

\* A forged pointer is stored, read back and copied, in a circle.
ContentProgram ==
  [Blank EXCEPT
    !.edges = <<Take(p, A), Assign(q, p), Store(p, z), Load(r, q), Store(q, r), Take(s, B),
                Copy(q, p), Copy(s, p), Load(t, s), Assign(t, w)>>,
    !.params = Parameter(q),
    !.root = Rooted({<<p, A>>, <<s, B>>}),
    !.empty = {w},
    !.seeds = <<Seed("int_to_ptr", z)>>]

\* A holds its own address.
CircularProgram ==
  [Blank EXCEPT
    !.edges = <<Take(p, A), Assign(q, p), Store(q, q)>>,
    !.root = Rooted({<<p, A>>, <<q, A>>}),
    !.seeds = <<Seed("ptr_to_int", q)>>]

\* S0 passes a forged pointer to a parameter that was only null before.
LateProgram ==
  [Blank EXCEPT
    !.edges = <<Take(z, F), Assign(r, w), Store(u, q), Store(t, r)>>,
    !.empty = {w},
    !.indirect = <<S0>>,
    !.args = [x \in Sites |-> <<q>>],
    !.params = (F :> <<{r}>> @@ G :> <<>> @@ H :> <<>>),
    !.seeds = <<Seed("int_to_ptr", q), Seed("ptr_to_int", u), Seed("imported", G)>>]

\* A variadic call with foreign code behind its list.
VariadicProgram ==
  [Blank EXCEPT
    !.edges = <<Take(z, F), Take(p, A), Take(s, B), Assign(t, s), Gep(u, t, Exact(1)), Assign(r, p)>>,
    !.root = Rooted({<<p, A>>, <<s, B>>}),
    !.indirect = <<S0>>,
    !.args = (S0 :> <<p>> @@ S1 :> <<q, r, u, s>> @@ S2 :> <<>>),
    !.variadic = {S1}, !.fixed = [x \in Sites |-> 1],
    !.params = (F :> <<{w}>> @@ G :> <<{t}, {r}>> @@ H :> <<>>),
    !.seeds = <<Seed("vararg-call", S1), Seed("unknown_result", q)>>]

\* F passes its parameter on in a variadic call.  F is only called through z.
TailProgram ==
  [VariadicProgram EXCEPT
    !.edges = <<Take(z, F), Take(p, A), Take(s, B), Assign(t, s), Gep(u, t, Exact(1))>>,
    !.params = (F :> <<{r}>> @@ G :> <<{t}>> @@ H :> <<>>)]

\* Variadic calls through pointers: F leaves its tail alone, G does not, and H
\* is external.
PointerTailProgram ==
  [Blank EXCEPT
    !.edges = <<Take(z, F), Take(r, G), Take(w, H), Take(p, A), Take(q, B)>>,
    !.root = Rooted({<<p, A>>, <<q, B>>}),
    !.indirect = <<S0, S1, S2>>,
    !.operand = (S0 :> z @@ S1 :> r @@ S2 :> w),
    !.args = (S0 :> <<p>> @@ S1 :> <<q>> @@ S2 :> <<>>),
    !.variadic = Sites, !.unread = {F, H}, !.external = {H},
    !.seeds = <<Seed("vararg-call", S0), Seed("vararg-call", S1), Seed("vararg-call", S2)>>]
RebuiltProgram == [PointerTailProgram EXCEPT !.seeds = Tail(@)]

(***************************************************************************)
(* Isolation.  A is exported and shares its class with B, whose address    *)
(* only goes to F; F's parameter is read, A is written.                    *)
(***************************************************************************)
MergedProgram ==
  [Blank EXCEPT
    !.edges = <<Take(r, A), Take(s, B), Assign(t, r), Assign(t, s), Take(z, F), Store(r, z), Load(w, u)>>,
    !.root = Rooted({<<r, A>>, <<s, B>>}),
    !.indirect = <<S0>>,
    !.args = [x \in Sites |-> <<s>>],
    !.params = (F :> <<{u}>> @@ G :> <<>> @@ H :> <<>>),
    !.seeds = <<Seed("exported", A)>>]

\* A starts out with B's address in it, which is read and handed out.  A is
\* freed, and assembly takes a look at it.
HolderProgram ==
  [Blank EXCEPT
    !.edges = <<Take(p, A), Take(r, B), Store(p, r), Load(q, p)>>,
    !.root = Rooted({<<p, A>>, <<r, B>>}),
    !.args = (S0 :> <<>> @@ S1 :> <<q>> @@ S2 :> <<p>>),
    !.startup = {3}, !.captured = {B}, !.freed = {S2}, !.cleared = {p}, !.asm = {{p}},
    !.seeds = <<Seed("external-call", S1)>>]

\* Calls that are found one after the other: F is stored and called, and G is
\* what it returns.  One byte before F there is nothing.
ChainProgram ==
  [Blank EXCEPT
    !.edges = <<Take(z, F), Take(r, G), Take(p, A), Gep(q, p, Exact(1)), Store(q, z), Load(t, q), Load(u, p)>>,
    !.root = Rooted({<<p, A>>, <<q, A>>}),
    !.indirect = <<S0, S1, S2>>,
    !.operand = (S0 :> t @@ S1 :> w @@ S2 :> u),
    !.args = (S0 :> <<>> @@ S1 :> <<p>> @@ S2 :> <<>>),
    !.result = (S0 :> {w} @@ S1 :> {} @@ S2 :> {}),
    !.params = (F :> <<>> @@ G :> <<{s}>> @@ H :> <<>>),
    !.ret = (F :> {r} @@ G :> {} @@ H :> {})]

\* B's address is stored in A's second byte, and A is handed out.
FieldProgram ==
  [Blank EXCEPT
    !.edges = <<Take(p, A), Take(r, B), Gep(q, p, Exact(1)), Store(q, r)>>,
    !.root = Rooted({<<p, A>>, <<r, B>>, <<q, A>>}),
    !.args = [x \in Sites |-> <<p>>],
    !.seeds = <<Seed("external-call", S1)>>]

\* A circular list of one element: p = &A, *p = p, q = *p, u = *q, and u is
\* handed out.
ListProgram ==
  [Blank EXCEPT
    !.edges = <<Take(p, A), Store(p, p), Load(q, p), Load(u, q)>>,
    !.root = Rooted({<<p, A>>}),
    !.args = [x \in Sites |-> <<u>>],
    !.seeds = <<Seed("external-call", S1)>>]

MCPrograms ==
  {CallsProgram, OpenProgram, EntryProgram, WalkProgram, MixedProgram, LaneProgram, EscapeProgram,
   ContentProgram, CircularProgram, LateProgram, VariadicProgram, MergedProgram, HolderProgram,
   ChainProgram, PointerTailProgram, RebuiltProgram}
UnreportedPrograms == {FieldProgram, ListProgram, TailProgram}
=============================================================================
