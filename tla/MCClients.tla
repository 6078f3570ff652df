----------------------------- MODULE MCClients -----------------------------
EXTENDS MCCallEffects, Clients

CONSTANT p1

None == [status |-> "none"]
Failed == [status |-> "failed"]
Published(at, first, last, init) ==
    [status |-> "certified", at |-> at, path |-> p1, first |-> first, last |-> last, init |-> init]

Plainly ==
    [literal |-> {}, refs |-> [x \in Globals |-> {}], atomic |-> {}, library |-> FALSE,
     registry |-> <<>>, taken |-> {}, finding |-> {}, publish |-> [x \in Globals |-> None]]

Client == [Base EXCEPT !.escaped = {}] @@ Plainly
On(node) == [x \in DOMAIN node |-> Concrete(node[x], {})]

\* Who takes the lock of a, and how it may be taken again.
Mutexes ==
    {[Client EXCEPT !.node = On(n :> Plain({a})),
                    !.site = s1 :> Site(main, {f}, FALSE, NoGlobal) @@ s2 :> Site(f, t2, o, NoGlobal)
                             @@ s3 :> Site(g, t3, FALSE, NoGlobal),
                    !.body = [x \in Funcs |-> IF x \in who THEN {Stmt("store", n, n, 1)} ELSE {}],
                    !.entered = {main, g}] :
        t2 \in {{g}, {f}, {ext}, {}}, t3 \in {{f}, {ext}, {main}}, o \in BOOLEAN,
        who \in {{f}, {g}, {f, g}, {main, g}}}

Registry(kind, precise, open, runs) == [kind |-> kind, precise |-> precise, open |-> open, runs |-> runs]

\* Threads and handlers, found or only suspected.
Handlers ==
    {[Client EXCEPT !.node = On(n :> Plain({a})),
                    !.site = s1 :> Site(main, {ext}, FALSE, NoGlobal) @@ s2 :> Site(f, t2, FALSE, NoGlobal),
                    !.body = [x \in Funcs |-> IF x \in who THEN {Stmt(op, n, n, 1)} ELSE {}],
                    !.entered = {main, f, g}, !.taken = {f, g},
                    !.registry = s1 :> r] :
        t2 \in {{g}, {ext}}, who \in {{main, g}, {f}, {main, f}}, op \in {"load", "store"},
        r \in {<<Registry(k, q, w, x)>> : k \in {Spawn, Signal}, q \in {{f}, {}}, w \in {TRUE}, x \in {{f}, {g}}}
              \cup {<<Registry(k, {f}, FALSE, {f})>> : k \in {Spawn, Signal}}
              \cup {<<Registry(Signal, {f}, FALSE, {f}), Registry(Spawn, {f}, FALSE, {})>>}}

\* Publication intervals on one path, with overlapping, touching and separate ones.
Intervals == {<<1, 3>>, <<2, 2>>, <<3, 4>>}
Groups ==
    {[Client EXCEPT !.node = On(n :> Plain({a}) @@ m :> Plain({b})),
                    !.site = s1 :> Site(main, {f}, FALSE, NoGlobal) @@ s2 :> Site(f, t2, FALSE, NoGlobal)
                             @@ s3 :> Site(main, {g}, FALSE, NoGlobal),
                    !.body[f] = {Stmt("load", n, n, 1)}, !.body[g] = {Stmt("load", m, m, 2)},
                    !.publish = (a :> Published(at, i[1], i[2], {f})) @@ (b :> Published(main, j[1], j[2], {f, g}))
                                @@ (c :> k)] :
        t2 \in {{g}, {ext}}, at \in {main, f}, i \in Intervals, j \in Intervals,
        k \in {None, Failed} \cup {Published(main, q[1], q[2], {g}) : q \in Intervals}}

\* Literals with one owner, with two, and behind another literal.
Literals ==
    {[Client EXCEPT !.node = On(n :> Plain({l}) @@ m :> Plain({a})),
                    !.site = s1 :> Site(main, {f}, FALSE, NoGlobal) @@ s2 :> Site(f, {g}, FALSE, NoGlobal),
                    !.body[f] = {Stmt("load", m, m, 1)}, !.body[g] = {Stmt(op, n, n, 2)},
                    !.names[f] = {a}, !.names[g] = {l},
                    !.literal = ls, !.refs = (a :> ra) @@ (b :> rb) @@ (c :> {}), !.escaped = e,
                    !.publish = (a :> pa) @@ (b :> pb) @@ (c :> Published(main, 1, 3, {f}))] :
        l \in {b, c}, op \in {"load", "store"}, ls \in {{c}, {b, c}}, ra \in {{b}, {c}, {b, c}},
        rb \in {{c}, {}}, e \in {{}, {c}}, pa \in {Published(main, 1, 3, {f}), Failed},
        pb \in {Published(main, 1, 3, {f}), Published(main, 2, 3, {f})}}

\* What an audit finding taints, and what it leaves alone.
Findings ==
    {[Client EXCEPT !.node = On(n :> Address({a}, FALSE, FALSE, NoGlobal, y, y)), !.site = Chain,
                    !.body[f] = {Stmt("store", n, n, 1)}, !.audited = {f}, !.library = lib, !.exported = x,
                    !.finding = {[func |-> f, affects |-> w, flow |-> q, known |-> k, line |-> l]}] :
        y \in {a, NoGlobal}, w \in {{}, {a}, {n}}, q \in {{Anywhere}, {a}, {b}}, k \in BOOLEAN, l \in {1, 2},
        lib \in BOOLEAN, x \in {{}, {a}}}

MCClientPrograms ==
    {p @@ Plainly : p \in MCPrograms}
        \cup Mutexes \cup Handlers \cup Groups \cup Literals \cup Findings
=============================================================================
