--------------------------- MODULE MCCallEffects ---------------------------
EXTENDS CallEffects

CONSTANTS main, f, g, ext, a, b, c, n, m, s1, s2, s3

Address(class, external, union, root, symbol, spelt) ==
    [class |-> class, wide |-> {}, external |-> external, union |-> union, root |-> root,
     object |-> root, symbol |-> symbol, spelt |-> spelt, points |-> {}]

\* A constant operand points to what it names, a rooted address to its root, any other address
\* to whatever the solver allows it.
Concrete(node, escaped) ==
    [node EXCEPT !.points =
        CASE node.symbol # NoGlobal -> {node.symbol}
          [] node.symbol = NoGlobal /\ node.spelt # NoGlobal -> {node.spelt}
          [] node.root = Local -> {}
          [] node.root \in Globals -> {node.object}
          [] OTHER -> node.class \cup IF node.union THEN escaped ELSE {}]

Addresses ==
    {x \in {Address(cls, k # "in", k = "all", r, y, t) : cls \in SUBSET {a, b},
               k \in {"in", "out", "all"}, r \in {Local, a, NoGlobal},
               y \in {a, NoGlobal}, t \in {a, NoGlobal}} :
        /\ x.root = Local => x.symbol = NoGlobal /\ x.spelt = NoGlobal
        /\ a \in {x.root, x.symbol, x.spelt} => a \in x.class
        /\ x.symbol = a => x.spelt = a}

Stmt(op, at, from, line) == [op |-> op, at |-> at, from |-> from, line |-> line]
Site(caller, targets, omega, cell) ==
    [caller |-> caller, targets |-> targets, omega |-> omega, located |-> TRUE,
     cell |-> cell, exact |-> FALSE]

Plain(class) == Address(class, FALSE, FALSE, NoGlobal, NoGlobal, NoGlobal)
Symbol(x) == Address({x}, FALSE, FALSE, x, x, x)

Base ==
    [node |-> <<>>, body |-> [x \in Funcs |-> {}], site |-> <<>>, escaped |-> {b, c},
     exported |-> {}, written |-> {}, defined |-> Globals, mutable |-> Globals,
     complete |-> {}, absent |-> Globals, addressed |-> {},
     holds |-> [x \in Globals |-> Omega], names |-> [x \in Funcs |-> {}],
     entered |-> {main}, audited |-> {}]

With(node) == [x \in DOMAIN node |-> Concrete(node[x], {b, c})]
Chain == (s1 :> Site(main, {f}, FALSE, NoGlobal))

\* One statement of f through every kind of address.
Statements ==
    {[Base EXCEPT !.node = With(n :> x @@ m :> Symbol(b)), !.site = Chain,
                  !.body[f] = {Stmt(op, n, m, 1)}, !.body[main] = {Stmt("store", m, m, 2)}] :
        x \in Addresses, op \in {"load", "store", "external", "copy", "fill"}}
    \cup
    {[Base EXCEPT !.node = With(n :> x @@ m :> y), !.site = Chain,
                  !.body[f] = {Stmt(op[1], n, m, 1), Stmt(op[2], m, n, l)}] :
        x \in {z \in Addresses : z.external}, y \in {Plain({a, b}), Symbol(a)}, l \in {1, 2},
        op \in {<<"store", "copy">>, <<"copy", "fill">>, <<"external", "store">>}}

\* Call graphs over three functions with cycles, callbacks and calls that leave the module.
Graphs ==
    {[Base EXCEPT !.node = With(n :> Plain({a}) @@ m :> Address({a, b}, TRUE, TRUE, NoGlobal, NoGlobal, NoGlobal)),
                  !.site = s1 :> Site(main, t1, FALSE, NoGlobal) @@ s2 :> Site(f, t2, o, NoGlobal)
                           @@ s3 :> Site(g, t3, FALSE, NoGlobal),
                  !.body[main] = {Stmt("load", n, n, 1)}, !.body[f] = {Stmt("store", m, m, 2)},
                  !.body[g] = {Stmt("fill", n, n, 3)}, !.entered = {main} \cup e] :
        t1 \in {{f}, {g}, {f, g}, {}}, t2 \in {{g}, {main, g}, {ext}, {}, {f}},
        t3 \in {{f}, {ext}, {g, ext}, {Omega}}, o \in BOOLEAN, e \in {{}, {g}}}

\* A dispatch cell, with and without something that may overwrite it.
Cells ==
    {[Base EXCEPT !.node = With(n :> x @@ m :> Symbol(a)),
                  !.site = s1 :> [Site(main, {f, g}, FALSE, a) EXCEPT !.exact = q]
                           @@ s2 :> Site(f, {ext}, FALSE, NoGlobal),
                  !.body[main] = {Stmt("load", m, m, 1)}, !.body[f] = {Stmt(op, n, m, 2)},
                  !.exported = x1, !.complete = done, !.absent = {b}, !.holds[a] = f, !.names[g] = {b}] :
        x \in {Plain({b}), Plain({a}), Plain({a, b}), Symbol(a),
               Address({b}, TRUE, TRUE, NoGlobal, NoGlobal, NoGlobal),
               Address({a, b}, TRUE, TRUE, NoGlobal, NoGlobal, NoGlobal)},
        op \in {"store", "load", "copy"}, x1 \in {{}, {a}}, done \in {{a}, {}}, q \in BOOLEAN}

\* Who names a global, and what can keep its callers from being rewritten.
Contexts ==
    {[Base EXCEPT !.site = s1 :> [Site(main, t1, FALSE, NoGlobal) EXCEPT !.located = l]
                           @@ s2 :> Site(main, t2, o, NoGlobal) @@ s3 :> Site(f, t3, FALSE, NoGlobal),
                  !.names = [x \in Funcs |-> IF x \in who THEN {a} ELSE {}],
                  !.entered = {main} \cup e, !.addressed = d] :
        t1 \in {{f}, {f, g}, {g, ext}}, t2 \in {{g}, {f, ext}}, o \in BOOLEAN,
        t3 \in {{g}, {ext}, {f, g}}, l \in BOOLEAN, who \in {{f}, {g}, {main}, {f, g}},
        e \in {{}, {g}}, d \in {{}, {a}}}

\* Roots narrow what the solver found, and one of them may stand for another object.
Roots ==
    {[Base EXCEPT !.node = With(n :> [Address({a}, e, e, a, NoGlobal, NoGlobal) EXCEPT !.wide = {a, b}, !.object = x]
                                @@ m :> [Address({b}, FALSE, FALSE, b, NoGlobal, NoGlobal) EXCEPT !.wide = w]),
                  !.site = Chain, !.body[f] = {Stmt(op, n, m, 1)}] :
        x \in {a, b}, e \in BOOLEAN, w \in {{}, {a, b}}, op \in {"load", "store", "copy", "fill"}}

MCPrograms == Roots \cup Statements \cup Graphs \cup Cells \cup Contexts
MCFuncs == {main, f, g}
MCGlobals == {a, b, c}
MCDeclared == {ext}
=============================================================================
