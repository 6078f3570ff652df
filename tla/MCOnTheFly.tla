---- MODULE MCOnTheFly ----
EXTENDS CallGraphOracles, TLC

CONSTANTS x, y, z, w, A, f, g, R, D, l, s, t, Zero, Anywhere

MCNodes == {x, y, z, w}
MCFunctions == {f, g}
MCObjects == {A} \cup MCFunctions
MCRegions == {R, D}
MCCode == {R}
MCLabels == {l}
MCLocations == {Zero, Anywhere}
MCKnown == {Zero}
MCNoLanes == {}
MCAdd(a, b) == IF a = Zero THEN b ELSE a
MCAlias(a, b) == TRUE

None == {}
Sys(addrs, copies, joins) ==
  [addrs |-> addrs, copies |-> copies, joins |-> joins, memcpys |-> {}]
Steens(targets, unknown) == [targets |-> targets, unknown_callee |-> unknown]
Both(a, b) == (s :> a) @@ (t :> b)
PerFunction(a, b) == (f :> a) @@ (g :> b)

\* f's parameter is called inside it: the second site is known only once the
\* first is bound.
Callback ==
  [ base |-> Sys({<<x, f>>, <<y, g>>, <<w, A>>}, {}, {<<z, Load(w)>>}),
    operand |-> Both(x, z), args |-> Both(<<y>>, <<w>>), result |-> Both({}, {w}),
    params |-> PerFunction(<<z>>, <<y>>), ret |-> PerFunction({}, {x}),
    external |-> {}, boundary |-> Both(R, R), returned |-> Both(R, R),
    scope |-> {s, t}, steens |-> Both(Steens({f, g}, FALSE), Steens({f, g}, FALSE)),
    exact |-> <<>>, confined |-> {} ]

\* What a call returns is called next; one of the callees is external, so
\* foreign code reaches the operand.
Feedback ==
  [ base |-> Sys({<<x, f>>, <<y, g>>}, {}, {}),
    operand |-> Both(x, w), args |-> Both(<<x>>, <<>>), result |-> Both({x}, {}),
    params |-> PerFunction(<<z>>, <<>>), ret |-> PerFunction({y}, {}),
    external |-> {g}, boundary |-> Both(R, R), returned |-> Both(R, R),
    scope |-> {s, t}, steens |-> Both(Steens({f, g}, FALSE), Steens({f, g}, FALSE)),
    exact |-> <<>>, confined |-> {} ]

\* An eager site, a pinned site and a confined function.
EagerPinned ==
  [ base |-> Sys({<<x, f>>, <<y, g>>, <<z, A>>}, {}, {<<z, Store(y, NoLabel)>>, <<z, Load(x)>>}),
    operand |-> Both(w, x), args |-> Both(<<z>>, <<y>>), result |-> Both({}, {}),
    params |-> PerFunction(<<w>>, <<z>>), ret |-> PerFunction({}, {}),
    external |-> {}, boundary |-> Both(R, R), returned |-> Both(R, R),
    scope |-> {s, t}, steens |-> Both(Steens({f, g}, TRUE), Steens({f, g}, TRUE)),
    exact |-> (t :> {g}), confined |-> {g} ]

\* Entry arguments in one operand, which leave its second target unbound, and
\* foreign code in the other, through an escaped pointer, which binds both.
Regions2 ==
  [ base |-> Sys({<<x, D>>, <<x, f>>, <<z, A>>, <<y, g>>}, {},
                 {<<z, Store(R, l)>>, <<z, Load(w)>>}),
    operand |-> Both(x, w), args |-> Both(<<z>>, <<y>>), result |-> Both({}, {}),
    params |-> PerFunction(<<y>>, <<z>>), ret |-> PerFunction({}, {}),
    external |-> {f}, boundary |-> Both(D, R), returned |-> Both(R, R),
    scope |-> {s, t}, steens |-> Both(Steens({f, g}, FALSE), Steens({f, g}, FALSE)),
    exact |-> <<>>, confined |-> {} ]

\* A function pointer kept in a field; the second site is out of scope.
InField ==
  [ base |-> Sys({<<x, A>>, <<y, f>>}, {},
                 {<<x, Gep(Zero, z)>>, <<z, Store(y, NoLabel)>>, <<z, Load(w)>>}),
    operand |-> Both(w, y), args |-> Both(<<x>>, <<>>), result |-> Both({}, {}),
    params |-> PerFunction(<<y>>, <<>>), ret |-> PerFunction({}, {}),
    external |-> {}, boundary |-> Both(R, R), returned |-> Both(R, R),
    scope |-> {s}, steens |-> Both(Steens({f, g}, FALSE), Steens({f}, FALSE)),
    exact |-> <<>>, confined |-> {} ]

MCCallGraphs == {Callback, Feedback, EagerPinned, Regions2, InField}

Control(max_steps, max_resumes, inject, disable) ==
  [ max_steps |-> max_steps, max_resumes |-> max_resumes, inject |-> inject,
    disable_eager_unknown |-> disable ]
MCControls ==
  { Control({}, 9, "none", FALSE), Control({}, 9, "none", TRUE),
    Control({4}, 9, "none", FALSE), Control({}, 1, "none", FALSE),
    Control({}, 2, "none", FALSE), Control({}, 9, "propagation", FALSE),
    Control({}, 9, "discovery", FALSE), Control({}, 9, "activation", FALSE) }

AllPrograms == {SolverProgram(p, c) : p \in MCCallGraphs, c \in MCControls}

MCPrograms == AllPrograms

\* The least closed call graphs.
Known(p, c, targets) ==
  LET solution == Solution(p, targets)
  IN  [ graph |-> p, controls |-> c, targets |-> targets, value |-> solution.value,
        fields |-> solution.fields, direct |-> solution.direct ]
ClosedAnswers ==
  {Known(p, c, LeastCallGraph(p, c)) : p \in MCCallGraphs, c \in MCControls}
MCClosedGraphs == ClosedAnswers
====
