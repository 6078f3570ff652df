-------------------------------- MODULE MCPhase --------------------------------
(***************************************************************************)
(* Programs for the phase-stationarity certificate: a main function over    *)
(* several control-flow shapes, a child it may call once, a helper called from *)
(* anywhere and a callback.                                                 *)
(***************************************************************************)
EXTENDS PhaseStationarity

MCFunctions == {"main", "run", "help", "cb"}

S(op, to) == [op |-> op, to |-> to]
Skip == S("skip", {})
Read == S("read", {})
Write == S("write", {})
CallRun == S("call", {"run"})
CallHelp == S("call", {"help"})

\* A body from a shape (the successors of every boundary), its locations and
\* its statements; a location shared by two boundaries admits no insertion.
BodyAt(shape, locs, stmts) ==
    [i \in DOMAIN stmts |->
        [succ |-> shape[i], op |-> stmts[i].op, to |-> stmts[i].to, loc |-> locs[i],
         insertable |-> \A j \in DOMAIN stmts : locs[j] = locs[i] => j = i]]
Body(shape, stmts) == BodyAt(shape, [i \in DOMAIN stmts |-> i], stmts)

Line(n) == [i \in 1 .. n |-> IF i = n THEN {} ELSE {i + 1}]
Diamond == <<{2, 3}, {4}, {4}, {}>>
Loop == <<{2}, {3}, {2, 4}, {}>>
None == <<>>

Program(main, run, help, cb) ==
    [body |-> [f \in MCFunctions |->
        CASE f = "main" -> main [] f = "run" -> run [] f = "help" -> help [] f = "cb" -> cb]]

Tuples(n, T) == [1 .. n -> T]

\* Main alone with a helper: every mix of accesses and helper calls.
Plain == {Program(Body(sh, st), None, Body(Line(1), h), None) :
            sh \in {Line(4), Diamond, Loop},
            st \in Tuples(4, {Skip, Read, Write, CallHelp}),
            h \in Tuples(1, {Read, Write})}

\* A helper that only leads to an access, called before or after the write.
Layers == {Program(Body(Line(3), st), None, Body(Line(2), <<h, S("call", {"cb"})>>), Body(Line(1), c)) :
            st \in Tuples(3, {Write, Read, CallHelp}), h \in {Skip, Read}, c \in Tuples(1, {Read, Write})}

\* Two boundaries expanded from one macro share their location.
Macros == {Program(BodyAt(sh, <<1, 2, 2, 4>>, st), None, Body(Line(1), <<Read>>), None) :
            sh \in {Line(4), Diamond},
            st \in Tuples(4, {Skip, Read, Write})}
          \cup
          {Program(BodyAt(sh, <<1, 2, 3, 2>>, st), None, Body(Line(1), <<Read>>), None) :
            sh \in {Line(4), Diamond, <<{4}, {}, {2}, {3}>>},
            st \in Tuples(4, {Skip, Read, Write})}

\* Main hands over to a child, which is spliced into the spine.
Descents == {Program(Body(Line(2), <<a, CallRun>>), Body(sh, r), Body(Line(1), h), None) :
            a \in {Skip, Write, CallHelp},
            sh \in {Line(3), <<{2, 3}, {3}, {}>>, <<{2}, {1, 3}, {}>>},
            r \in Tuples(3, {Read, Write, CallHelp}),
            h \in Tuples(1, {Read, S("pwrite", {})})}

\* A chain of children, longer than the bound on descent; one is called twice.
Chains == {Program(Body(Line(2), <<a, CallRun>>), Body(Line(2), <<b, CallHelp>>),
                   Body(Line(2), <<c, S("call", {"cb"})>>), Body(Line(3), d)) :
            a \in {Skip, Read}, b \in {Skip, Write, CallHelp}, c \in {Skip, Read},
            d \in {<<Write, Read, Skip>>, <<Read, Write, Read>>, <<Write, Skip, Write>>}}
          \cup
          {Program(Body(Line(2), <<a, CallRun>>), Body(Line(2), <<b, CallHelp>>),
                   Body(Line(3), c), Body(Line(1), <<d>>)) :
            a \in {Skip, Read}, b \in {Skip, Write, S("call", {"main"})},
            c \in Tuples(3, {Write, Read, S("call", {"cb"})}), d \in {Read, Write}}

\* Callbacks: registered, passed out or leaked by main or the child.
Callbacks == {Program(Body(Line(3), st), Body(Line(2), r), None, Body(Line(1), c)) :
            st \in Tuples(3, {Write, Read, CallRun, S("register", {"cb"}), S("unknown", {"cb"}), S("unknown", {})}),
            r \in {<<a, b>> : a \in {Write, Skip}, b \in {Read, S("register", {"cb"}), S("leak", {"cb"})}},
            c \in Tuples(1, {Read, Write})}

\* A callback that reads through a helper.
CallbackLayers == {Program(Body(Line(3), st), Body(Line(2), r), Body(Line(1), h), Body(Line(1), <<CallHelp>>)) :
            st \in Tuples(3, {Skip, CallHelp, CallRun, S("register", {"cb"}), S("unknown", {"cb"})}),
            r \in {<<Skip, b>> : b \in {Read, S("register", {"cb"}), S("leak", {"cb"})}},
            h \in Tuples(1, {Read, Write})}

\* Main gives its own address away, and may be entered again.
Reentries == {Program(Body(Line(3), <<a, S(op, {"main"}), b>>), None, Body(Line(1), <<Read>>), None) :
            op \in {"unknown", "register", "leak"},
            a \in {Skip, Read, CallHelp}, b \in {Skip, Read, CallHelp}}
          \cup
          {Program(BodyAt(Line(4), <<1, 2, 2, 4>>, <<a, S(op, {"main"}), Read, Skip>>), None, None, None) :
            op \in {"unknown", "register", "leak"}, a \in {Skip, Read}}

MCPrograms == Reentries \cup Plain \cup Layers \cup Macros \cup Descents \cup Chains \cup Callbacks \cup CallbackLayers
=============================================================================
