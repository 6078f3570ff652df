---------------------------- MODULE MCRefinedCalls ----------------------------
(***************************************************************************)
(* Programs whose functions are called through pointers, one way for an    *)
(* address to travel each, and the settings the inclusion tier is run with.*)
(***************************************************************************)
EXTENDS MCPointerGraph, CallCertificates

\* Everything fits and certificates are given; only what is small fits; what
\* calls depend on is taken alone; nothing fits but what may be promoted; and
\* nothing fits but what certificates are wanted for.
Within(budget, promotes, certifies) ==
  [budget |-> budget, promotes |-> promotes, certifies |-> certifies, quotient |-> FALSE, separate |-> FALSE, receivers |-> FALSE]
Everything == Within(100000, FALSE, TRUE)
Settings ==
  {[Everything EXCEPT !.quotient = q, !.separate = s] : q \in BOOLEAN, s \in BOOLEAN}
  \cup {Within(40, FALSE, FALSE), Within(300, FALSE, FALSE), Within(0, TRUE, FALSE), Within(0, FALSE, TRUE)}

\* Two functions, one that returns what it is given and one that returns h.
Two(body) ==
  [Program([main |-> <<>>, f1 |-> <<"p">>, f2 |-> <<"q">>],
           [main |-> body, f1 |-> <<Return("p")>>, f2 |-> <<Return("h")>>])
     EXCEPT !.taken = {"f1", "f2"}, !.globals = {"g", "h"}, !.order = <<"main", "f1", "f2">>]
With1(p, f, params, body) ==
  [p EXCEPT !.params = (f :> params) @@ @, !.body = (f :> body) @@ @, !.order = Append(@, f)]
CallIt(x) == CallIndirect("r", x, Fixed(1), <<"g">>)

\* A table of functions, called at a known place of it and at any.
Filled == <<Alloca("tab"), GepBy("s1", "tab", Exact(1)), Store("s1", "f1"), GepBy("s2", "tab", Exact(2)), Store("s2", "f2")>>
Dispatch == Two(<<Alloca("tab"), GepBy("si", "tab", Unknown), Store("si", "f1"), GepBy("s2", "tab", Exact(2)), Store("s2", "f2"),
                  Load("x", "si"), CallIt("x"), Load("y", "r")>>)
Pinned == Two(Filled \o <<GepBy("si", "tab", Exact(2)), Load("x", "si"), CallIt("x"), Load("y", "r")>>)
\* A table whose first entry is stored without an offset.
Fronted ==
  Two(<<Alloca("tab"), Store("tab", "f1"), GepBy("s2", "tab", Exact(1)), Store("s2", "f2"),
        GepBy("si", "tab", Unknown), Load("x", "si"), CallIt("x")>>)
\* A function handed to another that calls it, and one stored by another.
Applied ==
  With1(Two(<<Alloca("a"), CallDirect("r", "apply", Fixed(2), <<"f1", "a">>), Load("y", "r")>>),
        "apply", <<"fn", "v">>, <<CallIndirect("w", "fn", Fixed(1), <<"v">>), Return("w")>>)
StoredFor ==
  With1(Two(<<Alloca("s"), Alloca("t"), CallDirect("", "set", Fixed(2), <<"s", "f1">>), CallDirect("", "set", Fixed(2), <<"t", "f2">>),
              Load("x", "s"), CallIt("x")>>),
        "set", <<"pp", "v">>, <<Store("pp", "v")>>)
\* A field of a structure is filled in place and by another function.
FilledFor ==
  With1(Two(<<Alloca("s"), CallDirect("", "fill", Fixed(2), <<"s", "f1">>), GepBy("s1", "s", Exact(1)), Store("s1", "f2"), Load("x", "s1"), CallIt("x")>>),
        "fill", <<"pp", "v">>, <<GepBy("pf", "pp", Exact(1)), Store("pf", "v")>>)
\* What feeds a chain of copies, a pair of equal ones and, twice three, the
\* formals of a function; and a formal that only a later binding feeds too.
Fed ==
  With1(Two(<<CallDirect("", "many", Fixed(3), <<"g", "g", "g">>), CallDirect("", "many", Fixed(3), <<"h", "h", "h">>),
              Assign("u", <<"f1">>), Assign("k", <<"u">>), CallDirect("", "f1", Fixed(1), <<"g">>), CallIndirect("r", "k", Fixed(1), <<"h">>)>>),
        "many", <<"p1", "p2", "p3">>, <<Assign("v", <<"p1", "p2">>), Assign("w", <<"p1", "p2">>)>>)
\* A structure that holds a function is copied, or handed out of sight.
InStruct == <<Alloca("s"), GepBy("s1", "s", Exact(1)), Store("s1", "f1")>>
CopiedStruct == Two(InStruct \o <<Alloca("t"), Memcpy("t", "s"), GepBy("t1", "t", Exact(1)), Load("x", "t1"), CallIt("x")>>)
HandedOut ==
  Declaring([Two(InStruct \o <<CallDirect("", "register", Fixed(1), <<"s">>)>>) EXCEPT !.globals = {"h"}], "register", <<"x1">>, Fixed(1))
\* A function that is returned to unknown callers, published in a global that
\* others know, or made an integer.
Given == [With1(Two(<<Assign("k", <<"f1">>), CallIt("k")>>), "get", <<>>, <<Return("f2")>>) EXCEPT !.library = TRUE, !.marked = {"get"}]
Published == [Two(<<Store("g", "f1"), Alloca("s"), Store("s", "f2"), Load("x", "s"), CallIndirect("r", "x", Fixed(1), <<"s">>)>>) EXCEPT !.exports = {"g"}]
Converted == [Two(<<PtrToInt("i", "f1", "lossy"), Assign("k", <<"f2">>), CallIt("k")>>) EXCEPT !.scalars = {"i"}]

\* Containers: what was put into one of them is got out of it and called.
PutIn(at, v) == CallDirect("", "put", Fixed(2), <<at, v>>)
KeepIn(at, v) == CallDirect("", "keep", Fixed(2), <<at, v>>)
GetFrom(x, at) == CallDirect(x, "get", Fixed(1), <<at>>)
Containers(body) ==
  [With1(With1(With1(Two(<<Alloca("a"), Alloca("b")>> \o body),
    "put", <<"m", "v">>, <<GepBy("pf", "m", Exact(1)), Store("pf", "v"), Return("null")>>),
    "get", <<"m">>, <<GepBy("gf", "m", Exact(1)), Load("w", "gf"), Return("w")>>),
    "keep", <<"n", "k">>, <<CallDirect("", "put", Fixed(2), <<"n", "k">>), Return("null")>>) EXCEPT !.inorder = TRUE]
PutAndGot == Containers(<<Alloca("c"), KeepIn("a", "f1"), PutIn("b", "f2"), PutIn("c", "g"), GetFrom("x", "a"), Assign("d", <<"f2">>), Assign("z", <<"x", "d">>), CallIt("z"), GetFrom("y", "b")>>)
PutBack == Containers(<<PutIn("a", "f1"), PutIn("b", "g"), GetFrom("y", "a"), KeepIn("b", "y"), GetFrom("x", "b"), Assign("d", <<"f2">>), Assign("z", <<"x", "d">>), CallIt("z")>>)
PutMany ==
  Containers(<<Alloca("c"), PutIn("a", "f1"), GetFrom("x", "a"), PutIn("b", "f2"), GetFrom("y", "b"), Assign("d", <<"f1">>), PutIn("c", "d"),
               GetFrom("w", "c"), Assign("k", <<"f2">>), Assign("z", <<"w", "k">>), CallIt("z")>>)

ContainerPrograms == {PutAndGot, PutBack, PutMany}
ByReceiver == {[[Everything EXCEPT !.separate = s] EXCEPT !.receivers = TRUE] : s \in BOOLEAN} \cup {[Within(300, FALSE, FALSE) EXCEPT !.receivers = TRUE]}
SettingsOf(p) == IF p.inorder THEN {Everything} \cup ByReceiver ELSE Settings

RefinedPrograms ==
  ContainerPrograms \cup
  { Moves, ByValueCall, Registered, ByPointer, RoundTrip, Copying, Positional, Audited1,
    Dispatch, Pinned, Applied, StoredFor, FilledFor, CopiedStruct, HandedOut, Fed, Given, Published, Converted }
FrontedPrograms == {Fronted}
=============================================================================
