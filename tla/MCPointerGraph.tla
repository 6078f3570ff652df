--------------------------- MODULE MCPointerGraph ---------------------------
(***************************************************************************)
(* Small programs for the pointer graph, one idea each.                    *)
(***************************************************************************)
EXTENDS PointerGraphProperties, TLC

WideLow == -9
LowOffset == -4

Fixed(n) == Signature(n, FALSE)
AndMore(n) == Signature(n, TRUE)

\* The rest of a program: its functions, their bodies, and what else there is.
Program(params, body) ==
  [ params |-> params, body |-> body, declared |-> [f \in {} |-> Fixed(0)], variadic |-> {}, taken |-> {},
    exports |-> {}, marked |-> {}, library |-> FALSE, globals |-> {}, scalars |-> {}, literal |-> [v \in {} |-> 0],
    format |-> [v \in {} |-> <<>>], byval |-> {}, order |-> <<"main">>, assume_tags |-> FALSE, lanes |-> TRUE,
    inorder |-> FALSE ]
Main(body) == Program([main |-> <<>>], [main |-> body])
Declaring(p, f, params, sig) ==
  [p EXCEPT !.params = (f :> params) @@ @, !.declared = (f :> sig) @@ @]

\* Values through memory, copies and a call by value.
Moves ==
  Main(<<Alloca("a"), Alloca("b"), GepBy("a2", "a", Exact(2)), Store("a2", "b"), Memcpy("b", "a2"),
         Load("x", "b"), Assign("y", <<"x", "a">>), Memset("y", "zero")>>)
ByValueCall ==
  [Program([main |-> <<>>, f |-> <<"s">>],
           [main |-> <<Alloca("a"), Store("a", "g"), CallDirect("r", "f", Fixed(1), <<"a">>)>>,
            f |-> <<Store("s", "h"), Load("x", "s"), Return("x")>>])
     EXCEPT !.byval = {<<"f", 1>>}, !.globals = {"g", "h"}, !.order = <<"main", "f">>]
Initialised ==
  [Program([main |-> <<>>], [main |-> <<Load("x", "g"), Load("y", "x")>>, global_init |-> <<Store("g", "h"), Store("h", "g")>>])
     EXCEPT !.globals = {"g", "h"}, !.exports = {"h"}, !.order = <<"main", "global_init">>]
\* A callback that code out of sight may call, in a program and in a library.
Callbacks(body) ==
  Declaring([Program([main |-> <<>>, cb |-> <<"p">>], [main |-> body, cb |-> <<Store("p", "g"), Return("p")>>])
              EXCEPT !.globals = {"g"}, !.taken = {"cb"}, !.library = TRUE, !.order = <<"main", "cb">>],
            "register", <<"x1", "x2">>, Fixed(2))
Registered == Callbacks(<<Alloca("a"), CallDirect("", "register", Fixed(2), <<"cb", "a">>)>>)
ByPointer == Callbacks(<<Alloca("a"), Assign("fp", <<"cb">>), CallIndirect("r", "fp", Fixed(1), <<"a">>)>>)
LookedUp == Declaring(Callbacks(<<CallDirect("fp", "lookup", Fixed(0), <<>>), CallIndirect("r", "fp", Fixed(1), <<"g">>)>>), "lookup", <<>>, Fixed(0))
Library ==
  [Program([api |-> <<"p">>, hidden |-> <<"q">>],
           [api |-> <<Store("p", "g"), CallIndirect("r", "p", AndMore(0), <<"h">>)>>, hidden |-> <<Store("h", "q")>>])
     EXCEPT !.globals = {"g", "h"}, !.library = TRUE, !.marked = {"api", "g"}, !.order = <<"api", "hidden">>]

\* Detours through integers.
RoundTrip == Main(<<Alloca("a"), PtrToInt("i", "a", "exact"), IntToPtr("p", "i", "exact"), Store("p", "a")>>)
Shifted1 ==
  [Main(<<Alloca("a"), Alloca("b"), PtrToInt("i", "a", "exact"), ScalarOp("j", "i", "four"), IntToPtr("p", "j", "exact"), Store("p", "b")>>)
     EXCEPT !.scalars = {"i", "j", "four"}, !.literal = [four |-> 4]]
Truncated ==
  [Main(<<Alloca("a"), PtrToInt("i", "a", "lossy"), IntToPtr("p", "i", "exact"), Store("p", "a"), PtrToInt("k", "p", "compared")>>)
     EXCEPT !.scalars = {"i", "k"}]
Reserved ==
  [Main(<<IntToPtr("p", "minus", "exact"), IntToPtr("q", "port", "exact"), IntToPtr("w", "one", "lossy"), Alloca("a"),
          Store("q", "a"), Load("x", "w"), IntToPtr("z", "top", "exact")>>)
     EXCEPT !.scalars = {"minus", "port", "one", "top"}, !.literal = [minus |-> -1, port |-> 4, one |-> 1, top |-> 7]]
Tagged(body) ==
  [Main(body) EXCEPT !.scalars = {"i", "port"}, !.literal = [port |-> 4], !.assume_tags = TRUE, !.globals = {"g"}]
TagStored == Tagged(<<Store("g", "port"), Load("i", "g"), IntToPtr("t", "i", "exact"), Assign("u", <<"t">>), Store("g", "u"), Load("v", "g")>>)
TagUsed == Tagged(<<Store("g", "port"), Load("i", "g"), IntToPtr("t", "i", "exact"), Store("t", "g")>>)
TagPassed ==
  [Program([main |-> <<>>, f |-> <<"p">>],
           [main |-> <<Store("g", "port"), Load("i", "g"), IntToPtr("t", "i", "exact"), CallDirect("r", "f", Fixed(1), <<"t">>), Load("x", "r")>>,
            f |-> <<Return("p")>>])
     EXCEPT !.scalars = {"i", "port"}, !.literal = [port |-> 4], !.assume_tags = TRUE, !.globals = {"g"}, !.order = <<"main", "f">>]
Assembly ==
  [Main(<<Alloca("a"), Alloca("b"), PtrToInt("n", "b", "lossy"), Opaque("inline_asm", <<"a", "n">>, <<"r">>),
          Opaque("va_arg", <<"r">>, <<"q">>), Store("q", "a"), Load("x", "b")>>)
     EXCEPT !.scalars = {"n"}]

\* Cycles of pointer arithmetic.
Cycle(d1, d2, d3) ==
  Main(<<Alloca("a"), Assign("x", <<"a", "z">>), GepBy("y", "x", d1), GepBy("z", "y", d2), GepBy("z", "x", d3)>>)
Strides2 == Cycle(Exact(4), Exact(-2), Exact(4))
Net0 == Cycle(Exact(2), Exact(-2), Exact(0))
Far == Cycle(Exact(4), Exact(4), Exact(-4))
Constants == [Cycle(Exact(2), Exact(0), Exact(2)) EXCEPT !.lanes = FALSE]
Laned == Cycle(Lane(4, 2), Exact(0), Exact(0))
Vague == Cycle(Unknown, Exact(2), Exact(2))

\* Library functions.
Calls1(f, sig, body, globals) ==
  [Declaring(Main(body), f, [k \in 1 .. sig.fixed |-> "d"], sig) EXCEPT !.globals = globals]
Strchr == Calls1("strchr", Fixed(2), <<Alloca("a"), GepBy("b", "a", Exact(2)), CallDirect("r", "strchr", Fixed(2), <<"b", "n">>),
                                       Assign("n", <<"null">>), Store("r", "a")>>, {})
Malloc == Calls1("malloc", Fixed(1), <<CallDirect("r", "malloc", Fixed(1), <<"null">>), Store("r", "r"), Load("x", "r")>>, {})
Realloc == Calls1("realloc", Fixed(2), <<Alloca("a"), CallDirect("r", "realloc", Fixed(2), <<"a", "null">>), Store("a", "r")>>, {})
Copying == Calls1("memcpy", Fixed(3), <<Store("g", "h"), CallDirect("r", "memcpy", Fixed(3), <<"h", "g", "n">>), Assign("n", <<"k">>),
                                        Load("x", "r"), CallDirect("s", "memcpy", Fixed(3), <<"g", "h", "zero">>)>>, {"g", "h", "k"})
Strtok == Calls1("strtok", Fixed(2), <<Alloca("a"), CallDirect("r", "strtok", Fixed(2), <<"a", "g">>), Store("g", "r"),
                                       CallDirect("s", "strtok", Fixed(2), <<"null", "g">>)>>, {"g"})
Strtoul == Calls1("strtoul", Fixed(3), <<Alloca("e"), CallDirect("n", "strtoul", Fixed(3), <<"g", "e", "null">>), Load("x", "e")>>, {"g"})
Getenv == Calls1("getenv", Fixed(1), <<CallDirect("r", "getenv", Fixed(1), <<"g">>), Store("r", "g"), Load("x", "r")>>, {"g"})
Ctype == Calls1("ctype_b_loc", Fixed(0), <<CallDirect("r", "ctype_b_loc", Fixed(0), <<>>), Load("t", "r"), Load("c", "t")>>, {})
Scanf == Calls1("sscanf", AndMore(2), <<Alloca("a"), CallDirect("", "sscanf", AndMore(2), <<"g", "f", "a", "h">>), Load("x", "a"), Load("y", "h")>>, {"g", "f", "h"})
Printing(formats, body) ==
  [Calls1("printf", AndMore(1), body, {"safe", "late", "g"}) EXCEPT
     !.format = [safe |-> <<TRUE, TRUE, TRUE>>, late |-> <<FALSE, FALSE, TRUE>>], !.exports = formats]
PrintSafe == Printing({}, <<Alloca("a"), GepBy("tail", "late", Exact(2)), Assign("f", <<"safe", "tail">>), CallDirect("", "printf", AndMore(1), <<"f", "a">>)>>)
PrintCount == Printing({}, <<Alloca("a"), GepBy("tail", "late", Exact(1)), Assign("f", <<"safe", "tail">>), CallDirect("", "printf", AndMore(1), <<"f", "a">>)>>)
Mismatched == Calls1("strlen", AndMore(1), <<Alloca("a"), CallDirect("r", "strlen", AndMore(1), <<"a", "g">>), Load("x", "a")>>, {"g"})

\* Tails.
Variadic(params, body, order) == [Program(params, body) EXCEPT !.variadic = {"v"}, !.globals = {"g", "h"}, !.order = order]
Positional ==
  Variadic([main |-> <<>>, v |-> <<"n">>],
           [main |-> <<CallDirect("r", "v", AndMore(1), <<"null", "g">>), CallDirect("r2", "v", AndMore(1), <<"null", "h", "g">>)>>,
            v |-> <<Alloca("l"), VaStart("l"), Load("area", "l"), Load("x", "area"), VarArg("x", 0, FALSE),
                    VaEnd("l"), Return("x"), Store("x", "x")>>],
           <<"main", "v">>)
Rest ==
  [Positional EXCEPT !.body.v = <<Alloca("l"), VaStart("l"), Load("first", "l"), GepBy("next", "first", Exact(1)),
     Assign("area", <<"first", "next">>), Load("x", "area"), VarArg("x", 0, TRUE), VaEnd("l"), Return("x")>>]
TooFew == [Positional EXCEPT !.body.main = @ \o <<CallDirect("", "v", AndMore(1), <<"null">>)>>]
Audited1 ==
  Variadic([main |-> <<>>, v |-> <<"n">>, sum |-> <<"ap">>],
           [main |-> <<Alloca("a"), Store("a", "g"), CallDirect("", "v", AndMore(1), <<"null", "a", "h">>)>>,
            v |-> <<Alloca("l"), VaStart("l"), CallDirect("", "sum", Fixed(1), <<"l">>), VaEnd("l")>>,
            sum |-> <<Load("area", "ap"), Load("p", "area"), Load("c", "p")>>],
           <<"main", "v", "sum">>)
Captured == [Audited1 EXCEPT !.body.sum = @ \o <<Store("g", "p")>>]
Written1 == [Audited1 EXCEPT !.body.sum = @ \o <<Store("p", "null")>>]
Returned1 == [Audited1 EXCEPT !.body.sum = @ \o <<Return("p")>>]
Forward(format) ==
  [Declaring(Variadic([main |-> <<>>, v |-> <<"fmt">>],
      [main |-> <<Alloca("a"), CallDirect("", "v", AndMore(1), <<format, "a">>)>>,
       v |-> <<Alloca("l"), Alloca("s"), Store("s", "fmt"), Load("fmt2", "s"), VaStart("l"),
               CallDirect("", "vprintf", Fixed(2), <<"fmt2", "l">>), VaEnd("l")>>],
      <<"main", "v">>), "vprintf", <<"d1", "d2">>, Fixed(2))
   EXCEPT !.globals = {"safe", "late"}, !.format = [safe |-> <<TRUE>>, late |-> <<FALSE>>]]
Wrapped ==
  [Forward("safe") EXCEPT !.params = ("w" :> <<"wf", "wl">>) @@ @, !.order = <<"main", "v", "w">>,
     !.body = [f \in DOMAIN @ \cup {"w"} |->
        IF f = "w" THEN <<CallDirect("", "vprintf", Fixed(2), <<"wf", "wl">>)>>
        ELSE IF f = "v" THEN <<Alloca("l"), VaStart("l"), CallDirect("", "w", Fixed(2), <<"fmt", "l">>), VaEnd("l")>> ELSE @[f]]]
Copied == [Audited1 EXCEPT !.body.v = <<Alloca("l"), Alloca("l2"), VaStart("l"), VaCopy("l2", "l"), Load("area2", "l2"), Load("q", "area2"), VaEnd("l")>>]
OutOfSight ==
  Declaring([Audited1 EXCEPT !.body.v = <<Alloca("l"), VaStart("l"), CallDirect("", "log", Fixed(1), <<"l">>)>>, !.body.sum = <<>>],
            "log", <<"d1">>, Fixed(1))
Unconsumed == [Audited1 EXCEPT !.body.v = <<Store("g", "g")>>]

AllPrograms ==
  { Moves, ByValueCall, Initialised, Registered, ByPointer, LookedUp, Library, RoundTrip, Shifted1, Truncated, Reserved, TagStored, TagUsed, TagPassed,
    Assembly, Strides2, Net0, Far, Constants, Laned, Vague, Strchr, Malloc, Realloc, Copying, Strtok, Strtoul, Getenv, Scanf,
    PrintSafe, PrintCount, Mismatched, Positional, Rest, TooFew, Audited1, Captured, Written1, Returned1, Ctype, Forward("safe"),
    Forward("late"), Wrapped, Copied, OutOfSight, Unconsumed }
=============================================================================
