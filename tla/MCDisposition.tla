---- MODULE MCDisposition ----
EXTENDS DispositionPipeline, TLC

CONSTANTS buf, len, log,  \* two globals of one group, and one on its own
          pair            \* the group

MCGlobals == {buf, len, log}
MCGroups == {pair}
MCGroupOf == (buf :> pair) @@ (len :> pair) @@ (log :> NoGroup)

-----------------------------------------------------------------------------
(* Analyses.  Nothing is known of a plain global but that it is written. *)

Plain == [atomic |-> FALSE, written |-> TRUE, escaped |-> FALSE, taint |-> "none",
          phase |-> "null", mutex |-> "null", localization |-> "blocked", source |-> "none"]

Constant     == [Plain EXCEPT !.written = FALSE]
Published    == [Plain EXCEPT !.phase = "certified", !.mutex = "certified"]
Repairable   == [Plain EXCEPT !.phase = "recipe", !.mutex = "failed"]
Lost         == [Plain EXCEPT !.phase = "failed", !.mutex = "recipe"]
Local        == [Plain EXCEPT !.localization = "ok"]
TaintedLocal == [Local EXCEPT !.taint = "exempt", !.mutex = "failed"]
Tainted      == [Plain EXCEPT !.taint = "hard", !.phase = "recipe", !.mutex = "recipe"]
Declared     == [Plain EXCEPT !.atomic = TRUE]
Unplanned    == [Plain EXCEPT !.localization = "null"]

Analysis(b, l, o, once, mutex) ==
    [facts |-> (buf :> b) @@ (len :> l) @@ (log :> o),
     support |-> (pair :> [once_lock |-> once, mutex |-> mutex])]

MCPlainAnalyses == {
    Analysis(Published, Published, Local, "supported", "certified"),
    Analysis(Published, Repairable, Constant, "supported", "failed"),
    Analysis(Published, Tainted, TaintedLocal, "supported", "failed"),
    Analysis(Lost, Published, Unplanned, "unsupported", "certified"),
    Analysis(Constant, Published, Plain, "supported", "certified"),
    Analysis(Declared, Published, Tainted, "unsupported", "null"),
    Analysis(Repairable, Plain, Declared, "null", "null"),
    Analysis(Local, TaintedLocal, Local, "null", "failed") }

\* With a source plan no recipe serves the joint representations, and a recipe
\* to localize can be blocked by the source, blocked by the IR alone (a tainted
\* global's always is), or clash with another one.
Sourced(f) == [f EXCEPT !.source = "met"]
Reassigned(f) == [f EXCEPT !.source = "failing"]
Uneditable == [Plain EXCEPT !.localization = "source"]

MCSourceAnalyses == {
    Analysis(Sourced(Local), Sourced(Local), Sourced(Local), "supported", "null"),
    Analysis(Sourced(Local), Sourced(Uneditable), Sourced(Plain), "null", "null"),
    Analysis(Reassigned(Constant), Sourced(Constant), Sourced(Local), "null", "null"),
    Analysis(Sourced(Published), Sourced(Published), Reassigned(Tainted),
             "supported", "certified") }

MCConflicts == {recipes \in SUBSET MCGlobals : {buf, log} \subseteq recipes}

-----------------------------------------------------------------------------
(* Override files. *)

DefaultApplication == <<"immutable", "atomic", "localize">>
DefaultLibrary == <<"immutable", "atomic">>
Full == <<"immutable", "once-lock", "atomic", "mutex", "localize">>
JointOnly == <<"mutex", "once-lock">>

Pin(s) == [disposition |-> s, accept_risk |-> FALSE]
Risk(s) == [disposition |-> s, accept_risk |-> TRUE]
None == <<>>
File(order, groups, globals) == [order |-> order, groups |-> groups, globals |-> globals]

MCPlainFiles == {
    File(DefaultApplication, None, None),
    File(DefaultLibrary, None, log :> Risk("localize")),
    File(Full, None, None),
    File(Full, pair :> Risk("once-lock"), buf :> Pin("unhandled")),
    File(Full, pair :> Pin("once-lock"), log :> Risk("localize")),
    File(JointOnly, pair :> Risk("mutex"), (buf :> Risk("localize")) @@ (len :> Pin("mutex"))),
    File(Full, pair :> Pin("unhandled"), (len :> Risk("immutable")) @@ (log :> Pin("unhandled"))),
    File(Full, pair :> Pin("localize"), (buf :> Risk("mutex")) @@ (len :> Risk("immutable"))),
    File(DefaultApplication, pair :> Risk("mutex"), (buf :> Risk("immutable")) @@ (log :> Pin("atomic"))),
    File(DefaultApplication, "gone" :> Pin("unhandled"), "gone" :> Risk("immutable")) }

MCSourceFiles == {
    File(DefaultApplication, None, None),
    File(DefaultApplication, None, (len :> Risk("localize")) @@ (log :> Risk("immutable"))),
    File(DefaultApplication, None, (buf :> Pin("localize")) @@ (log :> Pin("unhandled"))),
    File(Full, pair :> Risk("once-lock"), buf :> Risk("immutable")) }

MCAnalyses == MCPlainAnalyses \union MCSourceAnalyses
MCOverrideFiles == MCPlainFiles \union MCSourceFiles

====
