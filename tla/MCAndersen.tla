---- MODULE MCAndersen ----
EXTENDS AndersenPrecision, NaiveSolution, TLC

CONSTANTS x, y, z, w, A, B, R, ext, MaxOffset

(***************************************************************************)
(* The real location algebra over a small i64.                             *)
(***************************************************************************)
FL == INSTANCE FieldLocations WITH MinOffset <- -1

MCNodes == {x, y, z, w}
MCObjects == {A, B}
MCRegions == {R}
MCLabels == {ext}
MCUnknown == FL!Unknown
MCLanes == IF MaxOffset = 1 THEN {} ELSE FL!AllLanes
MCLocations == FL!ExactLocations \cup MCLanes \cup {FL!Unknown}
E0 == FL!Exact(0)
E1 == FL!Exact(1)
M1 == FL!Exact(-1)
MCKnown == {E0, E1}
MCAdd(a, b) == FL!add(a, b)
MCAlias(a, b) == FL!may_alias(a, b)

Sys(addrs, copies, joins, memcpys) ==
  [addrs |-> addrs, copies |-> copies, joins |-> joins, memcpys |-> memcpys]
Program(base, calls) == [base |-> base, calls |-> calls]

\* *z = y and w = *z, with call bindings that close a copy cycle through the
\* contents of the object stored to.
CycleProgram ==
  Program(Sys({<<x, A>>, <<y, B>>}, {<<x, z>>},
              {<<z, Store(y, NoLabel)>>, <<z, Load(w)>>}, {}),
          {Sys({}, {<<w, x>>}, {}, {}), Sys({}, {<<z, y>>}, {}, {})})

\* A cycle of value nodes whose members own different joins, closed late.
MergeProgram ==
  Program(Sys({<<x, A>>}, {<<x, y>>, <<y, z>>},
              {<<x, Gep(E1, w)>>, <<y, Store(R, ext)>>, <<z, Load(w)>>}, {}),
          {Sys({<<z, B>>}, {<<z, x>>}, {}, {})})

\* Two GEPs of one object, one unknown; a store through the first, a direct
\* load of the whole object; later a nested GEP that returns to its root.
FieldProgram ==
  Program(Sys({<<x, A>>, <<w, B>>}, {}, {<<x, Gep(E1, y)>>, <<x, Gep(MCUnknown, z)>>,
                            <<y, Store(w, NoLabel)>>}, {}),
          {Sys({}, {}, {<<x, Load(w)>>}, {}), Sys({}, {}, {<<y, Gep(M1, y)>>}, {})})

\* Pointers into a field named when the system is built, foreign memory read
\* and written through a pointer that itself came from foreign memory.
RegionProgram ==
  Program(Sys({<<x, <<A, E1>>>>, <<y, R>>, <<y, ext>>}, {<<x, z>>},
              {<<x, Store(y, NoLabel)>>, <<y, Load(w)>>}, {}),
          {Sys({}, {}, {<<w, Store(z, NoLabel)>>}, {}),
           Sys({}, {}, {<<x, Store(R, ext)>>, <<w, Gep(E1, z)>>}, {})})

\* Every way to add one copy and one join late to a small program.
LateCopies == {<<z, x>>, <<w, y>>, <<A, w>>}
LateJoins == {<<z, Load(y)>>, <<w, Store(z, NoLabel)>>, <<z, Gep(MCUnknown, w)>>,
              <<y, Store(R, ext)>>}
LatePrograms ==
  {Program(Sys({<<x, A>>, <<y, B>>}, {<<x, z>>},
               {<<z, Gep(E0, w)>>, <<w, Store(y, NoLabel)>>}, {}),
           {Sys({}, {e}, {}, {}), Sys({}, {}, {j}, {})})
   : e \in LateCopies, j \in LateJoins}

JoinPrograms ==
  {CycleProgram, MergeProgram, FieldProgram, RegionProgram} \cup LatePrograms

\* memcpy(x, y) whose source is unknown until a binding arrives; foreign
\* pointers are stored through z.
MemcpyProgram ==
  Program(Sys({<<x, A>>, <<z, B>>}, {}, {<<z, Store(R, ext)>>, <<x, Load(w)>>}, {<<x, y>>}),
          {Sys({}, {<<z, y>>}, {}, {}), Sys({}, {<<w, z>>}, {<<w, Store(x, NoLabel)>>}, {<<y, x>>})})

\* A memcpy whose ends fall onto one representative while it is active, and a
\* second one that is then already there.
MergedMemcpyProgram ==
  Program(Sys({<<x, A>>, <<z, B>>}, {<<x, y>>, <<y, z>>}, {<<x, Load(w)>>}, {<<x, z>>}),
          {Sys({}, {<<z, x>>}, {}, {}), Sys({<<w, B>>}, {<<w, x>>}, {}, {<<y, x>>})})

\* Both ends merged into a third cell, which then learns of another pointee.
MergedEndsProgram ==
  Program(Sys({<<x, A>>}, {<<x, y>>, <<y, z>>}, {}, {<<y, z>>}),
          {Sys({}, {<<z, x>>}, {}, {}), Sys({<<x, B>>}, {}, {}, {})})

\* A memcpy whose destination is never known, and a loaded copy of its source.
DormantMemcpyProgram ==
  Program(Sys({<<x, A>>}, {}, {}, {<<w, x>>}),
          {Sys({<<y, B>>}, {}, {}, {<<y, z>>}), Sys({}, {}, {<<x, Gep(E1, z)>>}, {})})

MemcpyPrograms == {MemcpyProgram, MergedMemcpyProgram, MergedEndsProgram,
                     DormantMemcpyProgram}

\* Lanes requested directly, by a nested GEP and by both at once.
L20 == FL!Lane(2, 0)
L21 == FL!Lane(2, 1)
LaneProgram ==
  Program(Sys({<<x, A>>, <<x, B>>}, {}, {<<x, Gep(L20, y)>>, <<y, Gep(E1, z)>>}, {}),
          {Sys({}, {}, {<<x, Gep(L21, w)>>, <<w, Store(x, NoLabel)>>}, {}),
           Sys({}, {<<y, x>>}, {}, {})})
WalkProgram ==
  Program(Sys({<<x, A>>}, {}, {<<x, Gep(L20, y)>>, <<x, Gep(L21, y)>>, <<y, Store(w, NoLabel)>>}, {}),
          {Sys({<<w, B>>}, {}, {<<y, Gep(E1, y)>>, <<y, Load(z)>>}, {})})

\* Every pair of late GEPs, on the root or nested, over two roots.
LateLanePrograms ==
  {Program(Sys({<<x, A>>, <<x, B>>}, {}, {<<x, Gep(L20, y)>>}, {}),
           {Sys({}, {}, {g}, {}), Sys({}, {}, {h}, {})})
   : g \in {<<x, Gep(L21, z)>>, <<x, Gep(FL!Lane(1, 0), y)>>, <<y, Gep(L21, x)>>},
     h \in {<<x, Gep(E1, y)>>, <<z, Gep(L20, y)>>, <<y, Load(w)>>}}

LanePrograms == {LaneProgram, WalkProgram, CycleProgram, MergeProgram} \cup LateLanePrograms

MCJoinPrograms == JoinPrograms \cup MemcpyPrograms
MCPrograms == MCJoinPrograms \cup LanePrograms

LeastSolutions ==
  {[program |-> p, solution |-> Least({p.base} \cup p.calls)] : p \in MCJoinPrograms}
MCSolutions == LeastSolutions

====
