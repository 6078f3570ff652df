------------------------ MODULE InclusionConstraints ------------------------
(***************************************************************************)
(* What the inclusion ("Andersen") solver must compute.  A program is a    *)
(* set of inclusion constraints over cells; a solution gives every cell    *)
(* the facts it may hold, so that every constraint is satisfied and        *)
(* storage that may overlap holds the same facts.  The solver's worklist   *)
(* algorithm is module AndersenSolve; this module says nothing of it.      *)
(***************************************************************************)
EXTENDS Integers, FiniteSets

CONSTANTS
  Nodes,       \* PAG value nodes: they hold pointers, nothing points to them
  Objects,     \* allocations and functions: pointed to, and hold pointers
  Regions,     \* foreign memory, one object per external-region class
  Labels,      \* names of the declarations external facts come from
  NoLabel,     \* a store that carries no such name
  Locations,   \* field locations (FieldLocations, or any finite algebra)
  UnknownLocation,
  LaneLocations,
  KnownLocations,       \* locations that occur in the fixed program
  AddLocation(_, _),    \* FieldLocation::add
  MayAlias(_, _),       \* FieldLocation::may_alias
  Programs     \* the programs: a base system and late call bindings

(***************************************************************************)
(* Cells.  A field cell is the pair of its root allocation and a location; *)
(* a memcpy's summary cell is named by the memcpy.  Summary cells are the  *)
(* solver's own: no constraint mentions one.                               *)
(***************************************************************************)
FieldCells == Objects \X Locations
UnknownField(root) == <<root, UnknownLocation>>

Root(field) == field[1]
LocationOf(field) == field[2]

Copies(code) == UNION {c.memcpys : c \in {code.base} \cup code.calls}
Memcpys == UNION {Copies(code) : code \in Programs}
Destination(join) == join[1]
Source(join) == join[2]
SummaryCell(join) == <<"memcpy", Destination(join), Source(join)>>
SummaryCells == {SummaryCell(join) : join \in Memcpys}

Pointees == Objects \cup Regions \cup FieldCells
ProgramCells == Nodes \cup Pointees
Cells == ProgramCells \cup SummaryCells

\* What a cell may hold: pointees, and the labels of external origins.
Facts == Pointees \cup Labels

(***************************************************************************)
(* A constraint system.  A join reads what its owner points to:            *)
(*   Load(p)       p = *n          pts(o) goes to p                        *)
(*   Store(q, s)   *n = q          pts(q) goes to o, with origin label s   *)
(*   Gep(l, p)     p = n + l       o's field at l is in pts(p)             *)
(* for each o the owner points to.                                         *)
(***************************************************************************)
Load(p) == <<"load", p>>
Store(q, label) == <<"store", q, label>>
Gep(location, p) == <<"gep", location, p>>

Loads(joins) == {j \in joins : j[1] = "load"}
Stores(joins) == {j \in joins : j[1] = "store"}
Geps(joins) == {j \in joins : j[1] = "gep"}

LoadJoins == {Load(p) : p \in ProgramCells}
StoreJoins == {Store(q, label) : q \in ProgramCells, label \in Labels \cup {NoLabel}}
GepJoins == {Gep(location, p) : location \in Locations, p \in ProgramCells}
Joins == LoadJoins \cup StoreJoins \cup GepJoins

Systems ==
  [ addrs : SUBSET (ProgramCells \X Facts),          \* initial facts
    copies : SUBSET (ProgramCells \X ProgramCells),  \* pts(first) goes to pts(second)
    joins : SUBSET (ProgramCells \X Joins),          \* owner and join
    memcpys : SUBSET Memcpys ]                       \* contents copied between pointees

ASSUME LocationAssumption ==
  /\ UnknownLocation \in Locations
  /\ LaneLocations \subseteq Locations \ {UnknownLocation}
  /\ KnownLocations \subseteq Locations
  /\ \A l, m \in Locations : AddLocation(l, m) \in Locations
  /\ \A l, m \in Locations : MayAlias(l, m) = MayAlias(m, l)
  /\ \A l \in Locations : MayAlias(UnknownLocation, l)

ASSUME ProgramAssumption ==
  \A program \in Programs :
    /\ program.base \in Systems
    /\ program.calls \subseteq Systems
    /\ \A system \in {program.base} \cup program.calls :
         \A a \in system.addrs :
           a[2] \in FieldCells => LocationOf(a[2]) \notin LaneLocations
    /\ Copies(program) \subseteq ProgramCells \X ProgramCells

\* The kinds of cell are told apart by what they are.
ASSUME DisjointAssumption ==
  /\ Objects \cap (Regions \cup FieldCells) = {}
  /\ Regions \cap FieldCells = {}
  /\ Labels \cap (Cells \cup {NoLabel}) = {}
  /\ SummaryCells \cap ProgramCells = {}

(***************************************************************************)
(* Field identity (Solve::field_of), given the field cells already made.   *)
(* A nested GEP is brought back to a location of its root: the sum when it *)
(* is a lane or a location the program names, the unknown summary          *)
(* otherwise.  A lane the root's cap refused is the summary too.           *)
(***************************************************************************)
NestedLocation(field, location) ==
  LET sum == AddLocation(LocationOf(field), location)
  IN  IF sum = LocationOf(field) \/ sum \in LaneLocations \cup KnownLocations
        THEN sum ELSE UnknownLocation

RequestedField(o, location) ==
  IF o \in Regions THEN o
  ELSE IF o \in Objects THEN <<o, location>>
  ELSE IF LocationOf(o) = UnknownLocation THEN o
  ELSE <<Root(o), NestedLocation(o, location)>>

IsNewLane(cell, fields) ==
  /\ cell \in FieldCells \ fields
  /\ LocationOf(cell) \in LaneLocations

FieldOf(o, location, fields) ==
  LET cell == RequestedField(o, location)
  IN  IF IsNewLane(cell, fields) THEN UnknownField(Root(cell)) ELSE cell

(***************************************************************************)
(* Storage that may overlap: the materialised fields of one root whose     *)
(* locations may alias, and a directly accessed root with its summary.     *)
(***************************************************************************)
Overlapping(fields, direct) ==
  {e \in fields \X fields :
     /\ e[1] # e[2]
     /\ Root(e[1]) = Root(e[2])
     /\ MayAlias(LocationOf(e[1]), LocationOf(e[2]))}
  \cup {<<o, UnknownField(o)>> : o \in direct}
  \cup {<<UnknownField(o), o>> : o \in direct}

(***************************************************************************)
(* Solutions.  value[c] is what cell c holds, fields the field cells that  *)
(* exist, direct the allocations accessed as a whole.                      *)
(***************************************************************************)
DirectlyAccessed(objects, direct) == objects \cap Objects \subseteq direct

JoinHolds(owner, join, value, fields, direct) ==
  LET pointees == value[owner] \cap Pointees
  IN  \/ /\ join[1] = "load"
         /\ DirectlyAccessed(pointees, direct)
         /\ \A o \in pointees : value[o] \subseteq value[join[2]]
      \/ /\ join[1] = "store"
         /\ DirectlyAccessed(pointees, direct)
         /\ IF join[2] \in Regions
              THEN \A o \in pointees :
                     /\ join[2] \in value[o]
                     /\ join[3] # NoLabel =>
                          join[3] \in value[o] \cap value[join[2]]
              ELSE \A o \in pointees : value[join[2]] \subseteq value[o]
      \/ /\ join[1] = "gep"
         /\ \A o \in pointees :
              LET field == FieldOf(o, join[2], fields)
              IN  field \in value[join[3]] \cap (fields \cup Regions)

\* memcpy(d, s): what s's pointees hold goes to d's pointees.  Sources are
\* accessed only once there is a destination.
MemcpyHolds(join, value, direct) ==
  LET targets == value[Destination(join)] \cap Pointees
      origins == value[Source(join)] \cap Pointees
  IN  /\ DirectlyAccessed(targets, direct)
      /\ targets # {} => DirectlyAccessed(origins, direct)
      /\ \A t \in targets, o \in origins : value[o] \subseteq value[t]

StorageConsistent(value, fields, direct) ==
  /\ \A o \in direct : UnknownField(o) \in fields
  /\ \A e \in Overlapping(fields, direct) : value[e[1]] \subseteq value[e[2]]

\* The regions a system names.  A region's object points to itself.
RegionsOf(system) ==
  {r \in Regions : \/ \E a \in system.addrs : a[2] = r
                   \/ \E j \in system.joins : j[2][1] = "store" /\ j[2][2] = r}

Satisfies(system, value, fields, direct) ==
  /\ \A region \in RegionsOf(system) : region \in value[region]
  /\ \A a \in system.addrs : a[2] \in value[a[1]]
  /\ \A e \in system.copies : value[e[1]] \subseteq value[e[2]]
  /\ \A j \in system.joins : JoinHolds(j[1], j[2], value, fields, direct)
  /\ \A m \in system.memcpys : MemcpyHolds(m, value, direct)

IsSolution(systems, value, fields, direct) ==
  /\ StorageConsistent(value, fields, direct)
  /\ \A system \in systems : Satisfies(system, value, fields, direct)

\* A solution that refuses no field: the fields a system starts from and the
\* ones its GEPs ask for exist.
GrantsFields(system, value, fields) ==
  /\ \A a \in system.addrs : a[2] \in FieldCells => a[2] \in fields
  /\ \A j \in system.joins : j[2][1] = "gep" =>
       \A o \in value[j[1]] \cap Pointees :
         RequestedField(o, j[2][2]) \in fields \cup Regions
=============================================================================
