# TLA+ models of Tenjin-PANGS

PANGS is a whole-program pointer analysis for LLVM bitcode. It builds a
call graph and, on top of it, decides how each mutable global of a C program may
be rewritten. This directory models the pipeline from the pointer IR to the rewritten
manifest: how statements become a pointer graph, the two solvers that read the graph, what the
finer one takes on and answers, what each function may touch, the facts a disposition is decided
on, the certificate that a global is written in a first phase only, and the tools that decide
and keep the two files. The source is one Rust
workspace under `src/crates/`; line numbers below and in `PROJECT.json` ("map")
refer to it.

## 1. The system

Data flows one way, phase after phase; there are no threads in the modelled
parts and no messages. What makes the system hard is not concurrency but
*order* and *omission*: worklists are popped in the order of hash tables, constraints arrive
after others have already been propagated, cycles are collapsed in the middle of
propagation, and budgets can strike at any point. Each phase forgets what the next is
believed not to need, and the program that was analysed goes on to run: with callbacks, hostile
callees and any control flow. The tools of the disposition
phase run again and again on their own output, and can die half way.

| Part (crate, file) | State it keeps | Operations | Hard behaviour | What makes it correct |
|---|---|---|---|---|
| PIR and lowering (`pangs-pir`) | the lowered module | lower, validate; `GepLane` arithmetic; the table of library contracts | residues and moduli near the limits of i64 | equal lanes have one representation; contracts cover what a library function does |
| PAG (`pangs-pag`) | nodes, edges, seeds, origins of integers | build, variadic proofs, integer detours, lanes of pointer cycles, storage roots | a use that an audit overlooks; signed strides around cycles | whatever a value or a place ever holds is in the graph |
| Field locations (`pangs-solve/lib.rs` 1280-1421) | none (values) | `from_gep`, `add`, `may_alias`, `may_overlap` | i64 overflow, gcds, first and last bytes | a location contains the concrete offset; relations hold exactly when two executions meet |
| Steensgaard `Solver` (`pangs-solve/lib.rs` 1796-4147) | classes in a union-find, what they point to, facts, frontiers, regions of allocations, escapes, worklist | edges, calls, seeds, `process_class`, `join` | joins of classes already processed, fields made after an escape, replayed arithmetic | classes over-approximate every execution; escapes reach whole allocations |
| Inclusion solver `Solve` (`andersen.rs` 5452-7391) | points-to sets and deltas, copies, loads, stores, GEPs (each established or pending), memcpys and what they have seen, field cells, representatives, worklist | `add_*`, `field_of`, `run_with_limit`, `collapse_copy_sccs` | constraints and fields that arrive late, collapses, lane caps | the least solution of the constraints, in every order |
| On-the-fly call graph `Refiner::run` (2514-3427) | bound targets by site, eager sites, rounds, budget, the solver | bind, discover, resume, give up, publish | discovery interleaved with propagation, budgets | least closed call graph; nothing partial is published |
| What the inclusion tier takes on and answers (`andersen.rs` `build_scope`, `build_base_solve`, `emit_*`) | components, slices, promoted nodes, rows | partition, promote, seed, publish | accesses that meet in two components; boundaries the finer tier must seed again | no refined row is less than what an execution does |
| Offline quotient, overlap, receiver payloads (`andersen.rs`) | class of every node; payload cells | opt-in variants of the solver | late facts in a merged class | same answers as without the variant, or still sound |
| Closed producer/consumer certificates (`andersen.rs`) | none of its own | audits of a finished solve | one producer or taker not seen | a removed unknown bit was not needed |
| CFL tier (`cfl.rs`) | memo of queries | demand-driven queries | budgets, recursion | answers contain the exhaustive one |
| API (`pangs-api`) | memo of transitive summaries | mod/ref, stationary cells, components, context rewrites, differential reports | memo inside a cycle, collapsed rows | a summary covers all callees |
| Clients (`pangs-clients`) | one record of facts per global | literals folded, contexts, groups, locks | a finding that taints the wrong globals; locks taken again | facts hold of every execution |
| Phase stationarity (`phase_stationarity.rs`) | spine, observations | splice, choose the publication point, kill, payload | publication on all paths, callbacks | no write after publication |
| Disposition (`pangs-dispose`) | ledger, groups, overrides, manifest | cascade, group resolution, overrides, demotion and reprojection, persist | demotions that cross groups; re-runs on old output; a crash between two files | what is chosen can be carried out and is explained; demotion never promotes; the two files agree |
| Manifest (`pangs-manifest`) | none | canonical form, validation | | accepts exactly well-formed manifests |
| Source facts, CLI, test support | none | extraction, parsing, sequencing | I/O | |

How they interact: lowering feeds the PAG; the PAG is the constraint system of
both solvers; Steensgaard's rows are the *envelope* inside which
`Refiner::run` may bind the targets of an indirect call, and the answer it falls
back to; `Refiner::run` owns a `Solve`, adds constraints to it between calls of
`run_with_limit` and reads its points-to sets when it has come to rest; the published rows and
points-to sets are all the API reads, and may sharpen the call graph once more; clients and the
phase certificate read the API's summaries; disposition reads the clients' facts only.

## 2. The modules

| Module | Models | Role |
|---|---|---|
| `FieldLocations` | `FieldLocation`, `FieldRegion`, `GepLane` | pure algorithms over an i64 of any width |
| `GepChains` | the program the locations describe: pointers moved by GEPs, each with its concrete offset and its derived location | reference semantics for `FieldLocations` |
| `PirStatements` | statements of the pointer IR and the table of library contracts | the language the next five modules read |
| `VariadicTails`, `IntegerPointers` | the audits of `pangs-pag`: what becomes of variadic arguments, and of pointers that go through integers | pure functions of a program |
| `PointerGraph` | the builder, lane inference, storage roots | the graph both solvers read |
| `GraphExecution` | the program run in any order, or in its own, with hostile surroundings; the graph's least facts | reference semantics for the graph and for what is derived from it |
| `PointerGraphProperties` | what the graph promises of an execution | properties |
| `ReceiverPayloads`, `PartitionScope` | what the inclusion tier reads off the graph, receiver operations, `build_scope` | what is solved, and what keeps the answers of the tier before |
| `RefinedCalls`, `OfflineQuotient`, `CallCertificates` | constraints and their least solution with calls bound as found; the quotient; certificates and rows, and what they promise of an execution | the inclusion tier's answers |
| `InclusionConstraints` | cells, constraints, field cells, and what it means to satisfy them (`IsSolution`) | abstract specification of the solver |
| `AndersenSolve` | `Solve`: `Build`, `Resume`, `Pop` | the solver |
| `NaiveSolution` | the least solution by plain iteration | reference definition |
| `AndersenPrecision` | the property `Precise` | compares the two |
| `OnTheFlyCallGraph` | `Refiner::run` and publication; its steps are steps of `AndersenSolve` | composes caller and solver |
| `CallGraphOracles` | `subtractive_oracle`, closed call graphs and the least one; the property `BoundsLeast` | reference definitions; compares the pass with closed call graphs |
| `Steensgaard` | `Solver` in `pangs-solve/lib.rs`: `new`, `run` and all they call | the base tier |
| `SteensgaardProperties` | what the solver promises of its classes, and what it asserts of itself | properties |
| `SolverAnswers` | `finish`: rows of calls, functions, globals and values, points-to sets through memory, address exposure, isolation, audits, the second solve; and the program followed byte by byte | the base tier's answers |
| `CallQueries` | `cfl.rs`: queries for the calls a function reaches, rounds, fallback | pure functions of a solved program |
| `CallEffects` | `pangs-api`: storage-root audit, rows, ledger, stationary cells, memoised summaries, components, context rewrite; then the program executed | who may touch what |
| `Clients` | `pangs-clients`: facts of every global, folding, contexts, groups, locks; the execution goes on with threads and handlers | extends `CallEffects` |
| `PhaseStationarity` | `phase_stationarity.rs`: boundaries, spine, publication point, kills, payload; then the program executed | the phase certificate |
| `DispositionPolicy` | `pangs-dispose`: guards, cascade, groups, overrides, selection, demotion | pure functions from manifest to manifest |
| `DispositionPipeline` | `analyze --dispose`, `pangs-dispose`, `reproject` over manifest and ledger on disk | composes policy, validation and the two writes |
| `AndersenSoundness`, `AndersenStability` | | proofs about the solver: types and soundness; lane cap, identities and precision |
| `SteensgaardProofs` | | proofs about the base tier: types, escapes, calls, its own assertions |
| `CallEffectsProofs` | | proofs about `CallEffects` and `Clients` |
| `PhaseProofs` | | proofs about `PhaseStationarity`: spines, dominators, the running program, its reads and callbacks |
| `CallGraphProofs`, `DispositionProofs`, `FieldLocationProofs` | | proofs about the module of that name |
| `MCGepChains`, `MCPointerGraph`, `MCRefinedCalls`, `MCAndersen`, `MCOnTheFly`, `MCSteensgaard`, `MCCallEffects`, `MCClients`, `MCPhase`, `MCDisposition` | | instances for TLC |

`InclusionConstraints` is parameterised by *any* algebra of field locations
(`AddLocation`, `MayAlias`, `UnknownLocation`, `LaneLocations`). The runs of
the solver instantiate it with the real algebra of `FieldLocations` over a small
i64; the proofs assume of it only what `LocationAssumption` names.

The modules that judge an analysis by what the program then does (`PointerGraph` and its users,
`CallEffects`, `Clients`, `PhaseStationarity`) share one form: a `phase` that says how far
the analysis is, variables for what it has found, and variables of an execution that starts when
the analysis is published. The execution is not code of the repository: it says what C
programs do, and its definitions are marked external in the map.

### 2.1 State and actions of the solver

| Model | Code |
|---|---|
| `solve.rep` | `representative` |
| `solve.pts`, `solve.pend` | `pts`, `pending_pts`, and `external_sources` with its pending half |
| `solve.succ`, `solve.psucc` | `succ`, `pending_succ` |
| `solve.joins`, `solve.pjoins` | `loads`, `stores`, `geps` and their `pending_` halves |
| `solve.memcpys`, `seenTo`, `seenFrom`, `active` | `memcpys`, `memcpy_by_endpoint`, and what each `MemcpyJoin` has seen of its ends |
| `solve.fields`, `solve.direct` | `fields`, `unknown_fields` and `obj_fields`; `direct_accessed` |
| `solve.worklist`, `solve.fresh` | `worklist` with `queued`; `new_copy_edges_since_scc` |
| `installed` | which constraint systems the caller has added |
| `tick` | flips at every pop, so that a pop that changes nothing is still a step |

* `Build` is `build_base_solve`, `Resume` the constraints a batch of call
  bindings adds (`activate_target`). Both happen at rest only.
* `Pop(n)` is one iteration of `run_with_limit`, whole: take the cell's deltas and
  pending edges; flow along copies (`Copied`); established loads, stores and
  GEPs on the delta, pending ones on the whole set (`Loaded`, `Stored`,
  `Stepped`), including the snapshot the pending half takes after the established
  half has run; the memcpys indexed by the cell (`BulkCopy`); and then
  `collapse_copy_sccs` if enough edges have been added. Creating a field cell
  joins it with every overlapping field and with a root accessed as a whole
  (`StorageCopies`).
* `Absorb` is the common tail of all additions: `add_pts`, `add_copy`,
  `enqueue`.

Abstractions of data, all of them deliberate:

* The worklist is a set, and `Next` pops any member. The code pops in a fixed
  order, but what that order is depends on hash tables and ids; every property
  holds for all orders.
* Which field requests win the lane cap also depends on iteration order, so
  `Admissible` chooses any order that respects the cap.
* External-origin labels are kept in the same set as pointees (`Facts`).
  They flow along the same edges and are never dereferenced.
* A collapsed cycle's leader is its least id in the code and an arbitrary
  but fixed member here. Components are the code's two-pass search, defined by
  mutual reachability over canonical cells.
* Points-to sets are sets; the hybrid bitmap/vector representation is not modelled.
* The default configuration: symmetric field overlap, memcpy summaries, pointer-cycle
  lanes. The opt-in modes are in the modules of 2.8.

### 2.2 State and actions of the call graph

| Model | Code |
|---|---|
| `activated`, `eager`, `rounds` | `activated`, `eager_sites`, `resume_rounds` |
| `steps` | the cumulative step count (only kept under a step budget) |
| `outcome`, `rows` | `RefinerOutcome` / exhaustion reason, and the published `indirect_calls` |
| `Start` | 2583-2635: base system, exact targets of pinned sites, whole envelope of eager sites |
| `Propagate` / `OutOfSteps` | `run_with_limit` and the budget test at its top |
| `Finish`, `GiveUpAfterDiscovery`, `ActivateAll` | the three ways out of discovery (2655-2722) |
| `GiveUpPropagating` and `inject` | the test hooks that exhaust the pass at a chosen point |

One batch of bindings is installed as the union of their constraint systems: the
code adds them one after another without popping in between. Steensgaard's rows
are an input (`graph.steens`), and so are the sites in scope. That exact
answers lie within Steensgaard's is what the code asserts
(`debug_assert_narrows`); it is part of `CallGraphAssumption`. External call effects
use one boundary region per site and are applied once per site and target;
variadic effects and the choice of the sites in scope are in the modules of 2.8.

### 2.3 State and actions of the base tier

| Model | Code |
|---|---|
| `rep`, `size`, `pointee` | union-find `parent`, `size`; the class a class points to |
| `facts`, `sources` | `ext`, `external_escaped_union`, `esc`, `allocation_escape`, `pointer_write_destination`, `has_empty_witness`; `escape_sources` |
| `content`, `delivered` | `content_succ` and the content frontier |
| `sites`, `fns`, `swept`, `opened` | `icall_sites`, `fn_objs`, the processed rectangle, `processed_external_icall_sites` |
| `regions`, `shifts`, `replayed`, `spread` | `field_regions`, `gep_succ`, the GEP frontier, `escape_processed_regions` |
| `cells`, `escaped`, `lanes` | `field_classes`, `field_escape_sources_by_root`, `derived_lanes_by_root` |
| `pairs`, `externals`, `published` | `seen_pairs`, `external_applied`, `escaped_fn_applied` |
| `todo` | how far `apply_edge_rules`, `register_indirect_calls`, `apply_seeds` and `seed_main_entry_params` are |
| `agenda` | the calls the running handler has still to make |

A handler of this solver unifies classes in the middle and then goes on with
whatever class it finds, and the functions it calls unify further. So every function
is an action (`pointee_of` is `PointeeKnown` and `PointeeMade`, `join` is
`JoinClasses` and `JoinedAlready`, ...), a handler is the sequence of calls it makes,
and `agenda` holds what is left of it. A call names a class by the code's expression for it
(`Of`, `PointeeOf`, `CellOf`), which `Find` evaluates when the call is made. Only an empty
agenda lets the next edge, call, seed or class begin: the code is sequential.
Where the code iterates a hash set the order is open (`in_any_order`), and so is the
order of the worklist. `process_class` is one action up to the calls it ends with,
because nothing it does before unifies classes. Frontiers that the code keeps as
lengths are kept as the sets they count: sets of a class only grow.

The certified storage roots of values (`root`, `empty`) are an input; the exact addresses
derived from them are computed. Provenance bits and metrics are left out. `PartitionScope` takes
any sound base tier, the most precise or the coarsest.

What is answered at rest is in `SolverAnswers`, as operators over the solved classes: rows
(`CallTargets`, `UnknownCallee`, `EscapeExternal`, `NeverWritten`, ...), the two syntactic proofs over the program that
narrow them (`global_address_exposed`, `AddressIsolated`), points-to sets
through memory, the audits and the edges of the exported call graph. Variadic calls through pointers
give their tails to foreign code at first; `SafeSites` are those that need not, and `Rebuilt` is the
program that the API builds and solves again. `Executed` follows a program byte by byte, with
foreign code that calls, fills, reads and hands over all it knows; it is the
reference and no code of the repository. `CallQueries` is the diagnostic tier of `cfl.rs` on the same programs: one
depth-first query per function, both kernels, the budget, rounds that bind what was
found and repeat what it touched, and the base tier's answer where a query was truncated.

### 2.4 State and actions of the disposition

| Model | Code |
|---|---|
| `analysis` | the analysis-owned sections of the manifest (facts, strategy support, recipes); no tool changes them |
| `manifest` | the disposition sections on disk: cascade order, choices with their provenance, pins, groups, report, selected recipes, demotion records |
| `ledger` | `pangs-audit.json`: the analysis's records and one for each accepted risk |
| `tool` | the running tool: how far it is with its two writes, and what it will write |
| `exit` | how the last tool ended |

* `Analyze(o)` and `Dispose(o)` are one whole policy application with override file
  `o`: read, `validate` in `read_manifest`, `apply_policy`, `validate`. The former starts
  from a fresh analysis, the latter from the files on disk. What does not validate
  ends the tool before it writes.
* `PersistLedger` and `PersistManifest` are the two renames of
  `write_artifact_pair_to`; `Crash` is a death before or between them.
* `Reproject(failures)` is the whole command: validate, `demote_and_reproject`,
  validate, write.

Abstractions:

* Facts keep what the guards tell apart (`Facts`). A certificate that failed says
  whether it left a recipe; the validator and DISPOSITION.md:399 admit
  "evidence failed, recipe present", although the present analysis emits none.
* `rejected-strategy-unavailable` and `rejected-no-recipe` are one outcome; the
  cascade's trace, witnesses, reasons, the `[cascade]` entry of the report and
  the measurement report are left out. A record of the ledger is its source,
  scope and key.
* Whether a set of source edits composes is the constant `Conflicting`.
* Override files are syntactically valid (the tools refuse others before reading
  anything else), and the configured order has no `unhandled`.
* One tool runs at a time: nothing in the code locks the files, and the
  documentation describes a sequence of tools. `reproject` writes with `fs::write`,
  which is one step here; the `--out` directory is the one that was read.

### 2.5 State and actions of the pointer graph

| Model | Code |
|---|---|
| `program` | the lowered module: bodies of statements, declarations, exports, literals |
| `phase`, `todo` | how far `build_pag` is: statements still to lower, then lanes, then roots |
| `graph` | nodes, edges, seeds, call sites, empty values and integer origins of the builder |
| `drawn`, `roots` | the edges before lane inference; `allocation_storage_roots` |
| `solution` | the least facts of the finished graph, what escaped, what was audited |
| `env`, `memory`, `known`, `stack` | the execution: values, places, what code out of sight knows of, calls in progress |

* `LowerMove`, `LowerPtrToInt`, `LowerIntToPtr`, `LowerList`, `LowerUnknown`, `LowerCall` and
  `LowerIndirectCall` are `lower_stmt` for one statement each, with the audits and contracts the
  statement asks for; `FinishBuild` adds what the builder adds for symbols and parameters.
* `InferLanes` (or `KeepConstants` when switched off) gives the constant displacements of a cyclic
  component a lane; `ProveRoots` is the storage-root fixpoint.
* `Run*` perform a statement that is ready, `OutsideStores`, `OutsideCalls` and
  `OutsideReceives` what code out of sight can do with what it knows.

Abstractions: a program's statements run in any order, which over-approximates every control
flow, or one after the other with a call stack where the program says `inorder`. A pointer that
becomes an integer keeps its origin, so detours are judged by identity. Edges are a set, so
identical ones merge. Spanning trees of a cyclic component may be any. Library functions behave
as their contracts say. `va_arg` always comes with the load of the same value. The values of
an audited function are exempt from `PointersCovered` (part of `ExecutionsCovered`): the audit shows that it only reads; a
list's own storage is no client memory. `AssumeTags` is a declared assumption of the user.

### 2.6 State and actions of the call effects and the clients

| Model | Code |
|---|---|
| `phase` | roots, rows, summaries, run |
| `analysis` | published call edges, stationary cells, components |
| `memo` | memo of transitive summaries by component |
| `plan` | the context rewrite plan |
| `manifest` | the clients' record of every named global, groups and locks |
| `stack`, `dirty` | the execution: frames, and the globals written so far |

* `CertifyRoots` audits the storage roots and, if one is wrong, widens everything they narrowed;
  `ResolveCalls` derives local rows and stationary cells and sharpens the call graph.
* `Collect(c)` computes the summary of one component from those of its successors, in any order
  the successors allow; rows collapse at `TransitiveLimit`, addresses at `FanoutLimit`.
* `Publish` computes components, the context plan and, in `ClientsStep`, the manifest.
* `Enter`, `Call`, `Write`, `WriteOutside`, `Return` and, in `Clients`, `Interrupt(kind, f)` execute.

Abstractions: outside code writes exported globals only, since an escape by value deliberately
does not block stationarity (a test of `analysis.rs`, line 914, wants it so); `main` is
entered from outside, so clean components are those that are never entered. Audit findings are an
input. Addresses without a node in the solver, `ModuleWide` access sets (which the modelled
pipeline does not produce) and the mismatch branch of localisation (its component is always the
plan's) are left out. The order in which literals are folded is fixed.

### 2.7 State and actions of the phase certificate

| Model | Code |
|---|---|
| `spine`, `leaf`, `path` | the spine so far, its last function, the splices made |
| `certificate` | the published payload, or the error codes |
| `stack`, `sets`, `armed`, `leaked` | the execution: frames, how often the cell was set, callbacks registered and leaked |

* `Descend(c)` splices the uniquely called function at boundary `c`; `Decide` selects the
  publication point, applies the kill rules and makes the payload.
* `Access`, `Call`, `CallOutside`, `Leak`, `Interrupt`, `Advance`, `Return` execute the program;
  the cell is set on arrival at the publication point.

Abstractions: one statement per boundary; sites of pointer accesses keep the exact index; the
order of several error codes is fixed; codes of tainted inputs are left out.

### 2.8 The inclusion tier's answers

`answers` holds one complete answer for each setting and each base tier, computed by `Refine`
(`finish_andersen_controlled`) when the graph is finished; then the program runs. The order of
work inside is that of `AndersenSolve` and `OnTheFlyCallGraph`, whose runs and proofs show that
it does not matter; here the least solution is taken at once.

* `PartitionScope`: the weak components over nodes, regions of certain addresses and hubs
  of accesses that may meet; what is of interest; what fits; what a call's operand depends on
  when its component does not fit.
* `RefinedCalls`: the base constraints, boundary seeds of direct calls, bindings of found targets
  with their variadic and external effects.
* `ReceiverPayloads`: operations that put a pointer into their receiver or get it out, the receivers
  told apart, origins of payloads.
* `OfflineQuotient`: static cycles, substitution, value numbering, shared union cells. A class
  is shown as mutual copies of its members, and taken after the bindings made at once.
* `CallCertificates`: closed producers and consumers, rows of calls and of nodes.

Abstractions: the tier before is either exact or as coarse as can be. Certificates for
producers and consumers are switched together. Budgets are scaled (`Within`, `MaxPromoted`,
`MaxClosed`, `MaxContexts`, `MaxOrigins`). Accesses are one byte wide. Of two equally good receivers
or kept origins any may be taken. Every payload vertex of an origin counts as support whichever
call made it. The filter by signature, exact and confined targets given by the caller,
exhaustion, the lane cap and the threshold of the collapse are not
modelled here. Labels are modelled where the code tests them: a function's first
parameter ends in `0` and so passes for a terminal (`andersen.rs` 3721-3726).

## 3. What the runs check

| Run | Question | Instance |
|---|---|---|
| `gep_chains` | Do locations contain the offsets they stand for, and do `may_alias` / `may_overlap` hold exactly when two executions can meet? | i64 is -12..11; two symmetric pointers; up to `MaxGeps` = 2 GEPs in total from eight kinds: constants that overflow either end, lanes whose strides share no, some or all factors, a modulus wider than the integer, an unknown index; access widths none, 0, 1, 2, 4; concrete executions over the window -14..14 |
| `pag` | Does the pointer graph cover whatever the program does? | 46 programs of one idea each: moves, calls by value, callbacks, lookups, libraries, detours through integers (exact, lossy, shifted, reserved, tagged), inline assembly, cycles of arithmetic (net zero, strides with a common factor, sums beyond `MaxWide`), every kind of library contract, variadic tails bound, forwarded and audited. Offsets -4..4, sums -9..9, addresses up to `AllOnes` = 7 of which 2 at each end are reserved |
| `refined` | Do the inclusion tier's answers cover whatever the program does, whatever it left out? | 22 programs in which a function travels through tables, structures, copies, calls, containers, published and returned storage, some of them the programs of `pag`; each with an exact and a coarsest base tier, under every combination of offline quotient and overlap with everything in scope and certificates given, and with budgets at which only small components, promoted slices, or what certificates want is solved; containers under receiver payloads |
| `refined_front`, `escapes`, `phase_readers` | Three statements the code does not meet | see below |
| `andersen` | Soundness, precision and termination of propagation with collapse and memcpy summaries | 31 programs of 4 value nodes, 2 objects, one foreign region: 4 hand-made for one hazard each (cycle through memory, merge of joins, fields, foreign memory), 12 that add every pair of a late copy and a late join, 4 with memcpys (late activation, ends merged by a collapse into one or into a third cell, two memcpys that become equal, one that stays dormant), and 11 in which lanes compete for a cap of 1, directly and through nested GEPs, in the base system and late, one of them a walk round a cycle; collapse after every 3 edges; late systems may arrive in either order or never |
| `on_the_fly` | The call graph | 5 programs of 2 sites and 2 functions (callback through a parameter, a returned function pointer, pinned and eager sites with a confined function, entry arguments against escaped memory, a pointer in a field with one site out of scope) under 8 controls: no budget, eager sites off, a step budget of 4, round caps of 1 and 2, three injected exhaustions |
| `steensgaard` | Is every call bound or published, do escapes reach everything, do the solver's assertions hold of every step, do its answers and the queries cover the program followed byte by byte, whatever was joined when? | 16 programs over 8 values, 2 allocations, 3 functions and 3 sites, an i64 of -1..3. Calls: two sites whose classes are joined by the binding of a third, after their own pairs were done and after one was found to call outside; main's parameter called, a function that escapes. Arithmetic: a pointer that walks over two allocations, an unknown place in one and an exact place in another, lanes beyond a cap of 1, displaced function pointers; overlapping accesses of two widths. Escapes: exported storage whose fields appear later, a forged pointer that circulates through memory, storage that holds its own address, a null parameter bound late to a forged pointer, variadic calls, direct and through a pointer, and such a call solved again without its tail. Answers: classes merged by an assignment, a container that escapes with what it holds, chains of calls for the queries with an ample and a scarce budget |
| `effects` | Do summaries, stationary cells, plans and facts hold of every execution? | more than 3000 programs of three functions and three globals: every kind of address under every statement, call graphs with cycles and callees out of sight, dispatch cells, context roots, wrong storage roots; locks, threads and handlers, publication intervals, literals, findings. `FanoutLimit` = 1, `TransitiveLimit` = 2, frames at most `MaxFrames` = 5 |
| `phase` | Is a certified global quiescent once published, are its reads on the right side? | 6270 programs: main over a line, a diamond and a loop with every mix of accesses and calls, layers of helpers, boundaries that share a location (adjacent, apart, and in the opposite order of control), one and two splices, chains longer than `MaxDescent` = 2, callbacks registered, passed out and leaked, main among them, some of which read through a helper; frames at most `MaxFrames` = 5 |
| `disposition` | Do later stages always read a consistent manifest, and do the two files come to agree, over any sequence of runs, demotions and crashes? Can what is selected be carried out as one source edit? | a group of two globals and one alone, twelve analyses (each certificate certified, repairable and lost; declared atomics; tainted, constant and local globals; group support present, failed and absent; four with a source plan whose recipes are blocked by the source, by the IR, or clash), ten override files (pins on the group, on members against and with the group, opt-outs, disabled strategies, unknown keys, with and without accepted risk), any set of failures |

`CHECK_DEADLOCK FALSE` is set in all runs but `effects` and `disposition`, because the program does stop:
the solver at rest, the pass when it has
decided, a chain after its last GEP, an execution when main has returned. The disposition tools can
always be run again, and `effects` can always enter main again.

The properties, by what could go wrong:

* `ChainSound` (soundness) and
  `RelationsExact` (no missing and no spurious alias among representable locations).
* `ExecutionsCovered`: whatever is held (`PointersCovered`) or accessed (`AccessesCovered`), by statements,
  by library functions or by code out of sight, is among the graph's facts. `ValueProofsSound`: a proved storage
  root is the allocation a value points to (`RootsSound`), and the report of assumed tags counts
  every one that is used as an address (`AssumedTagsCounted`). `LanesExact`: the lane of a cyclic component is the gcd of all
  its closed walks, whichever spanning tree was taken, and lanes appear only where they must.
* `CallsAnswered`: a call that is about to be made reaches a function of its row, or the row has
  the unknown bit. `OutsideCallsListed`: functions that code out of sight can call are published as
  such, certificates or not. `PointeesNamed`: refined rows of nodes name what is pointed to.
  `QuotientExact` compares whole answers with and without the quotient.
* `QuiescentSound`: whenever the worklist is empty, everything installed so far
  holds. `SemiNaiveInvariant` is the reason, and is inductive.
* `Precise`: at *every* state the solver's facts lie within the least solution
  of what is installed, so a collapse or a memcpy summary is exact, as the
  comments at 6706 and 6100 claim.
* `IdentitiesStable`: no GEP changes its answer when the root fills up.
* `Terminates`, `Decides`: propagation comes to rest, whatever it creates on the way; the pass decides.
* `CompleteIsClosed`, `BoundsLeast`: a complete pass ends in the *least* closed
  call graph, whatever the order. `SubtractiveDifferential` is the code's own
  cross-check against a descending construction (2751). `PublishedSound`:
  nothing of an incomplete ascending solve is published, exact rows survive.
* `SolverSpec`: the pass refines the solver's specification, so all that is
  proved of `Spec` holds inside it.
* `AnswersCoverExecutions`: whatever a value holds when the program is followed byte by byte lies in its class and its
  row names it; so does what is read through it. Every executed call and every caller out of sight has an edge of the exported call graph,
  whatever foreign code learns has escaped, what is written is not called unwritten, function
  addresses that turn into integers or travel in a tail are audited, a tail that is kept from
  foreign code is not read by anybody, and an isolated allocation stays in the module
  where pointers in memory are followed. The reference knows nothing of classes, regions or vocabularies.
  `QueriesAgree`: queries repeated on the final graph find nothing new, the finer kernel finds no call that the coarser does not, and
  no call is missed. `AssertionsHold`: what `run` asserts when the queue is empty (`OneHop`, `NullIsolated`, `FieldsCoherent`) is true of every step.
  `CallsClosed` (its parts `CallsBound`,
  `UnknownCallsPublish` and `EscapedFunctionsAreOpen`) and
  `EscapeIsWhole` say that at rest no frontier has hidden anything; a call whose operand is proven empty has no target
  and is left out, as the code leaves it out.
* `AccessesAttributed`: what a running statement touches is in the summary of every frame that led
  to it and in the ledger. `SummariesExact`: a summary says what the rows of the reachable functions
  say, in whatever order components were collected. `StationaryHolds`: a
  stationary cell is never written, so calls through it go where its initialiser says.
  `ContextThreaded`: whoever names a threaded global holds the context, and every caller passes what its
  callee takes. `CleanComponentsClosed`: no execution from outside enters a clean component.
* `LocksSound`: a certified lock is never taken twice by one thread, and guards every access.
  `UnwrittenStaysUnwritten`: a global published as never written is not written, its literals
  included. `ContextsMarked`: threads and handlers touch marked globals only.
* `QuiescentOncePublished`: no write after the cell is set, and it is set once unless
  main's address is given away. `ReadsPhased`: a read before is at a listed site, one after is in a counted
  reader; `InitSubtreeCarries`: the init local can be passed down to every early access. Both for callbacks
  handed out on the spine only (`Foreseen`), in programs that do not give main's address away.
* `JointUniform`: a resolved group is represented in one way, after member pins and
  demotions. `NothingInvented`: an accepted risk waives evidence, never a
  declaration or a recipe. `OnlyLowers`: reprojection can be
  repeated and only gives up. `CommitRepairs`: a policy run leaves ledger and manifest in agreement even
  after a crash tore the last pair. `SelectionExecutable`: what reaches the disk can be carried out.

What the properties except: `ReadsPhased` excepts certificates whose publication point divides the
boundaries of one location (`Undivided`) and late reads by what a callback calls, both of which the code gets wrong (see below). `LocksSound` covers calls inside the module, callees that are unknown
and one handler, not callbacks from declared functions
(notes/disposition_mutex_d4_yapet_audit_2026-07-18.md:18) nor other threads.
`UnwrittenStaysUnwritten` excepts a write known only as a row without a name.
`ContextsMarked` excepts a call site that may reach two registration APIs, of which the
code keeps the last kind (`pangs-api/src/lib.rs` 4610, DISPOSITION.md:141). `PointeesNamed` does not look at
receiver settings, in which formals are not told of payloads. `AnswersCoverExecutions` asks isolation of programs in which pointers are
stored at an address as it was taken and read through an alias the proof knows of (`FollowedThroughMemory`);
the others are the run `escapes`. `QueriesAgree` states what the queries do not reach: rounds repeat a query that touched a bound call's
arguments or its results, but not one that touched a bound parameter; a state counts as visited by
its active level, whatever lies below it on the stack; a memory level reached through an address that was itself read from memory, or moved by
a `memcpy`, is not followed (`AddressesInValues`); and a truncated query answers for the sites it got to.

**Why the bounds are enough.** For the solvers, each hazard involves at most two cells in a
relation (an edge and its late arrival, a merge of two members, a field and its
neighbour), a third that observes, and one late event before and one after; the
programs provide exactly that in all orders. Precision and termination do not
depend on size beyond the cycles through memory that four nodes can form.
Soundness, precision, identity stability and closure are proved
for every size (section 4), so for these the bounds matter less, and so
for the location algebra, the call effects and the clients.
For `gep_chains`, chains of three GEPs are not larger than chains of two that
start from a lane, because `add` only sees the derived location. The integer is
narrow so that overflow happens with small constants; nothing in the code
depends on its width except the overflow test.
For the base tier the hazards are joins between classes that were already processed:
each program has one late event (an indirect call that binds, arithmetic
that reaches a new region) and two classes it joins, under every order of the worklist.
`Spare` bounds the classes made while solving; the programs make at most 12 (a thirteenth
name adds no state). That the base tier comes to rest is not a property of a run:
what is checked holds in every state at rest.
For the graph and the refined answers each program has one way for an address to travel, and the
audits decide per statement or per function, so two ways interact only through the facts of a node,
which are a union. For `effects` three functions give every shape of a component with a
predecessor and a successor, and limits of one and two rows make every row collapse somewhere. For
`phase` four boundaries give a point before, at, beside and after the publication; descent
is bounded at 2 instead of 4 so that a chain of four functions exceeds it.
For the disposition, a group of two and a global outside it are the smallest
instance in which a demotion can and cannot cross to another global; what is
proved of it holds for every number (section 4).

**Fairness.** `Terminates` and `Decides` assume only that the loop keeps running while
it can: the code is a `while let Some(n) = pop` inside a `loop`. It is written
out as "infinitely often at rest, or infinitely often a step", which is weak
fairness of `Next`; no fairness towards a particular cell is assumed, so a cell
may be starved by others as long as something is popped. The other phases are finite passes over
their input, or fixpoints over finite sets, and have no liveness property.

**Disagreements.** Three are runs that TLC must find violated.

* `refined_front` (`CallsAnswered`): the vertex of a store at an allocation's very address is the
  allocation's own (`andersen.rs` 1223-1227), which nothing joins with its regions. The store
  of a table's first entry is left out of the solved component, and the row of a call through the
  table names the other entries only, without the unknown bit, in the default
  configuration. The comment at 2946 says that partitions are self-contained.
* `escapes` (`KnownAddressesReported`): `allocation_isolation` lets a stored pointer flow to the very node of the address it is stored at
  (641) and to loads from aliases of that node. A container handed out through one value and filled through another does not take along what
  it holds (`FieldProgram`), nor is a pointer followed that is read at an address read from memory (`ListProgram`), nor one that travels
  in the tail of a variadic call (`TailProgram`): the row of a global loses its escape while foreign code has its address. The comment at
  551 says that every pointer stored in a published container goes along.
* `phase_readers` (`EveryReadPhased`): a reader registered by a helper below the spine, or stored where
  foreign code finds it, is no observation (`phase_stationarity.rs` 925-1026), against
  ONCELOCK.md:134-136.

Others were met while modelling, follow from the lines they name, and are left to the reader of
the code; the models do what the code does.

* `pangs-dispose/src/lib.rs`: the ledger is replaced before the manifest (1313; DISPOSITION.md:424-426, comment at 1280), which
  `CommitRepairs` shows to be repaired by the next run; a validation looks for blockers that availability
  does not (1102, DISPOSITION.md:443); a pin's conflict with the group is tested before enablement
  (613, DISPOSITION.md:369-374); groups that resolution left unset become `unhandled` (414, DISPOSITION.md:596).
* `pangs-solve/src/lib.rs` 3121 skips a variadic argument that points nowhere yet (DESIGN_lite.md:82, DESIGN.md:376); the addresses it
  compares do not include what an indirect call binds; the seed of a list of variadic arguments (2266-2277) is not
  guarded against a null operand, which `CanonicalNulls` therefore excludes.
* `pangs-pag/src/lib.rs` 3690: a `memcpy` out of a pointer taken from the tail counts as a read, and what the copy holds
  is not followed, so it may be written through (3246); 2430-2450 draws an `AddrOf`
  between two objects, the table of the `ctype` contract and its slot, which `Pag::validate` (531-552) rejects, so `check-pag` refuses modules that use `__ctype_b_loc`.
* `pangs-api/src/lib.rs` 1804: a row past the fan-out limit has no name, is a writer for stationarity and leaves `written`
  false (comment at 1795); 6306-6320: a site that may call a function to be rewritten and a declared one is
  not blocked, although the declared one keeps its signature (test at 7799).
* `phase_stationarity.rs` 88-111: only a caller that is a function kills for recursion (ONCELOCK.md:151: "certify nothing"). A main whose address the module
  gives away may be entered again by foreign code: the set statement then runs twice, and reads of main that the certificate places before
  publication run after it. No write does, since an escaped function that may write kills. The instance has such programs.
* `phase_stationarity.rs` 1956-1987: an access is placed where the first boundary of its statement *or its location* stands.
  Of boundaries expanded from one macro that stand on both sides of the publication point, all are placed with the first: a read after
  is listed as one before or the other way round, so the rewrite of both reads one copy (ONCELOCK.md 4.3). 1711-1800: an escaped function counts as a reader after
  publication, but what it calls does not, since the search for late functions starts from the spine only (1480-1498): a helper that is also
  called before is missing from the readers that need both copies. Dropping either condition of `ReadsPhased` violates it on the instance.
* `andersen.rs`: a consumer certificate does not look at arguments of unresolved indirect calls (4117-4147; 3935,
  DESIGN_lite.md:400-402); payload suppression goes by node pair and not by call (2955, 3011-3037; DESIGN_lite.md:308-309), so one call on a receiver
  that is told apart drops the binding of another that is not; a `get` can be
  summarised although the storage is also filled otherwise (1103-1121; DESIGN_lite.md:339). The tier does not close
  over what escapes transitively, so three programs of `pag` are not among those of `refined`. The boundary of an external call is
  seeded for named functions only (3257): the result of a call whose callee is looked up out of sight holds nothing, and its
  refined row replaces a coarser one that said external (DESIGN_lite.md:125).

**Mutants.** Next to some definitions stand variants of them (`StorageCopiesOneWay`,
`OnlyDiscovered`, `WithoutFormals`, ...). Each is a bug the definition could
plausibly have had, and `PROJECT.json` lists which property refutes it.

## 4. What is proved

For every program, every location algebra, every width and modulus, every cap and limit, and every order:

| Theorem | Module | Says |
|---|---|---|
| `TypeCorrect` | `AndersenSoundness` | `Spec => []TypeOK` |
| `SemiNaiveCorrect` | `AndersenSoundness` | `Spec => []SemiNaiveInvariant` |
| `Soundness` | `AndersenSoundness` | `Spec => []QuiescentSound` |
| `InventoryExact` | `AndersenSoundness` | `Spec => []QuiescentMemcpyInventory` |
| `LaneCapCorrect` | `AndersenStability` | `Spec => []LaneCapRespected` |
| `IdentitiesKept` | `AndersenStability` | `Spec => IdentitiesStable`, an action property |
| `StaysBelow` | `AndersenStability` | `Spec => []BelowSolutions`, the invariant of precision |
| `PreciseCorrect` | `AndersenStability` | `Spec => []Precise`: with `Soundness`, the solver at rest holds the least solution |
| `ChainsSound` | `FieldLocationProofs` | `Spec => []ChainSound` |
| `RelationsCorrect` | `FieldLocationProofs` | `Spec => []RelationsExact` where `Window = Int`, that is, for all executions |
| `AlgebraFits` | `FieldLocationProofs` | the locations of `FieldLocations` meet what the solver's proofs ask of a location algebra |
| `SolverDriven` | `CallGraphProofs` | `CallGraphSpec => SolverSpec`, the refinement |
| `CallGraphTypes` | `CallGraphProofs` | `CallGraphSpec => []CallGraphTypeOK` |
| `RoundsBind` | `CallGraphProofs` | `CallGraphSpec => []RoundsProductive` |
| `CallGraphClosed` | `CallGraphProofs` | `CallGraphSpec => []CompleteIsClosed` |
| `CallGraphLeast` | `CallGraphProofs` | `CallGraphSpec => []BoundsLeast`: with `CallGraphClosed`, a complete pass ends in the least closed call graph |
| `OracleAgrees` | `CallGraphProofs` | `OracleSpec => []SubtractiveDifferential`: the assertion at the end of `Refiner::run` never fails |
| `PublicationSound` | `CallGraphProofs` | `OracleSpec => []PublishedSound`: published rows hold of the least closed call graph, however the pass ended |
| `TypeCorrect` | `SteensgaardProofs` | `Spec => [](TypeInv /\ EdgesOK)`: the data of the unification solver are well-formed |
| `EscapesWhole` | `SteensgaardProofs` | `Spec => []EscapeIsWhole` |
| `ControlClosed` | `SteensgaardProofs` | `Spec => []CallsClosed` |
| `AssertionsKept` | `SteensgaardProofs` | `Spec => []AssertionsHold`: the solver's own assertions never fail, at no step |
| `EffectsSound` | `CallEffectsProofs` | `Spec => []Sound({})`, the invariant of the next five |
| `EffectsExact`, `EffectsStationary` | `CallEffectsProofs` | `Spec => []SummariesExact`, `[]StationaryHolds` |
| `EffectsAttributed`, `EffectsThreaded`, `EffectsClosed` | `CallEffectsProofs` | `Spec => []AccessesAttributed`, `[]ContextThreaded`, `[]CleanComponentsClosed` |
| `ClientsInvariant` | `CallEffectsProofs` | `ClientsSpec => []ClientsSound` |
| `ClientsKeepEffects` | `CallEffectsProofs` | the five properties above, for executions with threads and handlers |
| `ClientsLocks`, `ClientsUnwritten`, `ClientsMarked` | `CallEffectsProofs` | `ClientsSpec => []LocksSound`, `[]UnwrittenStaysUnwritten`, `[]ContextsMarked` |
| `PublishedQuiescent` | `PhaseProofs` | `Spec => []QuiescentOncePublished`: nothing writes a certified global once its cell is set, and it is set once |
| `ReadsOnTheirSide` | `PhaseProofs` | `Spec => []ReadsPhased`: a read before the cell is set is listed for the init local, one after is counted as late |
| `SubtreeCarried` | `PhaseProofs` | `Spec => []InitSubtreeCarries`: whatever leads from the spine to an early access is in the init subtree |
| `GroupsUniform` | `DispositionProofs` | `Spec => []JointUniform` |
| `ChoicesFounded` | `DispositionProofs` | `Spec => []NothingInvented` |
| `RisksDisclosed` | `DispositionProofs` | `Spec => []RisksReported` |
| `ChoicesExplained` | `DispositionProofs` | `Spec => []ProvenanceExplains` |
| `DemotionsTallied` | `DispositionProofs` | `Spec => []DemotionsListedOnce` |
| `SelectionSound` | `DispositionProofs` | `Spec => []SelectionExecutable` |
| `PureCommits`, `CommitsAgree`, `DemotionsLower` | `DispositionProofs` | `CommitsPure`, `CommitRepairs`, `OnlyLowers`, action properties |

**Assumptions.** `LocationAssumption`: there is an unknown location, it is not a
lane, sums of locations are locations, aliasing is symmetric and everything may
alias the unknown one. `ProgramAssumption` of the solver: systems are built from the declared
cells, and a field named when the system is built is not a lane.
`DisjointAssumption`: objects, regions, field cells, labels and summary cells are different things; a
program names no summary cell, since `add_memcpy` makes it.
`SolverAssumption`: cells and lanes are finite, the cap a number.
`CallGraphAssumption`: the tables of a program have their types, exact targets
lie within Steensgaard's, the solver knows every system the pass may install.
`SolutionAssumption`, for `Precise` alone, says what is compared with: a solution of all systems of a
program in which every field a GEP asks for exists and no root has more lanes than the cap. A
root that refuses a lane serves whoever asked first, so then there is no least solution. `ClosedGraphAssumption`
says the same of the closed call graphs that `BoundsLeast` compares with; on the instance they are the least ones. `OracleAssumption`
asks it of the two answers that `CallGraphOracles` constructs, for `OracleAgrees` and `PublicationSound` alone, and that origin labels are finitely many.
That these answers are closed call graphs is not assumed but proved.

`SteensgaardAssumption`: nodes, names for classes made on the way, and the mark for no class are different things, and the
cap on lanes is a number. `ProgramAssumption` of the base tier: edges, seeds, calls and tables have the types `Builder`
gives them, and a call has at most one result, a function one return value and one value per parameter. Nothing is assumed
finite.

`OffsetAssumption`: an integer type holds a negative and a positive number. `ChainAssumption`: constants fit
that type, moduli are natural numbers, widths too.

`ProgramAssumption` of the effects, on what is given to the analysis: an address points, when the program
runs, where the solver and its constant operand say; a storage root, when it was certified, is
where it points; the solver's call targets include what a cell is initialised with; functions are finitely many,
and the marks `Omega`, `NoGlobal`, `Local` are none of them. Storage roots
that are wrong are allowed: `CertifyRoots` has to find them. `ClientAssumption`: globals are finitely many, literals
are globals, and an entry that the runtime starts was registered: its
address was resolved, or it was taken and the site admits that it resolved nothing.

For the phase certificate: `FunctionsAssumption` (functions are finitely many) and `ProgramsAssumption`: a body is a sequence of boundaries whose
successors and callees exist, and the location of a boundary where a statement can be inserted is its own. `BoundsAssumption` puts the limits on descents and frames at any number.

For the disposition: `GroupAssumption` and `ConflictingAssumption` (no edit at all conflicts with
nothing), `InputsAssumption` (facts have their types, and obligations and blockers of
the source exist only with a source plan) and `OverridesAssumption` (pins and orders
are well formed). TLC evaluates each on the instances.

**The argument.** `QuiescentSound` is not inductive: in the middle of propagation
most constraints do not hold. `SemiNaive` says why they will: for every
established edge or join, what is *not* pending has been consumed
(`CopiesConsumed`, `JoinsConsumed`, `MemcpysConsumed`); whatever is pending is
queued (`PendingQueued`); representatives are canonical and a merged cell holds
nothing (`RepsCanonical`); existing fields are linked where they overlap
(`StorageJoined`). At an empty worklist nothing is pending, and the constraints
follow (`RestEdges`, `RestJoins`, `RestMemcpys`). Each part of a pop keeps it
in turn: the join phase up to the popped cell (`JoinKeeps`), the memcpy phase
(`BulkCopyKeeps`), the collapse (`CollapseKeeps`), and installing a system
(`InstallKeeps`); all share one contract for additions (`AbsorbKeeps`).
For the call graph, `ClosedInv` adds that every bound pair's constraints lie in an
installed system, that eager sites have their whole envelope bound, and that a
complete pass found nothing left to bind; soundness at rest then yields a
closed call graph. `SolverDriven` transfers the solver's theorems. Leastness (`InsideKept`) is an induction over the
pass: while it is inside a closed graph, what it has installed is satisfied by that graph's solution, so the
solver stays below the solution, so the graph already binds whatever the pass discovers.

`OracleAgrees` and `PublicationSound` need such graphs to exist and to be what the constructions of `CallGraphOracles` compute. These are
recursive functions that repeat a step until nothing changes: the naive iteration of the constraints, the ascent from nothing and the descent from the envelopes.
The prover cannot do induction over their domains, so they are handled by two lemmas on repetition. `RepetitionExists`: the recursive
function exists, since every start has a least set that is closed under the step. `RepetitionEnds`: it ends at
a fixed point, inside any set that the step stays in, since a step that changes something goes down the well-founded order of strict inclusion of finite sets. A fixed point
of asking is a solution that refuses no field (`AskingSolves`), and asking stays within each such solution (`AskingWithin`), so
the naive iteration ends in the least one. Ascent and descent over such solutions then end in
closed call graphs (`LeastCloses`, `OracleCloses`), and the pass is within both (`InsideBoth`). For the other direction a complete pass must be
a closed call graph that refuses no field: it is below the least one's solution, which has room for each lane it holds, so at rest no lane was refused (`RestGrants`);
the ascent is within every such graph (`LeastWithin`), so it is equal. `RowsSound` says of each published row which of these it speaks of.

Precision is the other half. `Below` relates the solver to one solution that it is compared with: facts, fields and direct
accesses are ones the solution has, the source of an edge is a subset of its target in the solution,
a join is one the solution satisfies (`Licensed`), merged cells are equal in it. A
memcpy goes through a summary cell that the solution knows nothing of, so it is extended
first: a summary cell gets the union of what the sources' pointees hold (`WithSummaries`).
Additions keep this if the solution allows them (`AbsorbBelow`); loads, stores, GEPs and memcpys derive
only what it allows (`JoinBelow`, `BulkBelow`); and cells that a collapse merges reach each other along edges
(`ReachGrows`), hence are equal in the solution (`CollapseBelow`). That a GEP is not refused
a lane follows from the cap having room for the solution's (`RoomLeft`).

For the base tier the state in the middle of a handler is what has to be described, since any call it
makes may unify the classes it works on. `AgendaOK` says of the calls a handler has still to make that each names classes
that exist, or that a call before it makes; no class is taken away, so other calls cannot spoil this. `EscapeInv` says that a
class is queued, or about to be worked off, or settled (`WorkedOff`): its calls and functions have been considered
with each other, and its allocations have escaped if it has. A join may trust the frontiers of the two classes because of
`SweptDone` and `SpreadDone`: what they count as done has been done. `CallsInv` adds, for everything that was found due, that it
was done *or waits on the agenda*: a pair of a call and a function is bound, or `bind_indirect_call` waits, or the arguments from some index
on do. "A pointer points to a class" has to survive the join of what it points to, which changes `pointee` before it makes the
join: `Same` says that two classes are one or the call being made makes them one. At rest queue and agenda are
empty, and the properties follow (`RestTargets`, `RestBound`, `RestPublished`).
The solver's assertions need a third: `AssertInv` says that every class is one of values or one of locations, that only locations have functions,
regions and escapes, that a null is in no class with anything else, and of each call on the agenda that it may be made (`Sound`): it joins classes of one kind,
marks locations only, touches no null. What is still to be read of the program is part of the program. The kind of a call's operand
survives the joins before it because joins only merge classes of one kind. TLC checked these invariants on the `steensgaard`
instance before they were proved.

For the location algebra: Euclid's algorithm, a recursive function, exists by well-founded recursion, and its result
divides both operands and is a combination of them. Sums of lanes stay congruent modulo every common divisor
(`ChainsSound`). The differences of the offsets of two lanes are a whole residue class modulo the gcd, and one of them lies in a
window exactly when the code's test with the first and last bytes says so (`RelationsCorrect`).

For call effects, `Sound(extra)` says of each stage what the analysis has at hand (`Staged`), that every
memoised summary is exact, that no stationary cell was overwritten, and of the execution (`StackSound`) that
its frames follow edges of the published call graph, and entered functions are at the bottom, or
were started by a kind of entry in `extra`. The effects of a component are those of the functions it reaches
because reachability in the graph of components is reachability in the graph of functions, whatever order
was taken; a row that collapsed to an unknown target keeps its scope, so merging rows loses no candidate. `extra` is how
the proofs of the clients use the same invariant: threads and handlers are two more kinds of entry.
`ClientsSound` adds that the manifest says what the summaries say (`ManifestSays`), that every interrupt on
the stack is of a registered entry, and that each global written was in the row of a writer (`Explained`). A lock is
then sound since a second acquisition would need a frame below that reaches the holder of the first.

For the phase certificate the analysis looks at a graph whose boundaries may come from several functions, while the program
has a stack. `IsSpine` ties the two: every boundary of a function on the spine has one place on it; every such function but main has
one gate, the boundary that the spine descends through, which is the only place it is called from (`GateTo`); and `next` says where
the program goes on after a boundary *and what it calls*. The spine has at least these edges, except at a gate, which is left for
the callee, whose ends take over the gate's successors: so `next` exists again after each descent (`SpliceIsSpine`). Running, the stack is a part of the spine, in order, and then frames off it
(`RunsTo`). Once the cell is set, the last frame on the spine has passed the publication point P (`Passed`): it is at P
or at a place `Later` than P, which is closed under edges, holds no boundary that may write, and does not hold P, as P is on no
cycle; that is why the cell is set once. Frames off the spine run below a call that does not write, or below an
escaped function, which does not write either because of the kill rules: `Still` says so and is kept by calls. If main's
address escapes, main is such a function, so that nothing at all may write. That reachability, which is an iteration, comes to its fixpoint is proved
from the number of functions and of boundaries (`GrowthCloses`). TLC checked this invariant on part of the instance before it was proved.

On which side of P a read runs needs the other half of the execution, before the cell is set: `RouteInv` adds to the invariant above that until
then the last frame on the spine is `Ahead` of P, at a boundary that P does not dominate (`Early`) or waiting at a gate whose continuations are such
boundaries or P itself. Going on from one leads to another or to P (`EarlyCloses`), so P cannot be missed. What P does not dominate
does not follow it, what is `Later` than P is not before it, since P would be on a cycle (`PassedSides`), and the payload was refused if any access is
neither before nor after (`Lists`): this places every access of the spine. Off the spine `Origins` says of each frame that the frame below waits at a
call of it, or that it is a live callback. Frames called in turn from the spine stay in what is reached from that side of P (`Chain`,
`SpineCalls`). Callbacks that only the spine hands out are live only after the cell is set if something they call reads: the spine observes every boundary that hands out
such a function, an observation of this kind must be dominated by P (`HandoutsObserved`, kept by each splice; `HandoutLate`). So nothing reads below a foreseen callback
before publication, and no escaped function writes by the kill rules (`NoCallbackAccess`). This is where
`Foreseen` is needed, and `Undivided` only where a boundary stands for others of its location (`SpineAccess`).

For the disposition, `Sound` collects what a manifest must satisfy. It is not
shown step by step but stage by stage: `ApplicableBacked` and `AvailableBacked` say what a
guard and an availability test see to; `Grouped` that the groups stage establishes
`Sound` up to selection, `PolicySound` that overrides and selection keep it, and
`DemoteSound` that a demotion does. That a demotion cannot split a group needs
`Uniform` itself: a member that is given up while the group is resolved had the
group's representation, so its whole group was expanded (`LoweredFinal`). `PolicyPure` says
that a run forgets what it found. The invariant `IInv` adds that a tool about to
write carries such a result and a ledger that agrees with it (`AppendedAgrees`).

**Only model-checked.** The queries (`QueriesAgree`), the pointer graph and the refined answers: they compare an
analysis with an execution through `RECURSIVE` operators over the program's statements, which the prover cannot
reach, and the instances enumerate the kinds of statements they depend on. (The fixed points of the call graph
oracle are recursive functions over the naturals, and are proved about.) `AnswersCoverExecutions` has no such
operator, but it depends on facts about a program that nothing in `Programs` states for every program (which values
have an object as their root, which are never a pointer, which sites free), and it follows a program for at most 50 rounds;
no theorem is stated of it. `Terminates` and `Decides` are liveness properties.

TLC and the prover read `UNION A \cup B` differently (the operand of `UNION` is `A` for one, the whole
union for the other), so the modules always write `(UNION A)`.

Some theorems state properties no run checks by itself: type correctness, the inventory of memcpys (the
debug assertions at 6060), the lane cap, productive rounds, and for the disposition disclosed risks, explained
choices, demotions listed once and pure commits. They follow for every instance, so a
run would add nothing.

## 5. Not modelled

* Lowering from LLVM bitcode is a translation of instructions; only what it decides of conversions and `va_arg` is in `PirStatements`.
* The metrics of the CFL tier, which is experimental and no part of `analyze`. The comparison tools, reports, profiling and
  metrics read two outputs and keep no state. The Clang extractor, argument parsing, schemas and test
  support are I/O.
* Of the base tier: storage-root certification is an input of `Steensgaard` (it is modelled in
  `PointerGraph`), provenance bits and evidence in the rows.
* Of the pointer graph: the audit budget of 512 states and the limit of 32 formats, forced exposure of globals, access widths,
  `for_function`, validation.
* Of the inclusion tier: the order in which late fields are replayed into registered reads (6265), direct memcpy
  products, `HybridPointSet`, `fallback`, the filter of exposed global addresses, provenance. Receiver payloads are
  checked on containers that are used in order through such operations: an execution in any order does not
  keep one call's receiver apart from another's. Results made from reserved integers do not seed origin completeness
  (DESIGN_lite.md:332).
* Of the API: the second registry of writes, evidence and witnesses, edge metadata, the module summary.
* Of clients and phases: witnesses, source-plan details, verdicts copied from the plan, error codes of tainted inputs.
* Of the disposition: witnesses and traces, the measurement report, marker artifacts, parsing of override files; of the
  manifest its canonical form and the validation of sections that analysis owns.

Two compositions are shown through what one side promises and not as one model: that
the base tier's rows are an envelope for `OnTheFlyCallGraph` (an assumption there, the property
`CallsClosed` here), and that the facts `Clients` publishes are the ones `DispositionPipeline` reads, whose
inputs are any analysis that is well formed.
