------------------------- MODULE DispositionPipeline -------------------------
(***************************************************************************)
(* The tools around the disposition policy and the two files they share:    *)
(* pangs-manifest.json and pangs-audit.json (the ledger).                   *)
(*                                                                          *)
(* "pangs analyze --dispose" and "pangs-dispose" apply the policy in memory *)
(* and then replace the ledger first and the manifest last; either tool can *)
(* die in between.  "pangs reproject" gives up what the materializer could  *)
(* not carry out and rewrites the manifest alone.  One tool runs at a time. *)
(***************************************************************************)
EXTENDS DispositionPolicy

CONSTANTS Inputs,         \* the analyses a run may start from
          OverrideFiles,  \* records [order, groups, globals], the order being
                          \* that of [cascade] or the default of the mode
          MayCrash        \* whether a tool can die between its two writes

ASSUME InputsAssumption ==
    \A a \in Inputs :
        /\ a \in Analyses
        /\ \A g \in Globals :
              /\ (a.facts[g].source # "none") = SourcePlan(a)
              /\ a.facts[g].localization = "source" => SourcePlan(a)

ASSUME OverridesAssumption ==
    \A o \in OverrideFiles :
        /\ o.order \in Seq(Strategies \ {"unhandled"})
        /\ o.groups \in [DOMAIN o.groups -> Pins]
        /\ o.globals \in [DOMAIN o.globals -> Pins]

VARIABLES analysis,  \* the analysis-owned sections of the manifest
          manifest,  \* the disposition sections on disk
          ledger,    \* the ledger on disk
          tool,      \* the running tool: how far it is and what it will write
          exit       \* how the last tool ended

vars == <<analysis, manifest, ledger, tool, exit>>

Exits == {"none", "success", "override-problems", "error", "not-final", "killed"}

Idle == [phase |-> "idle", manifest |-> Undisposed, ledger |-> {}]

Init ==
    /\ analysis \in Inputs
    /\ manifest = Undisposed
    /\ ledger = {AnalysisRecord}
    /\ tool = Idle
    /\ exit = "none"

-----------------------------------------------------------------------------
(* One policy application on a manifest and a ledger that were read.  What   *)
(* does not validate, or cannot be selected from, ends the tool before it    *)
(* writes anything.                                                          *)
Apply(m, l, o) ==
    LET new == apply_policy(m, analysis, o) IN
    /\ tool.phase = "idle"
    /\ IF Valid(m, analysis) /\ Selectable(new, analysis) /\ Valid(new, analysis)
       THEN /\ tool' = [phase |-> "applied", manifest |-> new,
                        ledger |-> Appended(l, new.report)]
            /\ exit' = exit
       ELSE tool' = tool /\ exit' = "error"
    /\ UNCHANGED <<analysis, manifest, ledger>>

\* pangs analyze --dispose starts from what it has just analysed,
Analyze(o) == Apply(Undisposed, {AnalysisRecord}, o)

\* pangs-dispose from the pair on disk.
Dispose(o) == Apply(manifest, ledger, o)

PersistLedger ==
    /\ tool.phase = "applied"
    /\ ledger' = tool.ledger
    /\ tool' = [tool EXCEPT !.phase = "ledger-written"]
    /\ UNCHANGED <<analysis, manifest, exit>>

PersistManifest ==
    /\ tool.phase = "ledger-written"
    /\ manifest' = tool.manifest
    /\ tool' = Idle
    /\ exit' = IF Problems(tool.manifest.report) THEN "override-problems" ELSE "success"
    /\ UNCHANGED <<analysis, ledger>>

Crash ==
    /\ MayCrash
    /\ tool.phase # "idle"
    /\ tool' = Idle
    /\ exit' = "killed"
    /\ UNCHANGED <<analysis, manifest, ledger>>

\* Failures may only name globals whose disposition is final.  What does not
\* validate, before or after, is not written.
Reproject(failures) ==
    LET new == demote_and_reproject(manifest, failures)
        final == \A g \in failures : manifest.chosen[g] # "none"
        sound == Valid(manifest, analysis) /\ Selectable(new, analysis) /\ Valid(new, analysis)
    IN
    /\ tool.phase = "idle"
    /\ manifest' = IF final /\ sound THEN new ELSE manifest
    /\ exit' = IF ~final THEN "not-final" ELSE IF sound THEN "success" ELSE "error"
    /\ UNCHANGED <<analysis, ledger, tool>>

Next ==
    \/ \E o \in OverrideFiles : Analyze(o) \/ Dispose(o)
    \/ PersistLedger
    \/ PersistManifest
    \/ Crash
    \/ \E failures \in SUBSET Globals : Reproject(failures)

Spec == Init /\ [][Next]_vars

-----------------------------------------------------------------------------
(* Types. *)

Ids == Globals \union Groups
          \union UNION {DOMAIN o.groups \union DOMAIN o.globals : o \in OverrideFiles}

Entries == [scope       : {"global", "group"},
            key         : Ids,
            requested   : Strategies,
            accept_risk : BOOLEAN,
            outcome     : {"honored", "honored-accepted-risk", "rejected",
                           "rejected-strategy-disabled", "rejected-unavailable",
                           "unmatched-key"}]

Records == {AnalysisRecord} \union
           [source : {"override"}, scope : {"global", "group"}, key : Ids]

ManifestOK(m) ==
    /\ m.order \in {o.order : o \in OverrideFiles} \union {<<>>}
    /\ m.chosen \in [Globals -> Strategies \union {"none"}]
    /\ m.cascade_chosen \in [Globals -> Strategies \union {"none"}]
    /\ m.provenance \in [Globals -> {"none", "cascade", "group-constraint", "override",
                                     "override-accepted-risk", "demoted"}]
    /\ m.pin \in [Globals -> Pins \union {NoPin}]
    /\ m.demoted_from \in [Globals -> Strategies \union {"none"}]
    /\ m.group_disposition \in [Groups -> Joint \union {"unhandled", "none"}]
    /\ m.group_provenance \in [Groups -> {"none", "cascade", "override",
                                          "override-accepted-risk"}]
    /\ m.group_pin \in [Groups -> Pins \union {NoPin}]
    /\ m.report \subseteq Entries
    /\ m.selected \subseteq Globals
    /\ m.demotions \in [Globals -> Nat]

\* The files and the running tool hold well-formed manifests and ledgers; in
\* particular no per-global strategy ever becomes the disposition of a group.
TypeOK ==
    /\ analysis \in Inputs
    /\ ManifestOK(manifest) /\ ManifestOK(tool.manifest)
    /\ ledger \subseteq Records /\ tool.ledger \subseteq Records
    /\ tool.phase \in {"idle", "applied", "ledger-written"}
    /\ exit \in Exits

-----------------------------------------------------------------------------
(* Safety of the manifest that later stages read: each property is a         *)
(* predicate on a manifest, stated of the one on disk.                       *)

Uniform(m) ==
    \A g \in Globals : global_group_disposition(m, g) \in {"none", m.chosen[g]}

\* A resolved group is represented in one way: whatever was pinned on the group
\* or on a member, and whatever was demoted since, no member is left out of a
\* joint representation or of a whole-group opt-out.
JointUniform == Uniform(manifest)

\* What a materializer needs to carry strategy s out on a global,
Backed(s, f) ==
    /\ s = "atomic" <=> f.atomic
    /\ s = "once-lock" => f.phase \in {"certified", "recipe"}
    /\ s = "mutex" => f.mutex \in {"certified", "recipe"}
    /\ s = "localize" => f.localization \notin {"null", "source"}
    /\ f.source # "none" => s \notin Joint
    /\ f.source = "failing" => s # "immutable"

\* and on a group as a whole.
BackedJointly(s, support) ==
    /\ s = "once-lock" => support.once_lock = "supported"
    /\ s = "mutex" => support.mutex = "certified"

Founded(m, a) ==
    /\ \A g \in Globals :
          \/ m.chosen[g] \in {"none", "unhandled"}
          \/ /\ Enabled(m.chosen[g], m.order)
             /\ Backed(m.chosen[g], a.facts[g])
    /\ \A grp \in Groups : BackedJointly(m.group_disposition[grp], a.support[grp])

\* Accepting a risk waives evidence and nothing else: whatever is chosen is in
\* the configured order (or the safe opt-out), and its declaration, its inputs
\* and its recipe exist, for each global and for a group as a whole.
NothingInvented == Founded(manifest, analysis)

Disclosed(m, a) ==
    \A g \in Globals :
        \/ m.chosen[g] \in {"none", "unhandled"}
        \/ evaluate(m.chosen[g], a.facts[g]) = "applicable"
        \/ \E e \in Accepted(m.report) :
              e.requested = m.chosen[g] /\ e.key \in {g, GroupOf[g]}

\* A choice its own guards do not support is there because a pin on the global
\* or on its group took the risk, and the report says so.
RisksReported == Disclosed(manifest, analysis)

Explained(m) ==
    \A g \in Globals :
        LET why == m.provenance[g]
            choice == m.chosen[g]
        IN
        /\ why \in {"none", "cascade"} => choice = m.cascade_chosen[g]
        /\ why = "group-constraint" => choice = global_group_disposition(m, g)
        /\ why \in {"override", "override-accepted-risk"} =>
              /\ choice = m.pin[g].disposition
              /\ \E e \in m.report :
                    e.scope = "global" /\ e.key = g /\ e.outcome \in Honored
        /\ why = "demoted" =>
              choice = "unhandled" /\ m.demoted_from[g] \notin {"none", choice}

\* provenance explains every difference between chosen and cascade_chosen, and
\* the record it points at is there.
ProvenanceExplains == Explained(manifest)

Tallied(m) ==
    \A g \in Globals : m.demotions[g] = IF m.provenance[g] = "demoted" THEN 1 ELSE 0

\* The materialization section lists a demoted global once and no other, over
\* any number of reprojections.
DemotionsListedOnce == Tallied(manifest)

Executable(m, a) ==
    /\ m.selected = {g \in Globals : m.chosen[g] = "localize"}
    /\ SourcePlan(a) => /\ \A g \in m.selected : a.facts[g].localization = "ok"
                        /\ m.selected \notin Conflicting

\* With a source plan, what is selected can be carried out as one edit: every
\* localized global has an unblocked recipe and no two of them clash, after any
\* accepted risk and any demotion.
SelectionExecutable == Executable(manifest, analysis)

-----------------------------------------------------------------------------
(* What steps may do. *)

Committing == tool.phase = "ledger-written" /\ tool'.phase = "idle" /\ exit' # "killed"

Reprojecting == tool.phase = "idle" /\ manifest' # manifest

\* What a policy run commits is a function of the analysis and the override
\* file: demotions, earlier overrides and torn pairs leave no trace.
CommitsPure ==
    [][Committing =>
          \E o \in OverrideFiles : manifest' = apply_policy(Undisposed, analysis, o)]_vars

\* The records of accepted risks in the ledger are those of the report.
RecordsAgree(m, l) ==
    {r \in l : r.source = "override"} = {OverrideRecord(e) : e \in Accepted(m.report)}

\* A commit leaves the pair in agreement, also after a crash tore the last one,
\* and the records of the analysis survive.
CommitRepairs ==
    [][Committing => RecordsAgree(manifest', ledger') /\ AnalysisRecord \in ledger']_vars

\* Reprojection only gives up: it takes nothing else from a global, leaves the
\* history of the policy alone, and promotes nothing.
OnlyLowers ==
    [][Reprojecting =>
          /\ \A g \in Globals :
                \/ manifest'.chosen[g] = manifest.chosen[g]
                \/ /\ manifest'.chosen[g] = "unhandled"
                   /\ manifest'.demoted_from[g] = manifest.chosen[g]
          /\ manifest'.selected \subseteq manifest.selected
          /\ \A s \in {"order", "cascade_chosen", "pin", "report", "group_pin"} :
                manifest'[s] = manifest[s]]_vars

-----------------------------------------------------------------------------
(* What the documentation says and the code does not do. *)

=============================================================================
