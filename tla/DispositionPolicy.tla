-------------------------- MODULE DispositionPolicy --------------------------
(***************************************************************************)
(* The policy stage of pangs-dispose: which representation each global      *)
(* gets.  Every operator is one function of pangs-dispose/src/lib.rs; all   *)
(* of them are pure, a manifest being a record that an operator takes and   *)
(* returns.  The stages that read and write manifests are the actions of    *)
(* DispositionPipeline.                                                     *)
(*                                                                          *)
(* Facts are abstracted to what the guards tell apart.  A certificate is    *)
(* absent ("null"), certified, or failed with or without a recipe; taint    *)
(* is "exempt" when every hard diagnostic is of the one kind that localize  *)
(* is excused from; a blocked localization says whether one of its blockers *)
(* was found in the source ("source") or all of them in the IR.             *)
(***************************************************************************)
EXTENDS Integers, Sequences

CONSTANTS Globals,      \* the keys of the manifest's globals
          Groups,       \* the ids of the coupling groups
          NoGroup,      \* facts.coupling_group of a global in no group
          GroupOf,      \* facts.coupling_group
          Conflicting   \* sets of recipes whose source edits do not compose

ASSUME GroupAssumption == /\ GroupOf \in [Globals -> Groups \union {NoGroup}]
                          /\ NoGroup \notin Groups

\* No edit at all conflicts with nothing.
ASSUME ConflictingAssumption == {} \notin Conflicting

Joint == {"once-lock", "mutex"}
PerGlobal == {"immutable", "atomic", "localize"}
Strategies == Joint \union PerGlobal \union {"unhandled"}

Members(grp) == {g \in Globals : GroupOf[g] = grp}

-----------------------------------------------------------------------------
(* What the analysis hands over, and what the manifest's validation admits. *)

Facts == [atomic       : BOOLEAN,
          written      : BOOLEAN,
          escaped      : BOOLEAN,
          taint        : {"none", "exempt", "hard"},
          phase        : {"null", "certified", "recipe", "failed"},
          mutex        : {"null", "certified", "recipe", "failed"},
          localization : {"null", "ok", "blocked", "source"},
          source       : {"none", "met", "failing"}]

Support == [once_lock : {"null", "supported", "unsupported"},
            mutex     : {"null", "certified", "failed"}]

Analyses == [facts : [Globals -> Facts], support : [Groups -> Support]]

\* The manifest carries a source plan (--source-compdb).
SourcePlan(a) == \E g \in Globals : a.facts[g].source # "none"

\* A recipe in context_rewrite.fields accompanies every localization verdict.
Recipes(a) == {g \in Globals : a.facts[g].localization # "null"}

-----------------------------------------------------------------------------
(* Guards of one strategy on one global. *)

violation_taint_blocks(s, f) ==
    IF s = "localize" THEN f.taint = "hard" ELSE f.taint # "none"

Guard(passed) == IF passed THEN "applicable" ELSE "failed"

Slot(value, good) == IF value = "null" THEN "not-computed" ELSE Guard(value = good)

evaluate(s, f) ==
    IF f.source # "none" /\ s \in Joint THEN "failed"
    ELSE IF s = "atomic" THEN Guard(f.atomic)
    ELSE IF f.atomic \/ violation_taint_blocks(s, f) THEN "failed"
    ELSE CASE s = "immutable" -> Guard(~f.written /\ ~f.escaped /\ f.source # "failing")
           [] s = "once-lock" -> Slot(f.phase, "certified")
           [] s = "mutex"     -> Slot(f.mutex, "certified")
           [] s = "localize"  -> Slot(f.localization, "ok")

\* The source plan has no recipe for the strategy.
SourceRefuses(s, f) ==
    /\ f.source # "none"
    /\ \/ s \in Joint
       \/ s = "immutable" /\ f.source = "failing"
       \/ s = "localize" /\ f.localization = "source"

\* unavailable_outcome is None: accepting a risk makes up for failed evidence,
\* never for a declaration, a computation or a recipe that is not there.
Available(s, f) ==
    \/ s = "unhandled"
    \/ /\ ~SourceRefuses(s, f)
       /\ f.atomic = (s = "atomic")
       /\ s = "once-lock" => f.phase \in {"certified", "recipe"}
       /\ s = "mutex" => f.mutex \in {"certified", "recipe"}
       /\ s = "localize" => f.localization # "null"

-----------------------------------------------------------------------------
(* The cascade: the first applicable strategy of the configured order. *)

FirstOf(order, P) ==
    LET hits == {i \in DOMAIN order : order[i] \in P} IN
    CHOOSE i \in hits : \A j \in hits : i <= j

\* The first strategy of order that is in P, or the given default.
Select(order, P, default) ==
    IF \E i \in DOMAIN order : order[i] \in P THEN order[FirstOf(order, P)] ELSE default

Applicable(f) == {s \in Strategies \ {"unhandled"} : evaluate(s, f) = "applicable"}

cascade(f, order) == Select(order, Applicable(f), "unhandled")

-----------------------------------------------------------------------------
(* Coupling groups.  A joint strategy needs every member and the group. *)

\* group_failures is empty.
JointlyApplicable(a, grp, s) ==
    /\ \A g \in Members(grp) : evaluate(s, a.facts[g]) = "applicable"
    /\ s = "once-lock" => a.support[grp].once_lock = "supported"
    /\ s = "mutex" => a.support[grp].mutex = "certified"

\* The members' recipes without the group's own certificate.
MembersAvailable(a, grp, s) == \A g \in Members(grp) : Available(s, a.facts[g])

\* group_availability is None.
JointlyAvailable(a, grp, s) ==
    /\ \A g \in Members(grp) : Available(s, a.facts[g])
    /\ s = "once-lock" => a.support[grp].once_lock = "supported"
    /\ s = "mutex" => a.support[grp].mutex = "certified"

independent_joint_group_strategy(a, grp, order) ==
    IF \E g \in Members(grp) : cascade(a.facts[g], order) \in PerGlobal
    THEN "none"
    ELSE Select(order, {s \in Joint : JointlyApplicable(a, grp, s)}, "none")

-----------------------------------------------------------------------------
(* Overrides: partial functions from ids to pins.  An id the manifest does   *)
(* not have is reported and otherwise ignored.                               *)

Pins == [disposition : Strategies, accept_risk : BOOLEAN]

NoPin == [disposition |-> "none", accept_risk |-> FALSE]

Honored == {"honored", "honored-accepted-risk"}

\* What becomes of a pin whose strategy is enabled and can be carried out.
Weighed(pin, applicable) ==
    IF applicable THEN "honored"
    ELSE IF pin.accept_risk THEN "honored-accepted-risk" ELSE "rejected"

Enabled(s, order) == \E i \in DOMAIN order : order[i] = s

Disabled(pin, order) == pin.disposition # "unhandled" /\ ~Enabled(pin.disposition, order)

group_outcome(a, order, pins, grp) ==
    LET pin == pins[grp] IN
    IF grp \notin Groups THEN "unmatched-key"
    ELSE IF pin.disposition \in PerGlobal THEN "rejected"
    ELSE IF Disabled(pin, order) THEN "rejected-strategy-disabled"
    ELSE IF pin.disposition = "unhandled" THEN "honored"
    ELSE IF ~JointlyAvailable(a, grp, pin.disposition) THEN "rejected-unavailable"
    ELSE Weighed(pin, JointlyApplicable(a, grp, pin.disposition))

PinnedGroup(a, order, pins, grp) ==
    grp \in DOMAIN pins /\ group_outcome(a, order, pins, grp) \in Honored

\* Of the disposition resolved for the global's group.
global_group_disposition(m, g) ==
    IF GroupOf[g] = NoGroup THEN "none" ELSE m.group_disposition[GroupOf[g]]

global_outcome(a, m, pins, g) ==
    LET pin == pins[g] IN
    IF g \notin Globals THEN "unmatched-key"
    ELSE IF global_group_disposition(m, g) \notin {"none", pin.disposition} THEN "rejected"
    ELSE IF Disabled(pin, m.order) THEN "rejected-strategy-disabled"
    ELSE IF pin.disposition = "unhandled" THEN "honored"
    ELSE IF ~Available(pin.disposition, a.facts[g]) THEN "rejected-unavailable"
    ELSE Weighed(pin, evaluate(pin.disposition, a.facts[g]) = "applicable")

Provenance(outcome) ==
    IF outcome = "honored" THEN "override" ELSE "override-accepted-risk"

Entry(scope, key, pin, outcome) ==
    [scope |-> scope, key |-> key, requested |-> pin.disposition,
     accept_risk |-> pin.accept_risk, outcome |-> outcome]

-----------------------------------------------------------------------------
(* The manifest, as far as dispositions go.  demotions counts the records   *)
(* of materialization.demotions that name a global.                         *)

Undisposed ==
    [order             |-> <<>>,
     chosen            |-> [g \in Globals |-> "none"],
     cascade_chosen    |-> [g \in Globals |-> "none"],
     provenance        |-> [g \in Globals |-> "none"],
     pin               |-> [g \in Globals |-> NoPin],
     demoted_from      |-> [g \in Globals |-> "none"],
     group_disposition |-> [grp \in Groups |-> "none"],
     group_provenance  |-> [grp \in Groups |-> "none"],
     group_pin         |-> [grp \in Groups |-> NoPin],
     report            |-> {},
     selected          |-> {},
     demotions         |-> [g \in Globals |-> 0]]

apply_independent_cascade(m, a, order) ==
    LET chosen == [g \in Globals |-> cascade(a.facts[g], order)] IN
    [m EXCEPT !.order = order,
              !.chosen = chosen,
              !.cascade_chosen = chosen,
              !.provenance = [g \in Globals |-> "cascade"],
              !.pin = [g \in Globals |-> NoPin],
              !.demoted_from = [g \in Globals |-> "none"],
              !.report = {},
              !.selected = {},
              !.demotions = [g \in Globals |-> 0]]

GroupChoice(a, order, pins, grp) ==
    IF PinnedGroup(a, order, pins, grp)
    THEN pins[grp].disposition
    ELSE independent_joint_group_strategy(a, grp, order)

MemberProvenance(choice, own) == IF choice = own THEN "cascade" ELSE "group-constraint"

resolve_groups(m, a, pins) ==
    LET choice == [grp \in Groups |-> GroupChoice(a, m.order, pins, grp)]
        Joined(g) == GroupOf[g] # NoGroup /\ choice[GroupOf[g]] # "none"
        Choice(g) == IF Joined(g) THEN choice[GroupOf[g]] ELSE m.chosen[g]
    IN
    [m EXCEPT
       !.group_disposition = choice,
       !.group_provenance =
           [grp \in Groups |->
              IF choice[grp] = "none" THEN "none"
              ELSE IF PinnedGroup(a, m.order, pins, grp)
              THEN Provenance(group_outcome(a, m.order, pins, grp))
              ELSE "cascade"],
       !.group_pin =
           [grp \in Groups |-> IF PinnedGroup(a, m.order, pins, grp) THEN pins[grp] ELSE NoPin],
       !.chosen = [g \in Globals |-> Choice(g)],
       !.provenance =
           [g \in Globals |-> MemberProvenance(Choice(g), m.cascade_chosen[g])],
       !.report = m.report \union
           {Entry("group", grp, pins[grp], group_outcome(a, m.order, pins, grp)) :
              grp \in DOMAIN pins}]

apply_global_overrides(m, a, pins) ==
    LET Taken(g) == g \in DOMAIN pins /\ global_outcome(a, m, pins, g) \in Honored IN
    [m EXCEPT
       !.chosen = [g \in Globals |-> IF Taken(g) THEN pins[g].disposition ELSE m.chosen[g]],
       !.provenance =
           [g \in Globals |->
              IF Taken(g) THEN Provenance(global_outcome(a, m, pins, g)) ELSE m.provenance[g]],
       !.pin = [g \in Globals |-> IF Taken(g) THEN pins[g] ELSE m.pin[g]],
       !.report = m.report \union
           {Entry("global", g, pins[g], global_outcome(a, m, pins, g)) : g \in DOMAIN pins}]

select_context_rewrite(m) ==
    [m EXCEPT !.selected = {g \in Globals : m.chosen[g] = "localize"}]

\* The manifest that apply_policy leaves for an override file o.
apply_policy(m, a, o) ==
    select_context_rewrite(
        apply_global_overrides(
            resolve_groups(apply_independent_cascade(m, a, o.order), a, o.groups),
            a, o.globals))

\* select_context_rewrite finds a recipe for every localized global, and their
\* source edits compose.
Selectable(m, a) ==
    /\ m.selected \subseteq Recipes(a)
    /\ SourcePlan(a) => m.selected \notin Conflicting

\* Validation that matches the selection with the choices and not with recipes.
ValidChoices(m, a) == m.selected = {g \in Globals : m.chosen[g] = "localize"}

\* What Manifest::validate requires of the selection: it is exactly the
\* localized globals, and no selected recipe of a source plan is blocked.
Valid(m, a) ==
    /\ m.selected = {g \in Globals : m.chosen[g] = "localize"}
    /\ m.selected \subseteq Recipes(a)
    /\ SourcePlan(a) => \A g \in m.selected : a.facts[g].localization = "ok"

-----------------------------------------------------------------------------
(* The audit ledger: records of the analysis, and one for each accepted     *)
(* risk.                                                                    *)

AnalysisRecord == [source |-> "analysis", scope |-> "run", key |-> "none"]

OverrideRecord(e) == [source |-> "override", scope |-> e.scope, key |-> e.key]

Accepted(report) == {e \in report : e.outcome = "honored-accepted-risk"}

\* Overrides of the last run stay in the ledger.
RetainedAll(ledger) == ledger

Retained(ledger) == {r \in ledger : r.source # "override"}

Appended(ledger, report) == Retained(ledger) \union {OverrideRecord(e) : e \in Accepted(report)}

Problems(report) == \E e \in report : e.outcome \notin Honored

-----------------------------------------------------------------------------
(* Demotion, when the materializer fails on some globals: a joint           *)
(* representation is given up for the whole group.                          *)

\* Only what failed is given up.
FailedAlone(m, failures) == failures

Expanded(m, failures) ==
    failures \union
    {g \in Globals : \E f \in failures :
        /\ m.chosen[f] \in Joint
        /\ GroupOf[f] # NoGroup
        /\ GroupOf[g] = GroupOf[f]
        /\ m.group_disposition[GroupOf[f]] = m.chosen[f]}

Lowered(m, failures) == {g \in Expanded(m, failures) : m.chosen[g] # "unhandled"}

\* A pin that failed gives way to what the cascade had chosen.
demote_to_cascade(m, failures) ==
    LET Fallback(g) == IF m.chosen[g] = m.cascade_chosen[g]
                    THEN "unhandled" ELSE m.cascade_chosen[g]
    IN  select_context_rewrite(
          [m EXCEPT !.chosen = [g \in Globals |->
             IF g \in Lowered(m, failures) THEN Fallback(g) ELSE m.chosen[g]]])

demote_and_reproject(m, failures) ==
    LET lowered == Lowered(m, failures)
        chosen == [g \in Globals |-> IF g \in lowered THEN "unhandled" ELSE m.chosen[g]]
    IN
    select_context_rewrite(
        [m EXCEPT
           !.chosen = chosen,
           !.provenance = [g \in Globals |-> IF g \in lowered THEN "demoted" ELSE m.provenance[g]],
           !.demoted_from = [g \in Globals |-> IF g \in lowered THEN m.chosen[g] ELSE m.demoted_from[g]],
           !.demotions = [g \in Globals |-> m.demotions[g] + IF g \in lowered THEN 1 ELSE 0],
           !.group_disposition =
               [grp \in Groups |->
                  IF \A g \in Members(grp) : chosen[g] = "unhandled"
                  THEN "unhandled" ELSE m.group_disposition[grp]]])

=============================================================================
