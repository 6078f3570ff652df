------------------------- MODULE DispositionProofs -------------------------
(***************************************************************************)
(* What every manifest that the tools leave on disk satisfies, for every    *)
(* set of globals and groups, every analysis and every override file.       *)
(*                                                                          *)
(* The argument follows the code.  Lemmas about the guards say what an      *)
(* applicable or an available strategy has behind it.  A policy run builds  *)
(* its manifest in stages, cascade, groups, overrides and selection, and    *)
(* each stage establishes its part of Sound; a demotion keeps Sound.  The   *)
(* invariant of the pipeline adds what the two writes need: the tool that   *)
(* is writing carries a policy run's result and a ledger that agrees.       *)
(***************************************************************************)
EXTENDS DispositionPipeline, WellFoundedInduction, TLAPS

-----------------------------------------------------------------------------
(* The cascade picks something applicable.                                  *)

\* A nonempty set of naturals has a least element.
LEMMA Smallest ==
  ASSUME NEW H \in SUBSET Nat, H # {}
  PROVE  \E i \in H : \A j \in H : i <= j
<1>. DEFINE R == OpToRel(<, Nat)
<1>1. IsWellFoundedOn(R, Nat)
  BY NatLessThanWellFounded
<1>. HIDE DEF R
<1>2. PICK x \in H : \A y \in H : ~(<<y, x>> \in R)
  BY <1>1, WFMin, Zenon
<1>3. ASSUME NEW y \in H PROVE x <= y
  <2>1. ~(<<y, x>> \in R)
    BY <1>2
  <2>2. x \in Nat /\ y \in Nat
    OBVIOUS
  <2>3. ~(y < x)
    BY <2>1, <2>2 DEF R, OpToRel
  <2>. QED BY <2>2, <2>3
<1>. QED BY <1>3

\* What Select returns, if not the default, is in the order and in the set.
LEMMA SelectPicks ==
  ASSUME NEW S, NEW order \in Seq(S), NEW P, NEW default
  PROVE  \/ Select(order, P, default) = default
         \/ \E i \in DOMAIN order : order[i] = Select(order, P, default) /\ order[i] \in P
<1>. SUFFICES ASSUME \E i \in DOMAIN order : order[i] \in P
              PROVE  order[FirstOf(order, P)] \in P /\ FirstOf(order, P) \in DOMAIN order
  BY DEF Select
<1>. DEFINE hits == {i \in DOMAIN order : order[i] \in P}
<1>1. hits # {} /\ hits \in SUBSET Nat
  BY DOMAIN order = 1..Len(order)
<1>2. \E i \in hits : \A j \in hits : i <= j
  BY <1>1, Smallest
<1>3. FirstOf(order, P) \in hits
  BY <1>2 DEF FirstOf
<1>. QED BY <1>3

\* The cascade chooses an applicable strategy of the order, or none at all.
LEMMA CascadePicks ==
  ASSUME NEW f, NEW order \in Seq(Strategies \ {"unhandled"})
  PROVE  \/ cascade(f, order) = "unhandled"
         \/ /\ Enabled(cascade(f, order), order)
            /\ cascade(f, order) \in Strategies \ {"unhandled"}
            /\ evaluate(cascade(f, order), f) = "applicable"
<1>. DEFINE s == cascade(f, order)
<1>1. \/ s = "unhandled"
      \/ Enabled(s, order) /\ s \in Applicable(f)
  BY SelectPicks DEF cascade, Enabled
<1>. QED BY <1>1 DEF Applicable

\* An automatic joint strategy has every member and the group behind it.
LEMMA JointPicks ==
  ASSUME NEW a, NEW grp, NEW order \in Seq(Strategies \ {"unhandled"})
  PROVE  LET s == independent_joint_group_strategy(a, grp, order) IN
         \/ s = "none"
         \/ /\ Enabled(s, order)
            /\ s \in Joint
            /\ JointlyApplicable(a, grp, s)
<1>. DEFINE s == independent_joint_group_strategy(a, grp, order)
            P == {t \in Joint : JointlyApplicable(a, grp, t)}
<1>1. s = "none" \/ s = Select(order, P, "none")
  BY DEF independent_joint_group_strategy
<1>2. \/ s = "none"
      \/ Enabled(s, order) /\ s \in P
  BY <1>1, SelectPicks DEF Enabled
<1>. QED BY <1>2

-----------------------------------------------------------------------------
(* What the guards see to.                                                  *)

\* A strategy whose guard passes can be carried out.
LEMMA ApplicableBacked ==
  ASSUME NEW f \in Facts, NEW s \in Strategies \ {"unhandled"},
         evaluate(s, f) = "applicable"
  PROVE  Backed(s, f)
<1>1. CASE s = "atomic"
  BY <1>1 DEF evaluate, Backed, Facts, Joint, Guard
<1>2. CASE s = "immutable"
  BY <1>2 DEF evaluate, Backed, Facts, Joint, Guard
<1>3. CASE s = "once-lock"
  BY <1>3 DEF evaluate, Backed, Facts, Joint, Guard, Slot
<1>4. CASE s = "mutex"
  BY <1>4 DEF evaluate, Backed, Facts, Joint, Guard, Slot
<1>5. CASE s = "localize"
  BY <1>5 DEF evaluate, Backed, Facts, Joint, Guard, Slot
<1>. QED BY <1>1, <1>2, <1>3, <1>4, <1>5 DEF Strategies, Joint, PerGlobal

\* So can one that a pin may be honoured for, guard or no guard.
LEMMA AvailableBacked ==
  ASSUME NEW f \in Facts, NEW s \in Strategies \ {"unhandled"},
         f.localization = "source" => f.source # "none",
         Available(s, f)
  PROVE  Backed(s, f)
BY DEF Available, SourceRefuses, Backed, Facts, Strategies, Joint, PerGlobal

\* The disposition of a group is unset, an opt-out, or a joint strategy of the
\* order that is supported, or that a pin with an accepted risk asked for.
LEMMA GroupPicks ==
  ASSUME NEW a, NEW grp \in Groups, NEW order \in Seq(Strategies \ {"unhandled"}),
         NEW pins, pins \in [DOMAIN pins -> Pins]
  PROVE  LET s == GroupChoice(a, order, pins, grp) IN
         \/ s \in {"none", "unhandled"}
         \/ /\ s \in Joint
            /\ Enabled(s, order)
            /\ \/ JointlyApplicable(a, grp, s)
               \/ /\ JointlyAvailable(a, grp, s)
                  /\ grp \in DOMAIN pins
                  /\ pins[grp].disposition = s
                  /\ group_outcome(a, order, pins, grp) = "honored-accepted-risk"
<1>. DEFINE s == GroupChoice(a, order, pins, grp)
            pin == pins[grp]
<1>1. CASE ~PinnedGroup(a, order, pins, grp)
  BY <1>1, JointPicks DEF GroupChoice
<1>2. CASE PinnedGroup(a, order, pins, grp)
  <2>1. s = pin.disposition /\ grp \in DOMAIN pins
        /\ group_outcome(a, order, pins, grp) \in Honored
    BY <1>2 DEF GroupChoice, PinnedGroup
  <2>2. s \in Strategies
    BY <2>1 DEF Pins
  <2>3. SUFFICES ASSUME s # "unhandled" PROVE
          /\ s \in Joint
          /\ Enabled(s, order)
          /\ JointlyAvailable(a, grp, s)
          /\ \/ JointlyApplicable(a, grp, s)
             \/ group_outcome(a, order, pins, grp) = "honored-accepted-risk"
    BY <2>1
  <2>4. s \notin PerGlobal /\ ~Disabled(pin, order) /\ JointlyAvailable(a, grp, s)
    BY <2>1, <2>3 DEF group_outcome, Honored
  <2>5. group_outcome(a, order, pins, grp) = Weighed(pin, JointlyApplicable(a, grp, s))
    BY <2>1, <2>3, <2>4 DEF group_outcome
  <2>. QED BY <2>1, <2>2, <2>3, <2>4, <2>5 DEF Strategies, Disabled, Weighed, Honored
<1>. QED BY <1>1, <1>2

\* A joint strategy that is supported or available has what it needs, in every
\* member and in the group.
LEMMA JointBacked ==
  ASSUME NEW a, NEW grp \in Groups, NEW s \in Joint,
         \A g \in Members(grp) :
            a.facts[g] \in Facts /\ (a.facts[g].localization = "source" => a.facts[g].source # "none"),
         JointlyApplicable(a, grp, s) \/ JointlyAvailable(a, grp, s)
  PROVE  /\ BackedJointly(s, a.support[grp])
         /\ \A g \in Members(grp) : Backed(s, a.facts[g])
<1>1. BackedJointly(s, a.support[grp])
  BY DEF JointlyApplicable, JointlyAvailable, BackedJointly
<1>2. s \in Strategies \ {"unhandled"}
  BY DEF Joint, Strategies, PerGlobal
<1>3. ASSUME NEW g \in Members(grp) PROVE Backed(s, a.facts[g])
  <2>1. CASE JointlyApplicable(a, grp, s)
    BY <1>2, <2>1, ApplicableBacked DEF JointlyApplicable
  <2>2. CASE JointlyAvailable(a, grp, s)
    BY <1>2, <2>2, AvailableBacked DEF JointlyAvailable
  <2>. QED BY <2>1, <2>2
<1>. QED BY <1>1, <1>3

\* What an honoured pin on a global has: it agrees with the group, is an opt-out
\* or names an enabled strategy that can be carried out, and says so when its
\* guard failed.
Earned(a, m, pins, g) ==
  LET s == pins[g].disposition IN
  /\ global_group_disposition(m, g) \in {"none", s}
  /\ s \in Strategies
  /\ \/ s = "unhandled"
     \/ /\ Enabled(s, m.order)
        /\ Available(s, a.facts[g])
        /\ \/ evaluate(s, a.facts[g]) = "applicable"
           \/ global_outcome(a, m, pins, g) = "honored-accepted-risk"

\* A pin is honoured only when it has earned it.
LEMMA PinPicks ==
  ASSUME NEW a, NEW m, NEW pins, NEW g \in Globals, pins[g] \in Pins,
         global_outcome(a, m, pins, g) \in Honored
  PROVE  Earned(a, m, pins, g)
<1>. DEFINE s == pins[g].disposition
<1>1. global_group_disposition(m, g) \in {"none", s}
  BY DEF global_outcome, Honored
<1>2. s \in Strategies
  BY DEF Pins
<1>3. ASSUME s # "unhandled"
      PROVE  /\ ~Disabled(pins[g], m.order)
             /\ Available(s, a.facts[g])
             /\ global_outcome(a, m, pins, g)
                  = Weighed(pins[g], evaluate(s, a.facts[g]) = "applicable")
  BY <1>3, <1>1 DEF global_outcome, Honored
<1>. QED BY <1>1, <1>2, <1>3 DEF Earned, Disabled, Weighed, Honored

-----------------------------------------------------------------------------
(* The stages of a policy run, field by field.                              *)

Fields == {"order", "chosen", "cascade_chosen", "provenance", "pin", "demoted_from",
           "group_disposition", "group_provenance", "group_pin", "report", "selected",
           "demotions"}

IsManifest(m) == m = [f \in Fields |-> m[f]]

\* The manifest nothing has disposed of is a manifest.
LEMMA UndisposedIsManifest == IsManifest(Undisposed)
BY DEF IsManifest, Undisposed, Fields

\* What the cascade leaves in the manifest.
LEMMA CascadeStage ==
  ASSUME NEW m, IsManifest(m), NEW a, NEW order
  PROVE  LET n == apply_independent_cascade(m, a, order) IN
         /\ IsManifest(n)
         /\ n.order = order
         /\ \A g \in Globals : n.chosen[g] = cascade(a.facts[g], order)
         /\ n.cascade_chosen = n.chosen
         /\ n.provenance = [g \in Globals |-> "cascade"]
         /\ n.pin = [g \in Globals |-> NoPin]
         /\ n.demoted_from = [g \in Globals |-> "none"]
         /\ n.report = {}
         /\ n.selected = {}
         /\ n.demotions = [g \in Globals |-> 0]
BY DEF IsManifest, apply_independent_cascade, Fields

\* The choice that resolve_groups leaves to a global.
Resolved(a, m, pins, g) ==
  IF GroupOf[g] # NoGroup /\ GroupChoice(a, m.order, pins, GroupOf[g]) # "none"
  THEN GroupChoice(a, m.order, pins, GroupOf[g])
  ELSE m.chosen[g]

\* What resolving the groups leaves in the manifest.
LEMMA GroupStage ==
  ASSUME NEW m, IsManifest(m), NEW a, NEW pins
  PROVE  LET n == resolve_groups(m, a, pins) IN
         /\ IsManifest(n)
         /\ n.group_disposition = [grp \in Groups |-> GroupChoice(a, m.order, pins, grp)]
         /\ n.chosen = [g \in Globals |-> Resolved(a, m, pins, g)]
         /\ n.provenance = [g \in Globals |->
               MemberProvenance(Resolved(a, m, pins, g), m.cascade_chosen[g])]
         /\ n.report = m.report \union
               {Entry("group", grp, pins[grp], group_outcome(a, m.order, pins, grp)) :
                  grp \in DOMAIN pins}
         /\ n.order = m.order
         /\ n.cascade_chosen = m.cascade_chosen
         /\ n.pin = m.pin
         /\ n.demoted_from = m.demoted_from
         /\ n.demotions = m.demotions
<1>1. \A g \in Globals : GroupOf[g] # NoGroup => GroupOf[g] \in Groups
  BY GroupAssumption
<1>. QED BY <1>1 DEF IsManifest, resolve_groups, Fields, Resolved

\* Whether a pin on a global is honoured.
Taken(a, m, pins, g) == g \in DOMAIN pins /\ global_outcome(a, m, pins, g) \in Honored

\* What the overrides of single globals leave in the manifest.
LEMMA OverrideStage ==
  ASSUME NEW m, IsManifest(m), NEW a, NEW pins
  PROVE  LET n == apply_global_overrides(m, a, pins) IN
         /\ IsManifest(n)
         /\ \A g \in Globals :
               /\ n.chosen[g] = IF Taken(a, m, pins, g) THEN pins[g].disposition ELSE m.chosen[g]
               /\ n.provenance[g] = IF Taken(a, m, pins, g)
                                    THEN Provenance(global_outcome(a, m, pins, g))
                                    ELSE m.provenance[g]
               /\ n.pin[g] = IF Taken(a, m, pins, g) THEN pins[g] ELSE m.pin[g]
         /\ \A g \in DOMAIN pins :
               Entry("global", g, pins[g], global_outcome(a, m, pins, g)) \in n.report
         /\ m.report \subseteq n.report
         /\ n.order = m.order
         /\ n.cascade_chosen = m.cascade_chosen
         /\ n.group_disposition = m.group_disposition
         /\ n.demotions = m.demotions
BY DEF IsManifest, apply_global_overrides, Fields, Taken

\* Selecting the context rewrite writes the selection and nothing else.
LEMMA SelectStage ==
  ASSUME NEW m, IsManifest(m)
  PROVE  LET n == select_context_rewrite(m) IN
         /\ IsManifest(n)
         /\ n.selected = {g \in Globals : n.chosen[g] = "localize"}
         /\ \A f \in Fields \ {"selected"} : n[f] = m[f]
BY DEF IsManifest, select_context_rewrite, Fields

\* What demotion leaves in the manifest.
LEMMA DemoteStage ==
  ASSUME NEW m, IsManifest(m), NEW failures
  PROVE  LET n == demote_and_reproject(m, failures)
             lowered == Lowered(m, failures)
         IN
         /\ IsManifest(n)
         /\ n.chosen = [g \in Globals |-> IF g \in lowered THEN "unhandled" ELSE m.chosen[g]]
         /\ n.provenance = [g \in Globals |->
               IF g \in lowered THEN "demoted" ELSE m.provenance[g]]
         /\ n.demoted_from = [g \in Globals |->
               IF g \in lowered THEN m.chosen[g] ELSE m.demoted_from[g]]
         /\ n.demotions = [g \in Globals |-> m.demotions[g] + IF g \in lowered THEN 1 ELSE 0]
         /\ n.group_disposition = [grp \in Groups |->
               IF \A g \in Members(grp) : n.chosen[g] = "unhandled"
               THEN "unhandled" ELSE m.group_disposition[grp]]
         /\ n.selected = {g \in Globals : n.chosen[g] = "localize"}
         /\ \A f \in {"order", "cascade_chosen", "pin", "report", "group_pin"} : n[f] = m[f]
BY DEF IsManifest, demote_and_reproject, select_context_rewrite, Fields, Members

-----------------------------------------------------------------------------
(* Every policy run leaves a sound manifest.                                *)

GroupsJoint(m) ==
  \A grp \in Groups : m.group_disposition[grp] \in Joint \union {"unhandled", "none"}

Sound(m, a) ==
  /\ IsManifest(m)
  /\ GroupsJoint(m)
  /\ Uniform(m)
  /\ Founded(m, a)
  /\ Disclosed(m, a)
  /\ Explained(m)
  /\ Tallied(m)
  /\ m.selected = {g \in Globals : m.chosen[g] = "localize"}

\* The facts of one global of an analysis.
LEMMA FactsOf ==
  ASSUME NEW a \in Inputs, NEW g \in Globals
  PROVE  /\ a.facts[g] \in Facts
         /\ a.facts[g].localization = "source" => a.facts[g].source # "none"
BY InputsAssumption DEF Analyses

\* The groups stage: groups are joint, and choices are the group's or the
\* cascade's.
LEMMA Grouped ==
  ASSUME NEW m, IsManifest(m), NEW a \in Inputs, NEW o \in OverrideFiles
  PROVE  LET c == apply_independent_cascade(m, a, o.order)
             r == resolve_groups(c, a, o.groups)
         IN
         /\ IsManifest(r) /\ r.order = o.order
         /\ GroupsJoint(r) /\ Uniform(r) /\ Founded(r, a) /\ Disclosed(r, a) /\ Explained(r)
         /\ \A g \in Globals : /\ r.provenance[g] \in {"cascade", "group-constraint"}
                               /\ r.demotions[g] = 0
<1>. DEFINE c == apply_independent_cascade(m, a, o.order)
            r == resolve_groups(c, a, o.groups)
            Choice(grp) == GroupChoice(a, o.order, o.groups, grp)
            Own(g) == cascade(a.facts[g], o.order)
            InOrder(s) == Enabled(s, o.order)
<1>0. o.order \in Seq(Strategies \ {"unhandled"}) /\ o.groups \in [DOMAIN o.groups -> Pins]
  BY OverridesAssumption
<1>1. /\ IsManifest(c) /\ c.order = o.order
      /\ \A g \in Globals : c.chosen[g] = Own(g) /\ c.cascade_chosen[g] = Own(g)
      /\ \A g \in Globals : c.demotions[g] = 0
      /\ c.report = {}
  BY CascadeStage
<1>. HIDE DEF c
<1>2. /\ IsManifest(r)
      /\ r.order = o.order
      /\ r.group_disposition = [grp \in Groups |-> Choice(grp)]
      /\ r.chosen = [g \in Globals |-> Resolved(a, c, o.groups, g)]
      /\ r.provenance = [g \in Globals |->
            MemberProvenance(Resolved(a, c, o.groups, g), c.cascade_chosen[g])]
      /\ \A grp \in DOMAIN o.groups :
            Entry("group", grp, o.groups[grp], group_outcome(a, o.order, o.groups, grp))
               \in r.report
      /\ r.cascade_chosen = c.cascade_chosen
      /\ r.demotions = c.demotions
  BY <1>1, GroupStage
<1>. HIDE DEF r
<1>3. \A grp \in Groups :
         \/ Choice(grp) \in {"none", "unhandled"}
         \/ /\ Choice(grp) \in Joint
            /\ InOrder(Choice(grp))
            /\ \/ JointlyApplicable(a, grp, Choice(grp))
               \/ /\ JointlyAvailable(a, grp, Choice(grp))
                  /\ grp \in DOMAIN o.groups
                  /\ o.groups[grp].disposition = Choice(grp)
                  /\ group_outcome(a, o.order, o.groups, grp) = "honored-accepted-risk"
  BY <1>0, GroupPicks
<1>. HIDE DEF Choice
<1>4. \A grp \in Groups :
         Choice(grp) \in Joint =>
            /\ BackedJointly(Choice(grp), a.support[grp])
            /\ \A g \in Members(grp) : Backed(Choice(grp), a.facts[g])
  BY <1>3, JointBacked, FactsOf DEF Members, Joint
<1>5. \A g \in Globals :
         \/ /\ GroupOf[g] \in Groups /\ g \in Members(GroupOf[g])
            /\ Choice(GroupOf[g]) # "none"
            /\ r.chosen[g] = Choice(GroupOf[g])
            /\ global_group_disposition(r, g) = Choice(GroupOf[g])
         \/ r.chosen[g] = Own(g) /\ global_group_disposition(r, g) = "none"
  <2>. SUFFICES ASSUME NEW g \in Globals
                PROVE  \/ /\ GroupOf[g] \in Groups /\ g \in Members(GroupOf[g])
                          /\ Choice(GroupOf[g]) # "none"
                          /\ r.chosen[g] = Choice(GroupOf[g])
                          /\ global_group_disposition(r, g) = Choice(GroupOf[g])
                       \/ r.chosen[g] = Own(g) /\ global_group_disposition(r, g) = "none"
    OBVIOUS
  <2>1. r.chosen[g] = Resolved(a, c, o.groups, g) /\ c.chosen[g] = Own(g)
    BY <1>1, <1>2
  <2>2. CASE GroupOf[g] = NoGroup
    BY <2>1, <2>2 DEF Resolved, global_group_disposition
  <2>3. CASE GroupOf[g] # NoGroup
    <3>1. GroupOf[g] \in Groups /\ g \in Members(GroupOf[g])
      BY <2>3, GroupAssumption DEF Members
    <3>2. global_group_disposition(r, g) = Choice(GroupOf[g])
      BY <1>2, <2>3, <3>1 DEF global_group_disposition
    <3>3. GroupChoice(a, c.order, o.groups, GroupOf[g]) = Choice(GroupOf[g])
      BY <1>1 DEF Choice
    <3>. QED BY <2>1, <2>3, <3>1, <3>2, <3>3 DEF Resolved
  <2>. QED BY <2>2, <2>3
<1>6. GroupsJoint(r) /\ Uniform(r)
  BY <1>2, <1>3, <1>5 DEF GroupsJoint, Uniform
<1>7. \A g \in Globals :
         \/ Own(g) = "unhandled"
         \/ /\ InOrder(Own(g)) /\ evaluate(Own(g), a.facts[g]) = "applicable"
            /\ Backed(Own(g), a.facts[g])
  BY <1>0, CascadePicks, ApplicableBacked, FactsOf
<1>. HIDE DEF Own
<1>8. Founded(r, a)
  <2>1. ASSUME NEW g \in Globals
        PROVE  \/ r.chosen[g] \in {"none", "unhandled"}
               \/ InOrder(r.chosen[g]) /\ Backed(r.chosen[g], a.facts[g])
    BY <1>3, <1>4, <1>5, <1>7
  <2>2. ASSUME NEW grp \in Groups
        PROVE  BackedJointly(r.group_disposition[grp], a.support[grp])
    BY <1>2, <1>3, <1>4 DEF BackedJointly, Joint
  <2>. QED BY <1>2, <2>1, <2>2 DEF Founded
<1>9. Disclosed(r, a)
  <2>. SUFFICES ASSUME NEW g \in Globals, r.chosen[g] \notin {"none", "unhandled"},
                       evaluate(r.chosen[g], a.facts[g]) # "applicable"
                PROVE  \E e \in Accepted(r.report) :
                          e.requested = r.chosen[g] /\ e.key \in {g, GroupOf[g]}
    BY DEF Disclosed
  <2>. DEFINE grp == GroupOf[g]
              e == Entry("group", grp, o.groups[grp], group_outcome(a, o.order, o.groups, grp))
  <2>1. grp \in Groups /\ g \in Members(grp) /\ r.chosen[g] = Choice(grp)
    BY <1>5, <1>7
  <2>2. ~JointlyApplicable(a, grp, Choice(grp))
    BY <2>1 DEF JointlyApplicable
  <2>3. /\ grp \in DOMAIN o.groups
        /\ o.groups[grp].disposition = Choice(grp)
        /\ group_outcome(a, o.order, o.groups, grp) = "honored-accepted-risk"
    BY <1>3, <2>1, <2>2
  <2>4. e \in Accepted(r.report) /\ e.requested = r.chosen[g] /\ e.key = grp
    BY <1>2, <2>1, <2>3 DEF Accepted, Entry
  <2>. QED BY <2>4
<1>10. \A g \in Globals : /\ r.provenance[g] \in {"cascade", "group-constraint"}
                          /\ r.demotions[g] = 0
  BY <1>1, <1>2 DEF MemberProvenance
<1>11. Explained(r)
  <2>. SUFFICES ASSUME NEW g \in Globals
                PROVE  /\ r.provenance[g] = "cascade" => r.chosen[g] = r.cascade_chosen[g]
                       /\ r.provenance[g] = "group-constraint"
                             => r.chosen[g] = global_group_disposition(r, g)
    BY <1>10 DEF Explained
  <2>1. /\ r.provenance[g] = MemberProvenance(r.chosen[g], r.cascade_chosen[g])
        /\ r.cascade_chosen[g] = Own(g)
    BY <1>1, <1>2
  <2>. QED BY <1>5, <2>1 DEF MemberProvenance
<1>. QED BY <1>2, <1>6, <1>8, <1>9, <1>10, <1>11 DEF r, c

\* The whole policy: overrides keep what the groups stage established.
LEMMA PolicySound ==
  ASSUME NEW m, IsManifest(m), NEW a \in Inputs, NEW o \in OverrideFiles
  PROVE  Sound(apply_policy(m, a, o), a)
<1>. DEFINE r == resolve_groups(apply_independent_cascade(m, a, o.order), a, o.groups)
            p == apply_global_overrides(r, a, o.globals)
            q == apply_policy(m, a, o)
            Pinned(g) == Taken(a, r, o.globals, g)
            e(g) == Entry("global", g, o.globals[g], global_outcome(a, r, o.globals, g))
<1>1. /\ IsManifest(r) /\ r.order = o.order
      /\ GroupsJoint(r) /\ Uniform(r) /\ Founded(r, a) /\ Disclosed(r, a) /\ Explained(r)
      /\ \A g \in Globals : /\ r.provenance[g] \in {"cascade", "group-constraint"}
                            /\ r.demotions[g] = 0
  BY Grouped
<1>. HIDE DEF r
<1>2. /\ IsManifest(p)
      /\ \A g \in Globals :
            /\ p.chosen[g] = IF Pinned(g) THEN o.globals[g].disposition ELSE r.chosen[g]
            /\ p.provenance[g] = IF Pinned(g)
                                 THEN Provenance(global_outcome(a, r, o.globals, g))
                                 ELSE r.provenance[g]
            /\ p.pin[g] = IF Pinned(g) THEN o.globals[g] ELSE r.pin[g]
            /\ Pinned(g) => e(g) \in p.report
      /\ r.report \subseteq p.report
      /\ p.order = r.order
      /\ p.cascade_chosen = r.cascade_chosen
      /\ p.group_disposition = r.group_disposition
      /\ p.demotions = r.demotions
  BY <1>1, OverrideStage DEF Taken
<1>3. q = select_context_rewrite(p)
  BY DEF apply_policy, p, r
<1>. HIDE DEF p
<1>4. /\ IsManifest(q)
      /\ q.selected = {g \in Globals : q.chosen[g] = "localize"}
      /\ q.chosen = p.chosen /\ q.provenance = p.provenance /\ q.pin = p.pin
      /\ q.report = p.report /\ q.order = p.order /\ q.cascade_chosen = p.cascade_chosen
      /\ q.group_disposition = p.group_disposition /\ q.demotions = p.demotions
  BY <1>2, <1>3, SelectStage DEF Fields
<1>. HIDE DEF q
<1>5. \A g \in Globals : Pinned(g) =>
         /\ g \in DOMAIN o.globals
         /\ global_outcome(a, r, o.globals, g) \in Honored
         /\ Earned(a, r, o.globals, g)
  <2>. SUFFICES ASSUME NEW g \in Globals, Pinned(g)
                PROVE  /\ g \in DOMAIN o.globals
                       /\ global_outcome(a, r, o.globals, g) \in Honored
                       /\ Earned(a, r, o.globals, g)
    OBVIOUS
  <2>1. g \in DOMAIN o.globals /\ global_outcome(a, r, o.globals, g) \in Honored
    BY DEF Taken
  <2>2. o.globals[g] \in Pins
    BY <2>1, OverridesAssumption
  <2>. QED BY <2>1, <2>2, PinPicks
<1>6. \A g \in Globals : global_group_disposition(q, g) = global_group_disposition(r, g)
  BY <1>2, <1>4 DEF global_group_disposition
<1>7. GroupsJoint(q)
  BY <1>1, <1>2, <1>4 DEF GroupsJoint
<1>8. Uniform(q)
  <2>. SUFFICES ASSUME NEW g \in Globals
                PROVE  global_group_disposition(q, g) \in {"none", q.chosen[g]}
    BY DEF Uniform
  <2>1. global_group_disposition(r, g) \in {"none", r.chosen[g]}
    BY <1>1 DEF Uniform
  <2>2. CASE Pinned(g)
    BY <1>2, <1>4, <1>5, <1>6, <2>2 DEF Earned
  <2>3. CASE ~Pinned(g)
    BY <1>2, <1>4, <1>6, <2>1, <2>3
  <2>. QED BY <2>2, <2>3
<1>9. Founded(q, a)
  <2>1. ASSUME NEW g \in Globals, q.chosen[g] \notin {"none", "unhandled"}
        PROVE  /\ Enabled(q.chosen[g], q.order)
               /\ Backed(q.chosen[g], a.facts[g])
    <3>1. CASE Pinned(g)
      BY <1>2, <1>4, <1>5, <2>1, <3>1, AvailableBacked, FactsOf DEF Earned
    <3>2. CASE ~Pinned(g)
      BY <1>1, <1>2, <1>4, <2>1, <3>2 DEF Founded
    <3>. QED BY <3>1, <3>2
  <2>2. \A grp \in Groups : BackedJointly(q.group_disposition[grp], a.support[grp])
    BY <1>1, <1>2, <1>4 DEF Founded
  <2>. QED BY <2>1, <2>2 DEF Founded
<1>10. Disclosed(q, a)
  <2>. SUFFICES ASSUME NEW g \in Globals, q.chosen[g] \notin {"none", "unhandled"},
                       evaluate(q.chosen[g], a.facts[g]) # "applicable"
                PROVE  \E d \in Accepted(q.report) :
                          d.requested = q.chosen[g] /\ d.key \in {g, GroupOf[g]}
    BY DEF Disclosed
  <2>1. CASE Pinned(g)
    <3>1. /\ global_outcome(a, r, o.globals, g) = "honored-accepted-risk"
          /\ q.chosen[g] = o.globals[g].disposition
          /\ e(g) \in q.report
      BY <1>2, <1>4, <1>5, <2>1 DEF Earned
    <3>2. e(g) \in Accepted(q.report) /\ e(g).requested = q.chosen[g] /\ e(g).key = g
      BY <3>1 DEF Accepted, Entry
    <3>. QED BY <3>2
  <2>2. CASE ~Pinned(g)
    <3>1. q.chosen[g] = r.chosen[g] /\ r.report \subseteq q.report
      BY <1>2, <1>4, <2>2
    <3>2. PICK d \in Accepted(r.report) : d.requested = q.chosen[g] /\ d.key \in {g, GroupOf[g]}
      BY <1>1, <3>1 DEF Disclosed
    <3>3. d \in Accepted(q.report)
      BY <3>1 DEF Accepted
    <3>. QED BY <3>2, <3>3
  <2>. QED BY <2>1, <2>2
<1>11. Explained(q)
  <2>. SUFFICES ASSUME NEW g \in Globals
                PROVE  LET why == q.provenance[g]
                           choice == q.chosen[g]
                       IN
                       /\ why \in {"none", "cascade"} => choice = q.cascade_chosen[g]
                       /\ why = "group-constraint" => choice = global_group_disposition(q, g)
                       /\ why \in {"override", "override-accepted-risk"} =>
                             /\ choice = q.pin[g].disposition
                             /\ \E d \in q.report :
                                   d.scope = "global" /\ d.key = g /\ d.outcome \in Honored
                       /\ why = "demoted" =>
                             choice = "unhandled" /\ q.demoted_from[g] \notin {"none", choice}
    BY DEF Explained
  <2>1. CASE Pinned(g)
    <3>1. /\ q.provenance[g] \in {"override", "override-accepted-risk"}
          /\ q.chosen[g] = o.globals[g].disposition
          /\ q.pin[g] = o.globals[g]
          /\ e(g) \in q.report
      BY <1>2, <1>4, <2>1 DEF Provenance
    <3>2. e(g).scope = "global" /\ e(g).key = g /\ e(g).outcome \in Honored
      BY <1>5, <2>1 DEF Entry
    <3>. QED BY <3>1, <3>2
  <2>2. CASE ~Pinned(g)
    <3>1. /\ q.provenance[g] = r.provenance[g] /\ q.chosen[g] = r.chosen[g]
          /\ q.cascade_chosen[g] = r.cascade_chosen[g]
      BY <1>2, <1>4, <2>2
    <3>. QED BY <1>1, <1>6, <3>1 DEF Explained
  <2>. QED BY <2>1, <2>2
<1>12. Tallied(q)
  <2>. SUFFICES ASSUME NEW g \in Globals PROVE q.demotions[g] = 0 /\ q.provenance[g] # "demoted"
    BY DEF Tallied
  <2>. QED BY <1>1, <1>2, <1>4 DEF Provenance
<1>. QED BY <1>4, <1>7, <1>8, <1>9, <1>10, <1>11, <1>12 DEF Sound, q

-----------------------------------------------------------------------------
(* The empty manifest is sound, and a demotion keeps a manifest sound.      *)

LEMMA UndisposedSound ==
  ASSUME NEW a
  PROVE  Sound(Undisposed, a)
<1>1. /\ \A g \in Globals : /\ Undisposed.chosen[g] = "none"
                            /\ Undisposed.cascade_chosen[g] = "none"
                            /\ Undisposed.provenance[g] = "none"
                            /\ Undisposed.demotions[g] = 0
      /\ \A grp \in Groups : Undisposed.group_disposition[grp] = "none"
      /\ Undisposed.selected = {}
  BY DEF Undisposed
<1>2. \A g \in Globals : global_group_disposition(Undisposed, g) = "none"
  BY <1>1, GroupAssumption DEF global_group_disposition
<1>3. Founded(Undisposed, a) /\ Disclosed(Undisposed, a)
  BY <1>1 DEF Founded, Disclosed, BackedJointly
<1>4. Explained(Undisposed) /\ Tallied(Undisposed)
  BY <1>1 DEF Explained, Tallied
<1>5. GroupsJoint(Undisposed) /\ Uniform(Undisposed)
  BY <1>1, <1>2 DEF GroupsJoint, Uniform
<1>. QED BY <1>1, <1>3, <1>4, <1>5, UndisposedIsManifest DEF Sound

\* A global that is given up had a disposition; if that was its group's, all
\* of the group is given up with it.
LEMMA LoweredFinal ==
  ASSUME NEW m, NEW a, Sound(m, a), NEW failures \in SUBSET Globals,
         \A f \in failures : m.chosen[f] # "none",
         NEW g \in Lowered(m, failures)
  PROVE  /\ g \in Globals
         /\ m.chosen[g] \notin {"none", "unhandled"}
         /\ global_group_disposition(m, g) = m.chosen[g]
               => Members(GroupOf[g]) \subseteq Expanded(m, failures)
<1>1. g \in Globals /\ g \in Expanded(m, failures) /\ m.chosen[g] # "unhandled"
  BY DEF Lowered, Expanded
<1>2. CASE g \in failures
  <2>1. ASSUME global_group_disposition(m, g) = m.chosen[g]
        PROVE  Members(GroupOf[g]) \subseteq Expanded(m, failures)
    <3>1. GroupOf[g] # NoGroup /\ m.group_disposition[GroupOf[g]] = m.chosen[g]
      BY <1>2, <2>1 DEF global_group_disposition
    <3>2. m.chosen[g] \in Joint
      BY <1>1, <1>2, <3>1, GroupAssumption DEF Sound, GroupsJoint
    <3>. QED BY <1>2, <3>1, <3>2 DEF Members, Expanded
  <2>. QED BY <1>1, <1>2, <2>1
<1>3. CASE g \notin failures
  <2>1. PICK f \in failures : /\ m.chosen[f] \in Joint
                              /\ GroupOf[f] # NoGroup
                              /\ GroupOf[g] = GroupOf[f]
                              /\ m.group_disposition[GroupOf[f]] = m.chosen[f]
    BY <1>1, <1>3 DEF Expanded
  <2>2. Members(GroupOf[g]) \subseteq Expanded(m, failures)
    BY <2>1 DEF Members, Expanded
  <2>3. global_group_disposition(m, g) = m.chosen[f]
    BY <2>1 DEF global_group_disposition
  <2>4. m.chosen[g] = m.chosen[f]
    BY <1>1, <2>1, <2>3 DEF Sound, Uniform, Joint
  <2>. QED BY <1>1, <2>1, <2>2, <2>4 DEF Joint
<1>. QED BY <1>2, <1>3

\* Demoting globals that failed keeps a sound manifest sound.
LEMMA DemoteSound ==
  ASSUME NEW m, NEW a, Sound(m, a), NEW failures \in SUBSET Globals,
         \A f \in failures : m.chosen[f] # "none"
  PROVE  Sound(demote_and_reproject(m, failures), a)
<1>. DEFINE n == demote_and_reproject(m, failures)
            lowered == Lowered(m, failures)
<1>1. /\ IsManifest(n)
      /\ n.chosen = [g \in Globals |-> IF g \in lowered THEN "unhandled" ELSE m.chosen[g]]
      /\ n.provenance = [g \in Globals |-> IF g \in lowered THEN "demoted" ELSE m.provenance[g]]
      /\ n.demoted_from = [g \in Globals |->
            IF g \in lowered THEN m.chosen[g] ELSE m.demoted_from[g]]
      /\ n.demotions = [g \in Globals |-> m.demotions[g] + IF g \in lowered THEN 1 ELSE 0]
      /\ n.group_disposition = [grp \in Groups |->
            IF \A g \in Members(grp) : n.chosen[g] = "unhandled"
            THEN "unhandled" ELSE m.group_disposition[grp]]
      /\ n.selected = {g \in Globals : n.chosen[g] = "localize"}
      /\ \A f \in {"order", "cascade_chosen", "pin", "report", "group_pin"} : n[f] = m[f]
  BY DemoteStage DEF Sound
<1>2. /\ n.order = m.order /\ n.cascade_chosen = m.cascade_chosen
      /\ n.pin = m.pin /\ n.report = m.report
  BY <1>1
<1>. HIDE DEF n
<1>3. \A g \in lowered : /\ g \in Globals
                         /\ m.chosen[g] \notin {"none", "unhandled"}
                         /\ global_group_disposition(m, g) = m.chosen[g]
                               => Members(GroupOf[g]) \subseteq Expanded(m, failures)
  BY LoweredFinal
<1>4. \A g \in Expanded(m, failures) : g \in Globals /\ n.chosen[g] = "unhandled"
  <2>1. Expanded(m, failures) \subseteq Globals
    BY DEF Expanded
  <2>2. \A g \in Expanded(m, failures) : g \in lowered \/ m.chosen[g] = "unhandled"
    BY DEF Lowered
  <2>3. \A g \in Globals : n.chosen[g] = IF g \in lowered THEN "unhandled" ELSE m.chosen[g]
    BY <1>1
  <2>. QED BY <2>1, <2>2, <2>3
<1>5. \A g \in Globals \ lowered :
         /\ n.chosen[g] = m.chosen[g] /\ n.provenance[g] = m.provenance[g]
         /\ n.demoted_from[g] = m.demoted_from[g]
         /\ n.demotions[g] = m.demotions[g] + 0
  BY <1>1
<1>6. \A g \in lowered : /\ n.chosen[g] = "unhandled" /\ n.provenance[g] = "demoted"
                         /\ n.demoted_from[g] = m.chosen[g]
                         /\ n.demotions[g] = m.demotions[g] + 1
  BY <1>1, <1>3
<1>. HIDE DEF lowered
<1>7. GroupsJoint(n)
  BY <1>1 DEF Sound, GroupsJoint
<1>8. \A g \in Globals : \/ /\ n.chosen[g] = "unhandled"
                            /\ global_group_disposition(n, g) = "unhandled"
                         \/ global_group_disposition(n, g) = global_group_disposition(m, g)
  <2>. SUFFICES ASSUME NEW g \in Globals, GroupOf[g] # NoGroup
                PROVE  \/ /\ n.chosen[g] = "unhandled"
                          /\ global_group_disposition(n, g) = "unhandled"
                       \/ global_group_disposition(n, g) = global_group_disposition(m, g)
    BY DEF global_group_disposition
  <2>1. GroupOf[g] \in Groups /\ g \in Members(GroupOf[g])
    BY GroupAssumption DEF Members
  <2>2. \/ /\ n.chosen[g] = "unhandled"
           /\ n.group_disposition[GroupOf[g]] = "unhandled"
        \/ n.group_disposition[GroupOf[g]] = m.group_disposition[GroupOf[g]]
    <3>1. CASE \A h \in Members(GroupOf[g]) : n.chosen[h] = "unhandled"
      BY <1>1, <2>1, <3>1
    <3>2. CASE ~\A h \in Members(GroupOf[g]) : n.chosen[h] = "unhandled"
      BY <1>1, <2>1, <3>2
    <3>. QED BY <3>1, <3>2
  <2>. QED BY <2>2 DEF global_group_disposition
<1>9. Uniform(n)
  <2>. SUFFICES ASSUME NEW g \in Globals
                PROVE  global_group_disposition(n, g) \in {"none", n.chosen[g]}
    BY DEF Uniform
  <2>1. global_group_disposition(m, g) \in {"none", m.chosen[g]}
    BY DEF Sound, Uniform
  <2>2. CASE g \notin lowered
    BY <1>5, <1>8, <2>1, <2>2
  <2>3. CASE g \in lowered /\ global_group_disposition(m, g) = "none"
    BY <1>6, <1>8, <2>3
  <2>4. CASE g \in lowered /\ global_group_disposition(m, g) = m.chosen[g]
    <3>1. \A h \in Members(GroupOf[g]) : n.chosen[h] = "unhandled"
      BY <1>3, <1>4, <2>4
    <3>2. GroupOf[g] \in Groups
      BY <1>3, <2>4, GroupAssumption DEF global_group_disposition
    <3>3. global_group_disposition(n, g) = "unhandled"
      BY <1>1, <3>1, <3>2, GroupAssumption DEF global_group_disposition
    <3>. QED BY <1>6, <2>4, <3>3
  <2>. QED BY <2>1, <2>2, <2>3, <2>4
<1>10. Founded(n, a)
  <2>1. ASSUME NEW g \in Globals, n.chosen[g] \notin {"none", "unhandled"}
        PROVE  Enabled(n.chosen[g], n.order) /\ Backed(n.chosen[g], a.facts[g])
    BY <1>2, <1>5, <1>6, <2>1 DEF Sound, Founded
  <2>2. ASSUME NEW grp \in Groups
        PROVE  BackedJointly(n.group_disposition[grp], a.support[grp])
    <3>1. BackedJointly(m.group_disposition[grp], a.support[grp])
      BY DEF Sound, Founded
    <3>. QED BY <1>1, <3>1 DEF BackedJointly
  <2>. QED BY <2>1, <2>2 DEF Founded
<1>11. Disclosed(n, a)
  <2>. SUFFICES ASSUME NEW g \in Globals, n.chosen[g] \notin {"none", "unhandled"},
                       evaluate(n.chosen[g], a.facts[g]) # "applicable"
                PROVE  \E e \in Accepted(n.report) :
                          e.requested = n.chosen[g] /\ e.key \in {g, GroupOf[g]}
    BY DEF Disclosed
  <2>1. n.chosen[g] = m.chosen[g]
    BY <1>5, <1>6
  <2>. QED BY <1>2, <2>1 DEF Sound, Disclosed
<1>12. Explained(n)
  <2>. SUFFICES ASSUME NEW g \in Globals
                PROVE  LET why == n.provenance[g]
                           choice == n.chosen[g]
                       IN
                       /\ why \in {"none", "cascade"} => choice = n.cascade_chosen[g]
                       /\ why = "group-constraint" => choice = global_group_disposition(n, g)
                       /\ why \in {"override", "override-accepted-risk"} =>
                             /\ choice = n.pin[g].disposition
                             /\ \E e \in n.report :
                                   e.scope = "global" /\ e.key = g /\ e.outcome \in Honored
                       /\ why = "demoted" =>
                             choice = "unhandled" /\ n.demoted_from[g] \notin {"none", choice}
    BY DEF Explained
  <2>1. CASE g \in lowered
    BY <1>3, <1>6, <2>1
  <2>2. CASE g \notin lowered
    BY <1>2, <1>5, <1>8, <2>2 DEF Sound, Explained
  <2>. QED BY <2>1, <2>2
<1>13. Tallied(n)
  <2>. SUFFICES ASSUME NEW g \in Globals
                PROVE  n.demotions[g] = IF n.provenance[g] = "demoted" THEN 1 ELSE 0
    BY DEF Tallied
  <2>1. m.demotions[g] = IF m.provenance[g] = "demoted" THEN 1 ELSE 0
    BY DEF Sound, Tallied
  <2>2. CASE g \in lowered
    <3>1. m.provenance[g] # "demoted"
      BY <1>3, <2>2 DEF Sound, Explained
    <3>. QED BY <1>6, <2>1, <2>2, <3>1
  <2>3. CASE g \notin lowered
    BY <1>5, <2>1, <2>3
  <2>. QED BY <2>2, <2>3
<1>. QED BY <1>1, <1>7, <1>9, <1>10, <1>11, <1>12, <1>13 DEF Sound, n

\* What a demotion may change from m to n.
Lowers(m, n) ==
  /\ \A g \in Globals : \/ n.chosen[g] = m.chosen[g]
                        \/ n.chosen[g] = "unhandled" /\ n.demoted_from[g] = m.chosen[g]
  /\ n.selected \subseteq m.selected
  /\ \A s \in {"order", "cascade_chosen", "pin", "report", "group_pin"} : n[s] = m[s]

\* Demotion only lowers choices.
LEMMA DemoteLowers ==
  ASSUME NEW m, IsManifest(m), NEW failures,
         m.selected = {g \in Globals : m.chosen[g] = "localize"}
  PROVE  Lowers(m, demote_and_reproject(m, failures))
<1>. DEFINE n == demote_and_reproject(m, failures)
            lowered == Lowered(m, failures)
<1>1. /\ IsManifest(n)
      /\ n.chosen = [g \in Globals |-> IF g \in lowered THEN "unhandled" ELSE m.chosen[g]]
      /\ n.provenance = [g \in Globals |-> IF g \in lowered THEN "demoted" ELSE m.provenance[g]]
      /\ n.demoted_from = [g \in Globals |->
            IF g \in lowered THEN m.chosen[g] ELSE m.demoted_from[g]]
      /\ n.demotions = [g \in Globals |-> m.demotions[g] + IF g \in lowered THEN 1 ELSE 0]
      /\ n.group_disposition = [grp \in Groups |->
            IF \A g \in Members(grp) : n.chosen[g] = "unhandled"
            THEN "unhandled" ELSE m.group_disposition[grp]]
      /\ n.selected = {g \in Globals : n.chosen[g] = "localize"}
      /\ \A f \in {"order", "cascade_chosen", "pin", "report", "group_pin"} : n[f] = m[f]
  BY DemoteStage
<1>. HIDE DEF n, lowered
<1>2. /\ \A g \in Globals \intersect lowered : n.chosen[g] = "unhandled"
      /\ \A g \in Globals \ lowered : n.chosen[g] = m.chosen[g]
      /\ \A g \in Globals \intersect lowered : n.demoted_from[g] = m.chosen[g]
  BY <1>1
<1>. QED BY <1>1, <1>2 DEF Lowers, n

-----------------------------------------------------------------------------
(* A policy run forgets what the manifest said before.                      *)

LEMMA GroupsForget ==
  ASSUME NEW m, IsManifest(m), NEW a, NEW order, NEW pins
  PROVE  resolve_groups(apply_independent_cascade(m, a, order), a, pins)
           = resolve_groups(apply_independent_cascade(Undisposed, a, order), a, pins)
<1>. DEFINE c == apply_independent_cascade(m, a, order)
            u == apply_independent_cascade(Undisposed, a, order)
            rest == {"group_disposition", "group_provenance", "group_pin"}
<1>1. IsManifest(c) /\ IsManifest(u)
  BY UndisposedIsManifest, CascadeStage
<1>2. \A f \in Fields \ rest : c[f] = u[f]
  BY UndisposedIsManifest DEF apply_independent_cascade, IsManifest, Fields
<1>3. /\ c.order = u.order /\ c.chosen = u.chosen /\ c.cascade_chosen = u.cascade_chosen
      /\ c.provenance = u.provenance /\ c.pin = u.pin /\ c.demoted_from = u.demoted_from
      /\ c.report = u.report /\ c.selected = u.selected /\ c.demotions = u.demotions
  BY <1>2 DEF Fields
<1>. HIDE DEF c, u
<1>. DEFINE v == resolve_groups(c, a, pins)
            w == resolve_groups(u, a, pins)
<1>4. IsManifest(v) /\ IsManifest(w)
  BY <1>1, GroupStage
<1>5. \A f \in Fields : v[f] = w[f]
  <2>1. /\ v.order = w.order /\ v.cascade_chosen = w.cascade_chosen /\ v.pin = w.pin
        /\ v.demoted_from = w.demoted_from /\ v.selected = w.selected
        /\ v.demotions = w.demotions
    BY <1>1, <1>3 DEF resolve_groups, IsManifest, Fields
  <2>2. v.group_disposition = w.group_disposition
    BY <1>1, <1>3 DEF resolve_groups, IsManifest, Fields
  <2>3. v.group_provenance = w.group_provenance
    BY <1>1, <1>3 DEF resolve_groups, IsManifest, Fields
  <2>4. v.group_pin = w.group_pin
    BY <1>1, <1>3 DEF resolve_groups, IsManifest, Fields
  <2>5. v.chosen = w.chosen
    BY <1>1, <1>3 DEF resolve_groups, IsManifest, Fields
  <2>6. v.provenance = w.provenance
    BY <1>1, <1>3 DEF resolve_groups, IsManifest, Fields
  <2>7. v.report = w.report
    BY <1>1, <1>3 DEF resolve_groups, IsManifest, Fields
  <2>. QED BY <2>1, <2>2, <2>3, <2>4, <2>5, <2>6, <2>7 DEF Fields
<1>. HIDE DEF v, w
<1>6. v = w
  BY <1>4, <1>5 DEF IsManifest
<1>. QED BY <1>6 DEF v, w, c, u

\* The policy's result does not depend on the manifest it starts from.
LEMMA PolicyPure ==
  ASSUME NEW m, IsManifest(m), NEW a, NEW o
  PROVE  apply_policy(m, a, o) = apply_policy(Undisposed, a, o)
BY GroupsForget DEF apply_policy

-----------------------------------------------------------------------------
(* The pair of files.                                                       *)

\* The ledger that a policy run writes agrees with the report it was made from,
\* whatever ledger it was made from.
LEMMA AppendedAgrees ==
  ASSUME NEW m, NEW l, AnalysisRecord \in l
  PROVE  /\ RecordsAgree(m, Appended(l, m.report))
         /\ AnalysisRecord \in Appended(l, m.report)
BY DEF RecordsAgree, Appended, Retained, OverrideRecord, AnalysisRecord

\* What a policy run leaves to be written.
Result(m, a) ==
  /\ Sound(m, a)
  /\ Executable(m, a)
  /\ \E o \in OverrideFiles : m = apply_policy(Undisposed, a, o)

\* The invariant.  On disk: a sound manifest beside the records of the analysis.
\* In the running tool: the result of a policy run and a ledger that agrees with
\* it, which is the one on disk once it is written.
IInv ==
  /\ analysis \in Inputs
  /\ Sound(manifest, analysis)
  /\ Executable(manifest, analysis)
  /\ AnalysisRecord \in ledger
  /\ tool = [phase |-> tool.phase, manifest |-> tool.manifest, ledger |-> tool.ledger]
  /\ tool.phase \in {"idle", "applied", "ledger-written"}
  /\ tool.phase # "idle" => /\ Result(tool.manifest, analysis)
                            /\ RecordsAgree(tool.manifest, tool.ledger)
                            /\ AnalysisRecord \in tool.ledger
  /\ tool.phase = "ledger-written" => ledger = tool.ledger

\* The invariant holds initially.
LEMMA IInvInit == Init => IInv
<1>. SUFFICES ASSUME Init PROVE IInv
  OBVIOUS
<1>1. Undisposed.selected = {} /\ \A g \in Globals : Undisposed.chosen[g] = "none"
  BY DEF Undisposed
<1>2. Executable(Undisposed, analysis)
  BY <1>1, ConflictingAssumption DEF Executable
<1>. QED BY <1>2, UndisposedSound DEF Init, Idle, IInv

\* A policy run on any manifest and ledger that the tools left.
LEMMA ApplyStep ==
  ASSUME IInv, NEW m, IsManifest(m), NEW l, AnalysisRecord \in l,
         NEW o \in OverrideFiles, Apply(m, l, o)
  PROVE  IInv'
<1>. DEFINE new == apply_policy(m, analysis, o)
            runs == Valid(m, analysis) /\ Selectable(new, analysis) /\ Valid(new, analysis)
<1>0. /\ analysis' = analysis /\ manifest' = manifest /\ ledger' = ledger
      /\ tool.phase = "idle"
  BY DEF Apply
<1>1. CASE ~runs
  BY <1>0, <1>1 DEF Apply, IInv
<1>2. CASE runs
  <2>1. tool' = [phase |-> "applied", manifest |-> new, ledger |-> Appended(l, new.report)]
    BY <1>2 DEF Apply
  <2>2. Sound(new, analysis)
    BY PolicySound DEF IInv
  <2>3. Executable(new, analysis)
    BY <1>2 DEF Valid, Selectable, Executable
  <2>4. new = apply_policy(Undisposed, analysis, o)
    BY PolicyPure
  <2>5. /\ RecordsAgree(new, Appended(l, new.report))
        /\ AnalysisRecord \in Appended(l, new.report)
    BY AppendedAgrees
  <2>. HIDE DEF new
  <2>. QED BY <1>0, <2>1, <2>2, <2>3, <2>4, <2>5 DEF IInv, Result
<1>. QED BY <1>1, <1>2

\* A demotion that the tool accepts.
LEMMA ReprojectStep ==
  ASSUME IInv, NEW failures \in SUBSET Globals, Reproject(failures)
  PROVE  IInv'
<1>. DEFINE new == demote_and_reproject(manifest, failures)
<1>0. analysis' = analysis /\ ledger' = ledger /\ tool' = tool /\ tool.phase = "idle"
  BY DEF Reproject
<1>1. CASE manifest' = manifest
  BY <1>0, <1>1 DEF IInv
<1>2. CASE manifest' # manifest
  <2>1. /\ manifest' = new
        /\ \A g \in failures : manifest.chosen[g] # "none"
        /\ Selectable(new, analysis) /\ Valid(new, analysis)
    BY <1>2 DEF Reproject
  <2>2. Sound(new, analysis)
    BY <2>1, DemoteSound DEF IInv
  <2>3. Executable(new, analysis)
    BY <2>1 DEF Valid, Selectable, Executable
  <2>. HIDE DEF new
  <2>. QED BY <1>0, <2>1, <2>2, <2>3 DEF IInv
<1>. QED BY <1>1, <1>2

\* Every step keeps the invariant.
LEMMA IInvStep == IInv /\ [Next]_vars => IInv'
<1>. SUFFICES ASSUME IInv, [Next]_vars PROVE IInv'
  OBVIOUS
<1>1. ASSUME NEW o \in OverrideFiles, Analyze(o) PROVE IInv'
  BY <1>1, ApplyStep, UndisposedIsManifest DEF Analyze
<1>2. ASSUME NEW o \in OverrideFiles, Dispose(o) PROVE IInv'
  <2>1. IsManifest(manifest) /\ AnalysisRecord \in ledger
    BY DEF IInv, Sound
  <2>. QED BY <1>2, <2>1, ApplyStep DEF Dispose
<1>3. CASE PersistLedger
  BY <1>3 DEF PersistLedger, IInv
<1>4. CASE PersistManifest
  <2>1. /\ tool.phase = "ledger-written" /\ ledger' = ledger /\ analysis' = analysis
        /\ manifest' = tool.manifest /\ tool' = Idle
    BY <1>4 DEF PersistManifest
  <2>. QED BY <2>1 DEF IInv, Idle, Result
<1>5. CASE Crash
  <2>1. ledger' = ledger /\ analysis' = analysis /\ manifest' = manifest /\ tool' = Idle
    BY <1>5 DEF Crash
  <2>. QED BY <2>1 DEF IInv, Idle
<1>6. ASSUME NEW failures \in SUBSET Globals, Reproject(failures) PROVE IInv'
  BY <1>6, ReprojectStep
<1>7. CASE UNCHANGED vars
  BY <1>7 DEF vars, IInv
<1>. QED BY <1>1, <1>2, <1>3, <1>4, <1>5, <1>6, <1>7 DEF Next

\* The invariant holds in every reachable state.
LEMMA Invariance == Spec => []IInv
<1>. QED BY IInvInit, IInvStep, PTL DEF Spec

-----------------------------------------------------------------------------
(* The theorems.                                                            *)

\* A resolved group has one representation in all its members, after any
\* overrides, demotions and crashes (resolve_groups, demote_and_reproject).
THEOREM GroupsUniform == Spec => []JointUniform
<1>1. IInv => JointUniform
  BY DEF IInv, Sound, JointUniform
<1>. QED BY <1>1, Invariance, PTL

\* Every choice on disk is enabled and has its declaration, inputs and recipe,
\* however many risks were accepted (unavailable_outcome, group_availability).
THEOREM ChoicesFounded == Spec => []NothingInvented
<1>1. IInv => NothingInvented
  BY DEF IInv, Sound, NothingInvented
<1>. QED BY <1>1, Invariance, PTL

\* Every choice whose own guard fails is an accepted risk of the report.
THEOREM RisksDisclosed == Spec => []RisksReported
<1>1. IInv => RisksReported
  BY DEF IInv, Sound, RisksReported
<1>. QED BY <1>1, Invariance, PTL

\* The provenance of every choice is true, and the record behind it exists.
THEOREM ChoicesExplained == Spec => []ProvenanceExplains
<1>1. IInv => ProvenanceExplains
  BY DEF IInv, Sound, ProvenanceExplains
<1>. QED BY <1>1, Invariance, PTL

\* Demoted globals, and no others, are listed, and once each.
THEOREM DemotionsTallied == Spec => []DemotionsListedOnce
<1>1. IInv => DemotionsListedOnce
  BY DEF IInv, Sound, DemotionsListedOnce
<1>. QED BY <1>1, Invariance, PTL

\* The selected recipes are those of the localized globals, none of them is
\* blocked and they do not clash (select_context_rewrite, Manifest::validate).
THEOREM SelectionSound == Spec => []SelectionExecutable
<1>1. IInv => SelectionExecutable
  BY DEF IInv, SelectionExecutable
<1>. QED BY <1>1, Invariance, PTL

\* What is committed depends on the analysis and the override file alone.
THEOREM PureCommits == Spec => CommitsPure
<1>1. IInv /\ [Next]_vars =>
        [Committing => \E o \in OverrideFiles : manifest' = apply_policy(Undisposed, analysis, o)]_vars
  <2>. SUFFICES ASSUME IInv, Next, Committing
                PROVE  \E o \in OverrideFiles : manifest' = apply_policy(Undisposed, analysis, o)
    OBVIOUS
  <2>1. PersistManifest
    BY DEF Next, Committing, Analyze, Dispose, Apply, PersistLedger, Crash, Reproject
  <2>. QED BY <2>1 DEF PersistManifest, IInv, Result
<1>. QED BY <1>1, Invariance, PTL DEF Spec, CommitsPure

\* A commit leaves a ledger that records the risks of the manifest beside it and
\* still holds the analysis's own records (retain, append_override_records).
THEOREM CommitsAgree == Spec => CommitRepairs
<1>1. IInv /\ [Next]_vars =>
        [Committing => RecordsAgree(manifest', ledger') /\ AnalysisRecord \in ledger']_vars
  <2>. SUFFICES ASSUME IInv, Next, Committing
                PROVE  RecordsAgree(manifest', ledger') /\ AnalysisRecord \in ledger'
    OBVIOUS
  <2>1. PersistManifest
    BY DEF Next, Committing, Analyze, Dispose, Apply, PersistLedger, Crash, Reproject
  <2>2. manifest' = tool.manifest /\ ledger' = tool.ledger /\ tool.phase = "ledger-written"
    BY <2>1 DEF PersistManifest, IInv
  <2>. QED BY <2>2 DEF IInv
<1>. QED BY <1>1, Invariance, PTL DEF Spec, CommitRepairs

\* Reprojection takes dispositions away and does nothing else.
THEOREM DemotionsLower == Spec => OnlyLowers
<1>1. IInv /\ [Next]_vars => 
        [Reprojecting =>
          /\ \A g \in Globals :
                \/ manifest'.chosen[g] = manifest.chosen[g]
                \/ /\ manifest'.chosen[g] = "unhandled"
                   /\ manifest'.demoted_from[g] = manifest.chosen[g]
          /\ manifest'.selected \subseteq manifest.selected
          /\ \A s \in {"order", "cascade_chosen", "pin", "report", "group_pin"} :
                manifest'[s] = manifest[s]]_vars
  <2>. SUFFICES ASSUME IInv, Next, Reprojecting PROVE Lowers(manifest, manifest')
    BY DEF Lowers
  <2>1. PICK failures \in SUBSET Globals : Reproject(failures)
    BY DEF Next, Reprojecting, Analyze, Dispose, Apply, PersistLedger, PersistManifest, Crash
  <2>2. manifest' = demote_and_reproject(manifest, failures)
    BY <2>1 DEF Reproject, Reprojecting
  <2>3. IsManifest(manifest) /\ manifest.selected = {g \in Globals : manifest.chosen[g] = "localize"}
    BY DEF IInv, Sound
  <2>. QED BY <2>2, <2>3, DemoteLowers
<1>. QED BY <1>1, Invariance, PTL DEF Spec, OnlyLowers

=============================================================================
