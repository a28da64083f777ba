----------------------------- MODULE GosEngine -----------------------------
(***************************************************************************)
(* One diagnosis of the graph-of-states engine: hypotheses are proposed,   *)
(* rounds of experts attach evidence to the best hypothesis of the current *)
(* level, and after every round a state converter reports, refines the     *)
(* hypothesis one level down, backtracks to an ancestor's level, continues *)
(* or gives up (agent/gos_engine, belief).  With `legacy` the older state  *)
(* machine of belief/fsm.go decides instead (state_conversion.enabled).    *)
(*                                                                         *)
(* Scores are notches 0 .. TopScore: what the properties need of the       *)
(* confidence formula is that supporting evidence never lowers a score and *)
(* refuting evidence never raises it.  Refuting evidence is of a strength  *)
(* the report counts as a conflict.  Hypotheses are numbered in the order  *)
(* of their creation, which also breaks ties.                              *)
(***************************************************************************)
EXTENDS Naturals, Sequences, FiniteSets, FiniteSetsExt

CONSTANTS
  GosExperts,       \* expert numbers, in the order of their names
  Goals,            \* evidence goals a plan item may pursue
  Roots,            \* sets of level 1 proposals ingestion may produce
  Findings,         \* what one expert may bring back from a round
  RuleChildren,     \* [label |-> refinement candidates of its rule]
  TopScore, MinConfidence, GapDelta, MinSupport, MaxLevelSteps,
  SessionMaxSteps, MaxPlanItems, MaxHypotheses, RefineDepth, NoProgressLimit

(* What ingestion, experts and rules may propose. *)
Proposals == UNION (Roots \cup {f.refines : f \in Findings}
                      \cup {RuleChildren[l] : l \in DOMAIN RuleChildren})
Labels == {c.label : c \in Proposals}
Items == UNION {f.found : f \in Findings}

(* A proposal holds a hypothesis at least (ingestor.go:137), and a rule a
   child (state_converter.go:221). *)
ASSUME GosAssumption ==
  /\ IsFiniteSet(GosExperts) /\ IsFiniteSet(Goals)
  /\ TopScore \in Nat /\ MinSupport \in Nat
  /\ Proposals \subseteq [label : Labels, score : 0 .. TopScore, actionable : BOOLEAN]
  /\ \A f \in Findings : /\ IsFiniteSet(f.refines) /\ IsFiniteSet(f.found)
                         /\ f.promote \in BOOLEAN
  /\ \A s \in Roots \cup {RuleChildren[l] : l \in DOMAIN RuleChildren} :
        s # {} /\ IsFiniteSet(s)

VARIABLES
  legacy,           \* state_conversion.enabled is off
  stage,            \* "ingest", "plan", "act", "convert", "done"
  graph,            \* [hyps, ev]: the belief graph
  level,            \* fsm.CurrentLevel
  levelSteps,       \* fsm.LevelSteps
  steps,            \* stats.Steps
  called,           \* history.CalledGoalKeys: <<expert, hypothesis, goal>>
  broken,           \* experts all of whose tools are in history.FailedTools
  plan,             \* the items of this round, <<expert, goal>>
  mishap,           \* stats.ExpertDegraded + stats.ExpertFailed is not 0
  idle,             \* noProgressRounds
  report            \* the task result

gosVars == <<legacy, stage, graph, level, levelSteps, steps, called, broken,
             plan, mishap, idle, report>>

NoReport == [status |-> "none", reason |-> "none", hyp |-> 0]
Levels == 1 .. SessionMaxSteps + 1

-----------------------------------------------------------------------------
(* The belief graph *)

ActiveAt(g, l) == {h \in DOMAIN g.hyps : g.hyps[h].active /\ g.hyps[h].level = l}

(* Equal scores are told apart by node id.  The code compares the ids as
   strings, which puts node-10 before node-2; here the earlier one comes first,
   and no property depends on which of them does. *)
Above(g, a, b) == \/ g.hyps[a].score > g.hyps[b].score
                  \/ g.hyps[a].score = g.hyps[b].score /\ a < b

(* extractFrontierInternal: 0 when the level has no active hypothesis. *)
Best(g, l) == IF ActiveAt(g, l) = {} THEN 0
              ELSE CHOOSE h \in ActiveAt(g, l) :
                     \A o \in ActiveAt(g, l) \ {h} : Above(g, h, o)

EvidenceOn(g, h, rel) == {e \in g.ev : e.active /\ e.target = h /\ e.rel = rel}
Supports(g, h) == Cardinality(EvidenceOn(g, h, "support"))

(* The hypotheses above h along its refines edges. *)
Ancestors(g, h) ==
  LET up[x \in DOMAIN g.hyps] ==
        LET p == g.hyps[x].parent IN IF p = 0 THEN {} ELSE {p} \cup up[p]
  IN  up[h]

Children(g, h) == {c \in DOMAIN g.hyps : g.hyps[c].active /\ g.hyps[c].parent = h}

Below(g, root) == {h \in DOMAIN g.hyps : g.hyps[h].active /\ root \in Ancestors(g, h)}

(* backtrack: the subtree and the evidence aimed at it are retracted. *)
WithoutBranchM(g, root) ==
  [g EXCEPT !.hyps = [h \in DOMAIN g.hyps |->
                        IF h \in Below(g, root) THEN [g.hyps[h] EXCEPT !.active = FALSE]
                        ELSE g.hyps[h]]]
WithoutBranch(g, root) ==
  [hyps |-> [h \in DOMAIN g.hyps |->
               IF h \in Below(g, root) THEN [g.hyps[h] EXCEPT !.active = FALSE]
               ELSE g.hyps[h]],
   ev   |-> {IF e.target \in Below(g, root) THEN [e EXCEPT !.active = FALSE] ELSE e
               : e \in g.ev}]

(* validateBeliefGraph: the self-check every update runs before it commits. *)
ValidGraph(g) ==
  /\ \A e \in g.ev : e.target \in DOMAIN g.hyps /\ (e.active => g.hyps[e.target].active)
  /\ \A e, f \in g.ev : e.src = f.src /\ e.target = f.target => e = f
  /\ \A h \in DOMAIN g.hyps :
        LET p == g.hyps[h].parent
        IN  IF p = 0 THEN g.hyps[h].level = 1
            ELSE p \in DOMAIN g.hyps /\ g.hyps[h].level = g.hyps[p].level + 1

(* AddNodeCopy and AddEdgeCopy for a set of candidates under one parent, in
   some order. *)
Added(g, cands, p, l) ==
  LET order == CHOOSE f \in [1 .. Cardinality(cands) -> cands] :
                 \A x, y \in 1 .. Cardinality(cands) : x # y => f[x] # f[y]
      node(c) == [label |-> c.label, level |-> l, parent |-> p, score |-> c.score,
                  active |-> TRUE, actionable |-> c.actionable]
  IN  [g EXCEPT !.hyps = @ \o [x \in 1 .. Cardinality(cands) |-> node(order[x])]]

-----------------------------------------------------------------------------
(* Merging a round's analyses: a is [items of the plan -> Findings].  An item
   is <<expert, goal>>, and analyses are taken in the order of the experts. *)

Before(i, j) == i[1] < j[1] \/ (i[1] = j[1] /\ i[2] < j[2])

Refined(a) == UNION {{<<x, r>> : r \in a[x].refines} : x \in DOMAIN a}
Directional(found) == \E i \in found : i.rel # "neutral"

(* validateGraphProposals and activeAncestorLabels: one rejected proposal
   rejects the round.  Whether a promotion has support is asked beside each
   piece of its evidence, so not of a proposal without any. *)
Acceptable(g, f, a) ==
  LET taken == {g.hyps[h].label : h \in {f} \cup Ancestors(g, f) \cup Children(g, f)}
  IN  /\ g.hyps[f].active
      /\ \A h \in Ancestors(g, f) : g.hyps[h].active
      /\ \A x \in DOMAIN a :
            a[x].refines # {} =>
              /\ g.hyps[f].level < RefineDepth
              /\ \/ Directional(a[x].found)
                 \/ \E rel \in {"support", "refute"} : EvidenceOn(g, f, rel) # {}
      /\ \A p, q \in Refined(a) : p[2].label = q[2].label => p = q
      /\ \A p \in Refined(a) : p[2].label \notin taken
      /\ Cardinality(Refined(a)) <= MaxHypotheses
      /\ \A x \in DOMAIN a :
            a[x].promote => a[x].found = {} \/ \E i \in a[x].found : i.rel = "support"

(* evidenceExists over retracted evidence too; the first expert by name wins
   when two bring the same source. *)
Fresh(g, f, a) ==
  LET known == {e.src : e \in {e \in g.ev : e.target = f}}
      first(x) == {i \in a[x].found :
                     /\ i.src \notin known
                     /\ \A y \in DOMAIN a :
                           Before(y, x) => \A j \in a[y].found : j.src # i.src}
  IN  {[src |-> i.src, target |-> f, rel |-> i.rel, active |-> TRUE]
         : i \in UNION {first(x) : x \in DOMAIN a}}

Scores(s, new) ==
  LET up == \E e \in new : e.rel = "support"
      down == \E e \in new : e.rel = "refute"
  IN  (IF down THEN 0 ELSE s) .. (IF up THEN TopScore ELSE s)

(* updateGraph: the graphs a round may leave; {} when it is not committed. *)
Updates(g, f, a) ==
  LET new == Fresh(g, f, a)
      promoted == g.hyps[f].actionable \/ \E x \in DOMAIN a : a[x].promote
      grown == Added(g, {p[2] : p \in Refined(a)}, f, g.hyps[f].level + 1)
      after(s) == [hyps |-> [grown.hyps EXCEPT ![f].score = s, ![f].actionable = promoted],
                   ev   |-> g.ev \cup new]
  IN  IF ValidGraph(g) /\ Acceptable(g, f, a)
      THEN {h \in {after(s) : s \in Scores(g.hyps[f].score, new)} : ValidGraph(h)}
      ELSE {}

-----------------------------------------------------------------------------
(* Results *)

(* selectReportFrontier: the best hypothesis of the deepest level that has
   one, from the current level up. *)
ReportFrontier(g, l) ==
  LET having == {k \in 1 .. l : ActiveAt(g, k) # {}}
  IN  IF having = {} THEN 0 ELSE Best(g, Max(having))

(* buildEvidenceReport: report.Sufficient. *)
SufficientM(g, h) ==
  /\ h # 0
  /\ Supports(g, h) >= Max({MinSupport, 1})
  /\ g.hyps[h].score >= MinConfidence
  /\ ~mishap
Sufficient(g, h) ==
  /\ h # 0
  /\ Supports(g, h) >= Max({MinSupport, 1})
  /\ g.hyps[h].score >= MinConfidence
  /\ \A x \in {h} \cup Ancestors(g, h) : EvidenceOn(g, x, "refute") = {}
  /\ ~mishap

(* degradedResult. *)
Degraded(reason, g) ==
  /\ stage' = "done"
  /\ report' = [status |-> "degraded", reason |-> reason, hyp |-> ReportFrontier(g, level)]

(* generateReport. *)
Report(g, l) ==
  LET h == ReportFrontier(g, l)
  IN  /\ stage' = "done"
      /\ report' = IF ~ValidGraph(g)
                   THEN [status |-> "degraded", reason |-> "graph_invalid", hyp |-> h]
                   ELSE IF Sufficient(g, h)
                        THEN [status |-> "succeeded", reason |-> "none", hyp |-> h]
                        ELSE [status |-> "degraded", reason |-> "insufficient", hyp |-> h]

-----------------------------------------------------------------------------
(* Run: ingestion, planning, the round *)

GosInit ==
  /\ legacy \in BOOLEAN
  /\ stage = "ingest" /\ graph = [hyps |-> <<>>, ev |-> {}]
  /\ level = 1 /\ levelSteps = [l \in Levels |-> 0] /\ steps = 0
  /\ called = {} /\ broken = {} /\ plan = {} /\ mishap = FALSE /\ idle = 0
  /\ report = NoReport

roundVars == <<levelSteps, steps, called, broken, plan, mishap, idle>>

(* applyIngestProposal, or a context cancelled before it commits. *)
IngestWithOutcome ==
  /\ stage = "ingest"
  /\ \/ \E roots \in Roots : /\ graph' = Added(graph, roots, 0, 1)
                             /\ stage' = "plan" /\ report' = report
     \/ Degraded("ingest_failed", graph) /\ graph' = graph
  /\ UNCHANGED <<legacy, level, roundVars>>

Frontier == Best(graph, level)
OpenItems == {i \in (GosExperts \ broken) \X Goals : <<i[1], Frontier, i[2]>> \notin called}

(* PlanWithContext: the structured plan, or the one item of the fallback; it
   fails when the context is cancelled or no goal is left. *)
PlanRound ==
  /\ stage = "plan" /\ Frontier # 0
  /\ \E items \in SUBSET OpenItems :
        /\ items # {} /\ Cardinality(items) <= MaxPlanItems
        /\ plan' = items
        /\ called' = called \cup {<<i[1], Frontier, i[2]>> : i \in items}
  /\ stage' = "act"
  /\ UNCHANGED <<legacy, graph, level, levelSteps, steps, broken, mishap, idle, report>>

PlanFails ==
  /\ stage = "plan" /\ Frontier # 0
  /\ Degraded("plan_failed", graph)
  /\ UNCHANGED <<legacy, graph, level, roundVars>>

(* extractFrontier found nothing: MarkDone("no frontier") and report. *)
NoFrontier ==
  /\ stage = "plan" /\ Frontier = 0
  /\ Report(graph, level)
  /\ UNCHANGED <<legacy, graph, level, roundVars>>

(* act: nothing usable came back. *)
Barren(a) ==
  \/ \A i \in DOMAIN a : a[i].status = "failed"
  \/ \A i \in DOMAIN a : a[i].status # "succeeded" /\ a[i].found = {}

Charged(a) ==
  /\ mishap' = (mishap \/ \E i \in DOMAIN a : a[i].status # "succeeded")
  /\ broken' = broken \cup {i[1] : i \in {j \in DOMAIN a : a[j].broke}}

(* updateGraph refused the round, or the context was cancelled: degradedResult
   tries the same update again with a context of its own. *)
RoundRejected ==
  /\ stage = "act"
  /\ \E a \in [plan -> Findings], cancelled \in BOOLEAN :
        LET ups == Updates(graph, Frontier, a)
        IN  /\ Charged(a)
            /\ \/ ups = {} /\ graph' = graph
               \/ cancelled /\ graph' \in ups
            /\ Degraded("update_failed", graph')
  /\ UNCHANGED <<legacy, level, levelSteps, steps, called, plan, idle>>

StepsTaken == steps' = steps + 1 /\ levelSteps' = [levelSteps EXCEPT ![level] = @ + 1]

(* The round is merged; then act_failed, no_progress_loop, or on to the
   decision.  progressedFrom: with nothing new in the graph nothing moved. *)
RoundMerged ==
  /\ stage = "act"
  /\ \E a \in [plan -> Findings] :
        /\ graph' \in Updates(graph, Frontier, a)
        /\ Charged(a)
        /\ IF Barren(a)
           THEN Degraded("act_failed", graph') /\ UNCHANGED <<idle, steps, levelSteps>>
           ELSE /\ idle' = IF graph'.ev # graph.ev \/ graph'.hyps # graph.hyps
                           THEN 0 ELSE idle + 1
                /\ IF idle' >= NoProgressLimit
                   THEN Degraded("no_progress_loop", graph') /\ UNCHANGED <<steps, levelSteps>>
                   ELSE StepsTaken /\ stage' = "convert" /\ report' = report
  /\ UNCHANGED <<legacy, level, called, plan>>

-----------------------------------------------------------------------------
(* StateConverter: Decide and Apply *)

Exhausted == steps >= SessionMaxSteps
LevelSpent == levelSteps[level] >= MaxLevelSteps

AncestorAt(l) == {x \in Ancestors(graph, Frontier) : /\ graph.hyps[x].active
                                                    /\ graph.hyps[x].level = l}
OrphanAt == {l \in 1 .. level - 1 : Cardinality(AncestorAt(l)) # 1}
(* checkBacktrack: the levels whose best hypothesis is not the frontier's
   ancestor there. *)
Misplaced == {l \in 1 .. level - 1 : AncestorAt(l) # {Best(graph, l)}}

Contenders == ActiveAt(graph, level) \ {Frontier}
RunnerUp == Max({graph.hyps[h].score : h \in Contenders})
Gap == IF Contenders = {} THEN TopScore ELSE graph.hyps[Frontier].score - RunnerUp
Tied == Contenders # {} /\ Gap = 0
Backed == graph.hyps[Frontier].score >= MinConfidence /\ Supports(graph, Frontier) >= MinSupport
Dominant == ~Tied /\ Backed /\ Contenders # {} /\
            Supports(graph, Frontier) >= MinSupport + Max({Supports(graph, h) : h \in Contenders})
Ambiguous == Tied \/ (Contenders # {} /\ Gap < GapDelta /\ ~Dominant)
Granular == graph.hyps[Frontier].actionable

(* The error branches of Decide: what the graph does not allow. *)
Misstep == IF ~ValidGraph(graph) THEN "invalid_state_conversion_input"
         ELSE IF Frontier = 0 THEN "no_candidates"
         ELSE IF OrphanAt # {} THEN "invalid_refines_ancestry"
         ELSE "none"

Converting == stage = "convert" /\ ~legacy
OnPath == Misstep = "none" /\ Misplaced = {}
resumeVars == <<steps, called, broken, plan, mishap, idle>>

(* An ancestor is no longer the best of its level: retract its branch and go
   back to that level.  Its step count there goes on. *)
Backtrack ==
  /\ Converting /\ (Misstep # "none" \/ Misplaced # {})
  /\ LET l == Max(Misplaced)
         root == CHOOSE x \in AncestorAt(l) : TRUE
         after == WithoutBranch(graph, root)
         kept == UNCHANGED <<graph, level>>
     IN  IF Misstep # "none" THEN Degraded(Misstep, graph) /\ kept
         ELSE IF Exhausted THEN Degraded("budget_exhausted", graph) /\ kept
         ELSE IF ~ValidGraph(after) THEN Degraded("state_conversion_failed", graph) /\ kept
         ELSE graph' = after /\ level' = l /\ stage' = "plan" /\ report' = report
  /\ UNCHANGED <<legacy, levelSteps, resumeVars>>

Conclude ==
  /\ Converting /\ OnPath
  /\ Backed /\ Granular /\ ~Ambiguous
  /\ Report(graph, level)
  /\ UNCHANGED <<legacy, graph, level, roundVars>>

Stay(spent) ==
  IF Exhausted THEN Degraded("budget_exhausted", graph)
  ELSE IF LevelSpent THEN Degraded(spent, graph)
  ELSE stage' = "plan" /\ report' = report

(* Too close to call, or not enough evidence: another round on this level. *)
Continue ==
  /\ Converting /\ OnPath
  /\ \/ Ambiguous /\ Stay("ambiguous_frontier")
     \/ ~Ambiguous /\ ~Backed /\ Stay("level_step_limit")
  /\ UNCHANGED <<legacy, graph, level, roundVars>>

Descended == /\ level' = level + 1
             /\ levelSteps' = [levelSteps EXCEPT ![level + 1] = 0]

(* refineHypothesis: go down to the children it has, or to those its rule
   gives it. *)
Refine ==
  /\ Converting /\ OnPath
  /\ Backed /\ ~Granular /\ ~Ambiguous
  /\ LET label == graph.hyps[Frontier].label
         kids == Children(graph, Frontier)
         after == IF kids # {} THEN graph
                  ELSE Added(graph, RuleChildren[label], Frontier, level + 1)
     IN  IF Exhausted
         THEN Degraded("budget_exhausted", graph) /\ UNCHANGED <<graph, level, levelSteps>>
         ELSE IF level >= RefineDepth
         THEN Degraded("max_depth", graph) /\ UNCHANGED <<graph, level, levelSteps>>
         ELSE IF kids = {} /\ label \notin DOMAIN RuleChildren
         THEN Degraded("no_refinement_rule", graph) /\ UNCHANGED <<graph, level, levelSteps>>
         ELSE IF ~ValidGraph(after) \/ ActiveAt(after, level + 1) = {}
         THEN Degraded("state_conversion_failed", graph) /\ UNCHANGED <<graph, level, levelSteps>>
         ELSE graph' = after /\ Descended /\ stage' = "plan" /\ report' = report
  /\ UNCHANGED <<legacy, resumeVars>>

(* fsm.Decide, when state conversion is off: report or drill down, whether or
   not the next level has any hypothesis. *)
LegacyDecide ==
  /\ stage = "convert" /\ legacy
  /\ LET gap == IF Contenders = {} THEN graph.hyps[Frontier].score ELSE Gap
         reports == LevelSpent \/ (gap >= GapDelta /\ Supports(graph, Frontier) >= MinSupport)
     IN  IF reports /\ Backed
         THEN Report(graph, level) /\ UNCHANGED <<level, levelSteps>>
         ELSE /\ IF reports THEN Descended ELSE UNCHANGED <<level, levelSteps>>
              /\ IF Exhausted THEN Report(graph, level')
                 ELSE stage' = "plan" /\ report' = report
  /\ UNCHANGED <<legacy, graph, resumeVars>>

GosNext ==
  \/ IngestWithOutcome \/ PlanRound \/ PlanFails \/ NoFrontier
  \/ RoundRejected \/ RoundMerged
  \/ Backtrack \/ Conclude \/ Continue \/ Refine \/ LegacyDecide

GosSpec == GosInit /\ [][GosNext]_gosVars

-----------------------------------------------------------------------------
(* Properties *)

(* What the engine does to its own graph always passes the self-check it runs
   (validateBeliefGraph), and a decision it takes can always be carried out: no
   diagnosis ends because of the engine's own book-keeping. *)
SelfChecksHold ==
  /\ ValidGraph(graph)
  /\ report.reason \notin {"graph_invalid", "invalid_state_conversion_input",
                          "no_candidates", "invalid_refines_ancestry",
                          "state_conversion_failed"}

(* A root cause reported as found has the direct support it needs, nothing
   refuting it or a hypothesis it refines, and no expert failed on the way;
   the converter also made sure that it is actionable and that every hypothesis
   above it is the best of its level (Learn/design/gos-optimization-spec.md:323). *)
RootCauseIsBacked ==
  report.status = "succeeded" =>
    LET h == report.hyp
    IN  /\ graph.hyps[h].active /\ ~mishap
        /\ Cardinality({e.src : e \in EvidenceOn(graph, h, "support")}) >= MinSupport
        /\ \A x \in {h} \cup Ancestors(graph, h) : EvidenceOn(graph, x, "refute") = {}
        /\ ~legacy => /\ graph.hyps[h].actionable
                     /\ \A x \in {h} \cup Ancestors(graph, h) :
                           x = Best(graph, graph.hyps[x].level)

=============================================================================
