----------------------------- MODULE DesignLoop -----------------------------
(***************************************************************************)
(* The designs of a project from the prompt to the code: the pipeline that *)
(* puts a design on file and the convergence loop that drives the code to  *)
(* its surface and writes its trail on the design, in the same sessions.   *)
(***************************************************************************)
EXTENDS DesignPipeline, Converge

ASSUME LoopAssumption == Drivers = Sessions /\ Surfaces \subseteq SUBSET Sites

vars == <<baseVars, ruleVars, pipelineVars, convergeVars>>

Init == KnowledgeInit /\ RulesInit /\ PipelineInit /\ ConvergeInit

\* converge_design for a design on file.
Implement(s) ==
    /\ Start(s, "converge")
    /\ \E d \in DOMAIN designs : Converging(s, d, designs[d].surface)
    /\ Become(s, [kind |-> "converge", stage |-> "drive"])
    /\ UNCHANGED <<baseVars, ruleVars, spoils>>

\* _persist: the outcome goes into the meta of the design, whose status it
\* does not touch; a trail that cannot be written is passed over.
Trail(s) == designs' = [designs EXCEPT ![drive[s].design].trail = drive[s].outcome]

Report(s) ==
    /\ drive[s].phase = "report"
    /\ \/ Trail(s) /\ UNCHANGED spoils
       \/ spoils < MaxSpoils /\ spoils' = spoils + 1 /\ UNCHANGED designs
    /\ DriveEnds(s) /\ JobEnds(s)
    /\ UNCHANGED <<knowledgeVars, ruleVars, begun>>

Implementing(s) ==
    /\ Drive(s) \/ ConnectFails(s) \/ CrashedTurn(s)
    /\ UNCHANGED <<baseVars, ruleVars, pipelineVars>>

Session(s) == (Work(s) /\ UNCHANGED convergeVars) \/ Implementing(s) \/ Report(s)

Rest ==
    /\ begun = MaxJobs /\ (\A s \in Sessions : job[s].stage = "idle") /\ writer = {}
    /\ UNCHANGED vars

CommandLine == Curated /\ UNCHANGED convergeVars

Next ==
    \/ \E s \in Sessions :
         \/ Begin(s) /\ UNCHANGED convergeVars
         \/ Implement(s)
         \/ Session(s)
         \/ PromoteFails(s) /\ UNCHANGED convergeVars
         \/ Abandon(s) /\ DriveEnds(s)
    \/ CommandLine
    \/ (Curate \/ AddRule \/ CurateFails) /\ UNCHANGED convergeVars
    \/ EditCode /\ UNCHANGED <<baseVars, ruleVars, pipelineVars>>
    \/ Rest

\* A session that has a job gets on with it: every call it waits for ends,
\* with an answer or an error.  Who holds the lock writes one small file, and
\* a session that waits for it is not passed over for ever: the others who
\* take it are jobs, of which each takes it once for each of its rules, and
\* the user's commands, between which it is free.
Spec ==
    /\ Init /\ [][Next]_vars
    /\ \A s \in Sessions : WF_vars(Session(s))
    /\ \A s \in Sessions : SF_vars(Promote(s) /\ UNCHANGED convergeVars)
    /\ WF_vars(CommandLine)
-----------------------------------------------------------------------------
(* Properties.                                                              *)

Stages == {"idle", "rules", "write", "draft", "audit", "index", "harvest", "file",
           "save", "triage", "seat", "critique", "synthesize", "reconcile",
           "floor", "settle", "evict", "drive"}

LoopTypeOK ==
    /\ RulesTypeOK /\ ConvergeTypeOK
    /\ \A s \in Sessions : job[s].stage \in Stages
    /\ begun \in 0 .. MaxJobs /\ spoils \in 0 .. MaxSpoils

\* A design is on file as final only if a review of its very text flagged
\* nothing that it named; one saddle wrote itself only if the last audit ran
\* on the last body and was clean (design.py:700); none with a conflict the
\* user has to decide (council.py:468).
FinalIsReviewed ==
    \A d \in DOMAIN designs : designs[d].status = "final" =>
        /\ designs[d].verdict \in {"clean", "unnamed"} /\ ~designs[d].forks
        /\ designs[d].by = "saddle" => designs[d].verdict = "clean"

\* "folding can consolidate but can never drop" (orchestrator.py:171): the
\* asks of an orchestration are designed or covered by a goal to come.
EveryAskHasAGoal ==
    \A s \in Sessions : job[s].goals # <<>> =>
        job[s].asks = job[s].done \cup UNION ToSet(job[s].goals)

\* "the two seats are always distinct families" (council.py:104).
PanelIsMixed ==
    \A s \in Sessions : \A a, b \in job[s].panel :
        FamilyOf(a) = FamilyOf(b) => a = b

\* What reaches the design table: reviewed designs, of all the asks, weighed
\* by mixed panels.
DesignsInOrder == LoopTypeOK /\ FinalIsReviewed /\ EveryAskHasAGoal /\ PanelIsMixed

KnowledgeTypeOK ==
    lessons \in [Titles -> Nat] /\ ToSet(Cache) \subseteq Topics /\ IsInjective(Cache)

\* The cache exceeds its cap only by rows whose eviction is still to come or
\* was cut short (dkb.py:380).
CacheIsBounded ==
    Len(Cache) <= CacheMax + spoils + Cardinality({s \in Sessions : job[s].stage = "evict"})

\* A lesson is on file once, but for sessions that read the titles before the
\* others had filed it (design.py:573), and for titles that were too old to be
\* in the list they read (design.py:577).
LessonFiledOnce == \A title \in Titles : lessons[title] <= Cardinality(Sessions) + spoils

\* What a project remembers: no cache beyond its cap, no lesson filed again
\* and again, no rule lost between two promotions (policy.py:297).
MemoryInOrder == KnowledgeTypeOK /\ CacheIsBounded /\ LessonFiledOnce /\ RulesSafe

\* Every job ends: the audit and the revision, the panel and its one
\* reconciliation, the rounds and the retries of the coder are bounded, and
\* the rule file's lock is given back.
EveryJobEnds == \A s \in Sessions : job[s].stage # "idle" ~> job[s].stage = "idle"

\* "Callers settle ONLY an approach that audited clean" (design.py:850).
SettledAuditedClean ==
    \A d \in DOMAIN designs :
        designs[d].by \in {"converged", "council"} => designs[d].verdict = "clean"
=============================================================================
