-------------------------- MODULE DesignLoopProofs --------------------------
(***************************************************************************)
(* Theorems about the designs of a project, for any sessions, asks, rules, *)
(* surfaces and bounds: what the convergence loop reports is what its gate *)
(* found, what is on file as final was reviewed, no ask is dropped, every  *)
(* panel is mixed, no standing rule is lost, and the cache keeps its cap.  *)
(***************************************************************************)
EXTENDS DesignLoop, SelectionProofs

LEMMA Bounds ==
    /\ MaxGoals \in Nat /\ MaxAudits \in Nat /\ MaxLessons \in Nat
    /\ MaxJobs \in Nat /\ MaxSpoils \in Nat
    /\ MaxRounds \in Nat \ {0} /\ StallRepeat \in Nat /\ TurnRetries \in Nat
    /\ IsFiniteSet(Sessions) /\ Sessions # {} /\ IsFiniteSet(Asks)
    /\ Drivers = Sessions /\ Surfaces \subseteq SUBSET Sites
    /\ Preference \in Seq(Callers) /\ CacheMax \in Nat
BY PipelineAssumption, ConvergeAssumption, LoopAssumption, CacheAssumption
   DEF PipelineAssumption, ConvergeAssumption, LoopAssumption, CacheAssumption

-----------------------------------------------------------------------------
(* The convergence loop.                                                   *)

\* What a loop knows: between its gates it has gaps, and the report it is
\* about to write says what its last gate found.
DriveOK(d) ==
    /\ DOMAIN d = DOMAIN NoDrive
    /\ d.phase \in {"idle", "gate", "connect", "turn", "regate", "report"}
    /\ d.surface \subseteq Sites /\ d.gaps \subseteq d.surface
    /\ d.round \in 0 .. MaxRounds /\ d.tries \in 0 .. TurnRetries
    /\ d.outcome \in Outcomes /\ d.fresh \in BOOLEAN
    /\ d.history \in Seq(SUBSET Sites)
    /\ d.phase = "idle" => d = NoDrive
    /\ d.phase = "gate" => d.gaps = {}
    /\ d.phase = "connect" => d.fresh
    /\ d.phase \in {"connect", "turn", "regate"} => d.gaps # {}
    /\ d.phase = "report" =>
          /\ d.outcome \in OkOutcomes => d.surface # {} /\ d.gaps = {} /\ d.fresh
          /\ d.outcome \notin OkOutcomes \union {"no_surface"} => d.gaps # {}
          /\ d.fresh \/ d.outcome \in {"no_surface", "coder_failed"}
          /\ d.outcome = "stalled" => Occurrences(d.history, d.gaps) >= StallRepeat

DriveInv ==
    /\ open \subseteq Sites
    /\ DOMAIN drive = Sessions /\ \A s \in Sessions : DriveOK(drive[s])

LEMMA NoDriveOK == DriveOK(NoDrive)
BY Bounds DEF DriveOK, NoDrive, Outcomes

LEMMA OneDrive ==
    ASSUME DriveInv, NEW s \in Sessions, open' \subseteq Sites,
           DOMAIN drive' = Sessions, \A r \in Sessions \ {s} : drive'[r] = drive[r],
           DriveOK(drive'[s])
    PROVE  DriveInv'
BY DEF DriveInv

LEMMA DriveFields ==
    DOMAIN NoDrive = {"phase", "design", "surface", "gaps", "round", "tries", "history",
                      "fresh", "outcome"}
BY DEF NoDrive

LEMMA FirstGateStep ==
    ASSUME DriveInv, NEW s \in Sessions, FirstGate(s)
    PROVE  DriveInv'
<1> DEFINE d == drive[s]
           e == drive'[s]
<1>1. DriveOK(d) /\ DOMAIN drive = Sessions /\ d.phase = "gate" /\ open' = open
  BY DEF DriveInv, FirstGate
<1>2. DOMAIN d = DOMAIN NoDrive /\ d.gaps = {}
  BY <1>1 DEF DriveOK
<1>3. /\ DOMAIN drive' = Sessions /\ \A r \in Sessions \ {s} : drive'[r] = drive[r]
      /\ DOMAIN e = DOMAIN d
      /\ e.surface = d.surface /\ e.round = d.round /\ e.tries = d.tries
      /\ e.history = d.history
  BY <1>1, <1>2, DriveFields DEF FirstGate, Halt
<1>4. CASE drive[s].surface = {} /\ Halt(s, "no_surface", {})
  <2>1. e.phase = "report" /\ e.outcome = "no_surface" /\ e.gaps = {}
    BY <1>1, <1>2, <1>4, DriveFields DEF Halt
  <2>2. e.fresh = d.fresh
    BY <1>1, <1>2, <1>4, DriveFields DEF Halt
  <2> HIDE DEF e, d
  <2>3. DriveOK(e)
    BY <1>1, <1>2, <1>3, <2>1, <2>2 DEF DriveOK, Outcomes, OkOutcomes
  <2> QED BY <1>1, <1>3, <2>3, OneDrive DEF DriveInv, e
<1>5. CASE /\ drive[s].surface # {} /\ Gate(s) = {}
           /\ drive' = [drive EXCEPT ![s].phase = "report", ![s].fresh = TRUE,
                                     ![s].outcome = "already_satisfied"]
  <2>1. e.phase = "report" /\ e.outcome = "already_satisfied" /\ e.gaps = d.gaps
    BY <1>1, <1>2, <1>5, DriveFields
  <2>2. e.fresh = TRUE
    BY <1>1, <1>2, <1>5, DriveFields
  <2>3. d.surface # {}
    BY <1>5
  <2> HIDE DEF e, d
  <2>4. DriveOK(e)
    BY <1>1, <1>2, <1>3, <2>1, <2>2, <2>3 DEF DriveOK, Outcomes, OkOutcomes
  <2> QED BY <1>1, <1>3, <2>4, OneDrive DEF DriveInv, e
<1>6. CASE /\ Gate(s) # {}
           /\ drive' = [drive EXCEPT ![s].phase = "connect", ![s].gaps = Gate(s),
                                     ![s].fresh = TRUE]
  <2>1. e.phase = "connect" /\ e.outcome = d.outcome /\ e.gaps = Gate(s)
    BY <1>1, <1>2, <1>6, DriveFields
  <2>2. e.fresh = TRUE
    BY <1>1, <1>2, <1>6, DriveFields
  <2>3. Gate(s) # {} /\ Gate(s) \subseteq d.surface
    BY <1>6 DEF Gate
  <2> HIDE DEF e, d
  <2>4. DriveOK(e)
    BY <1>1, <1>2, <1>3, <2>1, <2>2, <2>3 DEF DriveOK
  <2> QED BY <1>1, <1>3, <2>4, OneDrive DEF DriveInv, e
<1> QED BY <1>4, <1>5, <1>6 DEF FirstGate

\* The steps between the gates keep the gaps.
LEMMA BetweenGates ==
    ASSUME DriveInv, NEW s \in Sessions,
           Connect(s) \/ ConnectFails(s) \/ Turn(s) \/ CrashedTurn(s)
    PROVE  DriveInv'
<1> DEFINE d == drive[s]
           e == drive'[s]
<1>1. /\ DriveOK(d) /\ DOMAIN drive = Sessions /\ d.phase \in {"connect", "turn"}
      /\ open' \subseteq Sites
  BY DEF DriveInv, Connect, ConnectFails, Turn, CrashedTurn
<1>2. DOMAIN d = DOMAIN NoDrive /\ d.gaps # {}
  BY <1>1 DEF DriveOK
<1>3. /\ DOMAIN drive' = Sessions /\ \A r \in Sessions \ {s} : drive'[r] = drive[r]
      /\ DOMAIN e = DOMAIN d
      /\ e.surface = d.surface /\ e.gaps = d.gaps /\ e.history = d.history
  BY <1>1, <1>2, DriveFields DEF Connect, ConnectFails, Turn, CrashedTurn, Halt
<1>4. ASSUME DriveOK(e)
      PROVE  DriveInv'
  BY <1>1, <1>3, <1>4, OneDrive
<1>5. CASE Connect(s)
  <2>1. e.phase = "turn" /\ e.outcome = d.outcome /\ e.round = 1 /\ e.tries = d.tries
    BY <1>1, <1>2, <1>5, DriveFields DEF Connect
  <2>2. e.fresh = d.fresh
    BY <1>1, <1>2, <1>5, DriveFields DEF Connect
  <2> HIDE DEF e, d
  <2>3. e.round \in 0 .. MaxRounds
    BY <2>1, Bounds
  <2>4. DriveOK(e)
    BY <1>1, <1>2, <1>3, <2>1, <2>2, <2>3 DEF DriveOK
  <2> QED BY <1>4, <2>4
<1>6. CASE ConnectFails(s)
  <2>1. /\ e.phase = "report" /\ e.outcome = "coder_unavailable" /\ e.round = d.round
        /\ e.tries = d.tries
    BY <1>1, <1>2, <1>6, DriveFields DEF ConnectFails, Halt
  <2>2. e.fresh = TRUE
    BY <1>1, <1>2, <1>6, DriveFields DEF ConnectFails, Halt, DriveOK
  <2> HIDE DEF e, d
  <2>3. DriveOK(e)
    BY <1>1, <1>2, <1>3, <2>1, <2>2 DEF DriveOK, Outcomes, OkOutcomes
  <2> QED BY <1>4, <2>3
<1>7. CASE Turn(s)
  <2>1. e.phase = "regate" /\ e.outcome = d.outcome /\ e.round = d.round /\ e.tries = d.tries
    BY <1>1, <1>2, <1>7, DriveFields DEF Turn
  <2>2. e.fresh = FALSE
    BY <1>1, <1>2, <1>7, DriveFields DEF Turn
  <2> HIDE DEF e, d
  <2>3. DriveOK(e)
    BY <1>1, <1>2, <1>3, <2>1, <2>2 DEF DriveOK
  <2> QED BY <1>4, <2>3
<1>8. CASE CrashedTurn(s) /\ d.tries < TurnRetries
  <2>1. /\ e.phase = "turn" /\ e.outcome = d.outcome /\ e.round = d.round
        /\ e.tries = d.tries + 1
    BY <1>1, <1>2, <1>8, DriveFields DEF CrashedTurn
  <2>2. e.fresh = FALSE
    BY <1>1, <1>2, <1>8, DriveFields DEF CrashedTurn
  <2>3. d.tries < TurnRetries
    BY <1>8
  <2> HIDE DEF e, d
  <2>4. e.tries \in 0 .. TurnRetries
    BY <1>1, <2>1, <2>3, Bounds DEF DriveOK
  <2>5. DriveOK(e)
    BY <1>1, <1>2, <1>3, <2>1, <2>2, <2>4 DEF DriveOK
  <2> QED BY <1>4, <2>5
<1>9. CASE CrashedTurn(s) /\ ~(d.tries < TurnRetries)
  <2>1. /\ e.phase = "report" /\ e.outcome = "coder_failed" /\ e.round = d.round
        /\ e.tries = d.tries
    BY <1>1, <1>2, <1>9, DriveFields DEF CrashedTurn
  <2>2. e.fresh = FALSE
    BY <1>1, <1>2, <1>9, DriveFields DEF CrashedTurn
  <2> HIDE DEF e, d
  <2>3. DriveOK(e)
    BY <1>1, <1>2, <1>3, <2>1, <2>2 DEF DriveOK, Outcomes, OkOutcomes
  <2> QED BY <1>4, <2>3
<1> QED BY <1>5, <1>6, <1>7, <1>8, <1>9

LEMMA RegateStep ==
    ASSUME DriveInv, NEW s \in Sessions, Regate(s)
    PROVE  DriveInv'
<1> DEFINE d == drive[s]
           e == drive'[s]
           after == Gate(s)
           history == Append(drive[s].history, after)
           outcome == IF after = {} THEN "converged"
                      ELSE IF Occurrences(history, after) >= StallRepeat THEN "stalled"
                      ELSE IF drive[s].round = MaxRounds THEN "exhausted"
                      ELSE "none"
<1>1. /\ DriveOK(d) /\ DOMAIN drive = Sessions /\ open' = open /\ open \subseteq Sites
      /\ after \subseteq d.surface
  BY DEF DriveInv, Regate, Gate
<1>2. DOMAIN d = DOMAIN NoDrive /\ d.phase = "regate"
  BY <1>1 DEF DriveOK, Regate
<1>3. drive' = [drive EXCEPT
              ![s].phase = IF outcome = "none" THEN "turn" ELSE "report",
              ![s].round = IF outcome = "none" THEN @ + 1 ELSE @,
              ![s].tries = 0, ![s].fresh = TRUE, ![s].gaps = after,
              ![s].history = history, ![s].outcome = outcome]
  BY DEF Regate
<1>4. /\ outcome \in {"converged", "stalled", "exhausted", "none"}
      /\ outcome = "converged" <=> after = {}
      /\ outcome = "stalled" => Occurrences(history, after) >= StallRepeat
      /\ outcome = "none" => d.round # MaxRounds
  OBVIOUS
<1> HIDE DEF outcome, after
<1>5. /\ DOMAIN drive' = Sessions /\ \A r \in Sessions \ {s} : drive'[r] = drive[r]
      /\ DOMAIN e = DOMAIN d
      /\ e.phase = IF outcome = "none" THEN "turn" ELSE "report"
      /\ e.round = IF outcome = "none" THEN d.round + 1 ELSE d.round
      /\ e.tries = 0 /\ e.gaps = after /\ e.outcome = outcome
      /\ e.surface = d.surface
  BY <1>1, <1>2, <1>3, DriveFields
<1>6. e.fresh = TRUE
  BY <1>1, <1>2, <1>3, DriveFields
<1>7. e.history = history
  BY <1>1, <1>2, <1>3, DriveFields
<1>8. history \in Seq(SUBSET Sites)
  <2>1. d.history \in Seq(SUBSET Sites) /\ after \in SUBSET Sites
    BY <1>1 DEF DriveOK
  <2> QED BY <2>1
<1> HIDE DEF history, e, d
<1>9. e.round \in 0 .. MaxRounds
  BY <1>1, <1>4, <1>5, Bounds DEF DriveOK
<1>10. e.tries \in 0 .. TurnRetries
  BY <1>5, Bounds
<1>11. DriveOK(e)
  BY <1>1, <1>2, <1>4, <1>5, <1>6, <1>7, <1>8, <1>9, <1>10 DEF DriveOK, Outcomes, OkOutcomes
<1> QED BY <1>1, <1>5, <1>11, OneDrive DEF e

LEMMA DriveEndsStep ==
    ASSUME DriveInv, NEW s \in Sessions, DriveEnds(s)
    PROVE  DriveInv'
<1>1. DOMAIN drive' = Sessions /\ drive'[s] = NoDrive
  BY DEF DriveEnds, DriveInv
<1>2. \A r \in Sessions \ {s} : drive'[r] = drive[r]
  BY DEF DriveEnds, DriveInv
<1>3. open' \subseteq Sites
  BY DEF DriveEnds, DriveInv
<1> QED BY <1>1, <1>2, <1>3, NoDriveOK, OneDrive

LEMMA ConvergingStep ==
    ASSUME DriveInv, NEW s \in Sessions, NEW d, NEW surface \in SUBSET Sites,
           Converging(s, d, surface)
    PROVE  DriveInv'
<1> DEFINE e == drive'[s]
<1>1. drive[s] = NoDrive /\ DOMAIN drive = Sessions
  BY DEF DriveInv, DriveOK, Converging
<1>2. /\ DOMAIN drive' = Sessions /\ \A r \in Sessions \ {s} : drive'[r] = drive[r]
      /\ DOMAIN e = DOMAIN NoDrive
      /\ e.phase = "gate" /\ e.surface = surface /\ e.gaps = {} /\ e.round = 0 /\ e.tries = 0
      /\ e.outcome = "none"
  BY <1>1 DEF Converging, NoDrive
<1>3. e.fresh = FALSE
  BY <1>1 DEF Converging, NoDrive
<1>4. e.history = <<>>
  BY <1>1 DEF Converging, NoDrive
<1>5. open' \subseteq Sites
  BY DEF Converging, DriveInv
<1> HIDE DEF e
<1>6. DriveOK(e)
  <2>1. <<>> \in Seq(SUBSET Sites) /\ 0 \in 0 .. MaxRounds /\ 0 \in 0 .. TurnRetries
    BY Bounds
  <2> QED BY <1>2, <1>3, <1>4, <2>1 DEF DriveOK, Outcomes
<1> QED BY <1>2, <1>5, <1>6, OneDrive DEF e

-----------------------------------------------------------------------------
(* The standing rules.                                                     *)

\* Whoever holds the lock carries the whole file in its buffer.
RulesInv ==
    /\ RulesTypeOK /\ RulesSafe
    /\ writer = {} => buffer = {}
    /\ writer # {} => file = {}

LEMMA Truncated ==
    ASSUME RulesInv, NEW w \in Writers, NEW rules \in SUBSET Rules,
           Truncate(w, rules), standing' \subseteq Rules, cut \/ standing' \subseteq rules
    PROVE  RulesInv'
<1> USE DEF RulesInv, RulesTypeOK, RulesSafe
<1>1. writer' = {w} /\ buffer' = rules /\ file' = {} /\ cut' = cut
  BY DEF Truncate
<1>2. RulesTypeOK'
  BY <1>1
<1>3. cut' \/ standing' \subseteq file' \union buffer'
  BY <1>1
<1> QED BY <1>1, <1>2, <1>3

LEMMA RulesWritten ==
    ASSUME RulesInv, NEW w \in Writers, NEW rule \in Rules,
           BeginPromote(w, rule) \/ Promoted(w, rule) \/ BeginDemote(w, rule)
    PROVE  RulesInv'
<1>1. CASE BeginPromote(w, rule) \/ BeginDemote(w, rule)
  <2>1. writer = {} /\ buffer = {} /\ (cut \/ standing \subseteq file)
    BY <1>1 DEF BeginPromote, BeginDemote, Truncate, MayWrite, RulesInv, RulesSafe
  <2>2. file \subseteq Rules /\ standing \subseteq Rules
    BY DEF RulesInv, RulesTypeOK
  <2>3. \/ Truncate(w, file \union {rule}) /\ standing' = standing \union {rule}
        \/ Truncate(w, file \ {rule}) /\ standing' = standing \ {rule}
    BY <1>1 DEF BeginPromote, BeginDemote
  <2>4. /\ file \union {rule} \subseteq Rules /\ file \ {rule} \subseteq Rules
        /\ standing' \subseteq Rules
    BY <2>2, <2>3
  <2>5. /\ cut \/ standing \union {rule} \subseteq file \union {rule}
        /\ cut \/ standing \ {rule} \subseteq file \ {rule}
    BY <2>1
  <2> QED BY <2>3, <2>4, <2>5, Truncated
<1>2. CASE Promoted(w, rule)
  BY <1>2 DEF Promoted, ruleVars, RulesInv, RulesTypeOK, RulesSafe
<1> QED BY <1>1, <1>2

LEMMA RulesLeft ==
    ASSUME RulesInv, (\E w \in Writers : DropLock(w)) \/ UNCHANGED ruleVars
    PROVE  RulesInv'
<1> USE DEF RulesInv, RulesTypeOK, RulesSafe
<1>1. ASSUME NEW w \in Writers, DropLock(w), writer = {w}
      PROVE  RulesInv'
  <2>1. writer' = {} /\ buffer' = {} /\ file' = file /\ standing' = standing
    BY <1>1 DEF DropLock
  <2>2. cut' = TRUE
    BY <1>1 DEF DropLock
  <2> QED BY <2>1, <2>2
<1>2. CASE UNCHANGED ruleVars
  BY <1>2 DEF ruleVars
<1>3. ASSUME NEW w \in Writers, DropLock(w), writer # {w}
      PROVE  UNCHANGED ruleVars
  BY <1>3 DEF DropLock
<1> QED BY <1>1, <1>2, <1>3

-----------------------------------------------------------------------------
(* The jobs of the sessions.                                               *)

Verdicts == {"none", "clean", "unnamed"}

Mixed(panel) == \A a, b \in panel : FamilyOf(a) = FamilyOf(b) => a = b

\* What a job holds when its session has come to a stage.
JobOK(j) ==
    /\ DOMAIN j = DOMAIN NoJob
    /\ j.stage \in Stages
    /\ j.stage = "idle" => j = NoJob
    /\ j.asks \subseteq Asks /\ j.said \subseteq Rules /\ j.surface \subseteq Sites
    /\ j.verdict \in Verdicts /\ j.forks \in BOOLEAN
    /\ j.goals \in Seq(SUBSET Asks)
    /\ j.goals # <<>> => j.asks = j.done \union UNION ToSet(j.goals)
    /\ j.stage \in {"rules", "write"} => j.goals = <<>> /\ j.done = {}
    /\ j.stage \in {"draft", "audit", "index", "save"} => j.goals # <<>>
    /\ j.stage \in {"harvest", "file"} => j.kind = "harvest" \/ j.goals # <<>>
    /\ j.stage = "settle" => j.verdict \in {"clean", "unnamed"}
    /\ j.stage # "floor" => j.forks = FALSE
    /\ j.entries \in Seq(Titles) /\ j.known \subseteq Titles
    /\ Mixed(j.panel)

JobsInv == DOMAIN job = Sessions /\ \A s \in Sessions : JobOK(job[s])

LEMMA JobFields ==
    DOMAIN NoJob = {"kind", "stage", "dry", "asks", "said", "goals", "done", "surface",
                    "verdict", "audits", "flawed", "entries", "known", "body", "panel",
                    "forks", "topic"}
BY DEF NoJob

LEMMA NoJobOK == JobOK(NoJob)
<1>1. <<>> \in Seq(SUBSET Asks) /\ <<>> \in Seq(Titles)
  OBVIOUS
<1> QED BY <1>1 DEF JobOK, NoJob, Stages, Verdicts, Mixed

\* A step of one session.
Others(s) == /\ DOMAIN job' = Sessions
             /\ \A r \in Sessions \ {s} : job'[r] = job[r]

LEMMA OneJob ==
    ASSUME JobsInv, NEW s \in Sessions, Others(s), JobOK(job'[s])
    PROVE  JobsInv'
BY DEF JobsInv, Others

LEMMA Became ==
    ASSUME JobsInv, NEW s \in Sessions, NEW changes, Become(s, changes)
    PROVE  /\ Others(s) /\ DOMAIN job'[s] = DOMAIN NoJob
           /\ \A f \in DOMAIN NoJob :
                 job'[s][f] = IF f \in DOMAIN changes THEN changes[f] ELSE job[s][f]
<1>1. DOMAIN job = Sessions /\ DOMAIN job[s] = DOMAIN NoJob
  BY DEF JobsInv, JobOK
<1> QED BY <1>1 DEF Become, Others

\* The session has come to a stage at which it files no lessons.
MovesOn(s) == JobsInv' /\ Others(s) /\ job'[s].stage # "file"

LEMMA JobEndsStep ==
    ASSUME JobsInv, NEW s \in Sessions, JobEnds(s)
    PROVE  MovesOn(s)
<1>1. DOMAIN job = Sessions
  BY DEF JobsInv
<1>2. Others(s) /\ job'[s] = NoJob
  BY <1>1 DEF JobEnds, Others
<1>3. NoJob.stage # "file"
  BY DEF NoJob
<1> QED BY <1>2, <1>3, NoJobOK, OneJob DEF MovesOn

\* A step that changes no other fields.
Keeps(j, k, fields) == \A f \in DOMAIN NoJob \ fields : k[f] = j[f]

LEMMA Begins ==
    ASSUME JobsInv, NEW s \in Sessions, job[s].stage = "idle",
           NEW kind, NEW stage \in {"triage", "evict", "harvest", "drive"},
           stage = "harvest" => kind = "harvest",
           Become(s, [kind |-> kind, stage |-> stage])
    PROVE  MovesOn(s)
<1> DEFINE k == job'[s]
<1>1. job[s] = NoJob
  BY DEF JobsInv, JobOK
<1>2. Others(s) /\ DOMAIN k = DOMAIN NoJob
  BY Became
<1>3. k.stage = stage /\ k.kind = kind /\ Keeps(NoJob, k, {"kind", "stage"})
  BY <1>1, Became, JobFields DEF Keeps
<1> HIDE DEF k
<1>4. k.forks = FALSE
  BY <1>3, JobFields DEF Keeps, NoJob
<1>5. /\ k.asks = {} /\ k.said = {} /\ k.surface = {} /\ k.verdict = "none"
      /\ k.goals = <<>> /\ k.done = {} /\ k.entries = <<>> /\ k.known = {} /\ k.panel = {}
  BY <1>3, JobFields DEF Keeps, NoJob
<1>6. JobOK(k)
  <2>1. <<>> \in Seq(Titles) /\ <<>> \in Seq(SUBSET Asks)
    OBVIOUS
  <2> QED BY <1>2, <1>3, <1>4, <1>5, <2>1 DEF JobOK, Stages, Verdicts, Mixed
<1>7. k.stage # "file"
  BY <1>1, <1>3, JobFields DEF Keeps
<1> QED BY <1>2, <1>6, <1>7, OneJob DEF k, MovesOn

LEMMA RulesWork ==
    ASSUME JobsInv, NEW s \in Sessions, NEW stage, NEW said,
           job[s].stage \in {"rules", "write"}, stage \in {"rules", "write"},
           said \subseteq job[s].said,
           Become(s, [stage |-> stage, said |-> said])
    PROVE  MovesOn(s)
<1> DEFINE j == job[s]
           k == job'[s]
<1>1. JobOK(j) /\ j.stage \in {"rules", "write"} /\ j.forks = FALSE
  BY DEF JobsInv, JobOK
<1>2. Others(s) /\ DOMAIN k = DOMAIN NoJob
  BY Became
<1>3. /\ k.stage = stage /\ k.said = said /\ said \subseteq j.said
      /\ Keeps(j, k, {"stage", "said"})
  BY Became, JobFields DEF Keeps
<1> HIDE DEF j, k
<1>4. k.forks = FALSE
  BY <1>1, <1>3, JobFields DEF Keeps
<1>5. JobOK(k)
  BY <1>1, <1>2, <1>3, <1>4, JobFields DEF JobOK, Keeps, Stages
<1>6. k.stage # "file"
  BY <1>1, <1>3, JobFields DEF Keeps
<1> QED BY <1>2, <1>5, <1>6, OneJob DEF k, MovesOn

LEMMA RulesPass ==
    ASSUME JobsInv, NEW s \in Sessions, NEW said,
           job[s].stage \in {"rules", "write"}, said \subseteq job[s].said,
           Become(s, [said |-> said])
    PROVE  MovesOn(s)
<1> DEFINE j == job[s]
           k == job'[s]
<1>1. JobOK(j) /\ j.stage \in {"rules", "write"} /\ j.forks = FALSE
  BY DEF JobsInv, JobOK
<1>2. Others(s) /\ DOMAIN k = DOMAIN NoJob
  BY Became
<1>3. /\ k.said = said /\ said \subseteq j.said
      /\ Keeps(j, k, {"said"})
  BY Became, JobFields DEF Keeps
<1> HIDE DEF j, k
<1>4. k.forks = FALSE
  BY <1>1, <1>3, JobFields DEF Keeps
<1>5. JobOK(k)
  BY <1>1, <1>2, <1>3, <1>4, JobFields DEF JobOK, Keeps, Stages
<1>6. k.stage # "file"
  BY <1>1, <1>3, JobFields DEF Keeps
<1> QED BY <1>2, <1>5, <1>6, OneJob DEF k, MovesOn

LEMMA DrawStep ==
    ASSUME JobsInv, NEW s \in Sessions, NEW goals \in Seq(SUBSET Asks),
           job[s].stage = "rules", goals # <<>>, UNION ToSet(goals) = job[s].asks,
           Become(s, [stage |-> "draft", goals |-> goals, said |-> {}])
    PROVE  MovesOn(s)
<1> DEFINE j == job[s]
           k == job'[s]
<1>1. JobOK(j) /\ j.stage = "rules" /\ j.forks = FALSE /\ j.done = {}
  BY DEF JobsInv, JobOK
<1>2. Others(s) /\ DOMAIN k = DOMAIN NoJob
  BY Became
<1>3. /\ k.stage = "draft" /\ k.goals = goals /\ k.said = {} /\ UNION ToSet(goals) = j.asks
      /\ Keeps(j, k, {"stage", "goals", "said"})
  BY Became, JobFields DEF Keeps
<1> HIDE DEF j, k
<1>4. k.forks = FALSE
  BY <1>1, <1>3, JobFields DEF Keeps
<1>5. JobOK(k)
  BY <1>1, <1>2, <1>3, <1>4, JobFields DEF JobOK, Keeps, Stages
<1>6. k.stage # "file"
  BY <1>1, <1>3, JobFields DEF Keeps
<1> QED BY <1>2, <1>5, <1>6, OneJob DEF k, MovesOn

LEMMA DraftStep ==
    ASSUME JobsInv, NEW s \in Sessions, NEW stage, NEW surface \in SUBSET Sites,
           job[s].stage = "draft", stage \in {"index", "audit"},
           Become(s, [stage |-> stage, surface |-> surface])
    PROVE  MovesOn(s)
<1> DEFINE j == job[s]
           k == job'[s]
<1>1. JobOK(j) /\ j.stage = "draft" /\ j.forks = FALSE
  BY DEF JobsInv, JobOK
<1>2. Others(s) /\ DOMAIN k = DOMAIN NoJob
  BY Became
<1>3. /\ k.stage = stage /\ k.surface = surface
      /\ Keeps(j, k, {"stage", "surface"})
  BY Became, JobFields DEF Keeps
<1> HIDE DEF j, k
<1>4. k.forks = FALSE
  BY <1>1, <1>3, JobFields DEF Keeps
<1>5. JobOK(k)
  BY <1>1, <1>2, <1>3, <1>4, JobFields DEF JobOK, Keeps, Stages
<1>6. k.stage # "file"
  BY <1>1, <1>3, JobFields DEF Keeps
<1> QED BY <1>2, <1>5, <1>6, OneJob DEF k, MovesOn

LEMMA ReviseStep ==
    ASSUME JobsInv, NEW s \in Sessions, NEW stage, NEW audits,
           job[s].stage = "audit", stage \in {"index", "audit"},
           Become(s, [stage |-> stage, audits |-> audits, flawed |-> TRUE, verdict |-> "none"])
    PROVE  MovesOn(s)
<1> DEFINE j == job[s]
           k == job'[s]
<1>1. JobOK(j) /\ j.stage = "audit" /\ j.forks = FALSE
  BY DEF JobsInv, JobOK
<1>2. Others(s) /\ DOMAIN k = DOMAIN NoJob
  BY Became
<1>3. /\ k.stage = stage /\ k.verdict = "none"
      /\ Keeps(j, k, {"stage", "audits", "flawed", "verdict"})
  BY Became, JobFields DEF Keeps
<1> HIDE DEF j, k
<1>4. k.forks = FALSE
  BY <1>1, <1>3, JobFields DEF Keeps
<1>5. JobOK(k)
  BY <1>1, <1>2, <1>3, <1>4, JobFields DEF JobOK, Keeps, Stages, Verdicts
<1>6. k.stage # "file"
  BY <1>1, <1>3, JobFields DEF Keeps
<1> QED BY <1>2, <1>5, <1>6, OneJob DEF k, MovesOn

LEMMA PassStep ==
    ASSUME JobsInv, NEW s \in Sessions, NEW verdict \in Verdicts,
           job[s].stage = "audit",
           Become(s, [stage |-> "index", verdict |-> verdict])
    PROVE  MovesOn(s)
<1> DEFINE j == job[s]
           k == job'[s]
<1>1. JobOK(j) /\ j.stage = "audit" /\ j.forks = FALSE
  BY DEF JobsInv, JobOK
<1>2. Others(s) /\ DOMAIN k = DOMAIN NoJob
  BY Became
<1>3. /\ k.stage = "index" /\ k.verdict = verdict
      /\ Keeps(j, k, {"stage", "verdict"})
  BY Became, JobFields DEF Keeps
<1> HIDE DEF j, k
<1>4. k.forks = FALSE
  BY <1>1, <1>3, JobFields DEF Keeps
<1>5. JobOK(k)
  BY <1>1, <1>2, <1>3, <1>4, JobFields DEF JobOK, Keeps, Stages
<1>6. k.stage # "file"
  BY <1>1, <1>3, JobFields DEF Keeps
<1> QED BY <1>2, <1>5, <1>6, OneJob DEF k, MovesOn

LEMMA StageStep ==
    ASSUME JobsInv, NEW s \in Sessions, NEW stage,
           \/ job[s].stage = "index" /\ stage \in {"harvest", "save"}
           \/ job[s].stage = "triage" /\ stage = "seat"
           \/ job[s].stage = "critique" /\ stage = "synthesize"
           \/ job[s].stage = "synthesize" /\ stage = "reconcile"
           \/ job[s].stage = "write" /\ stage = "rules",
           Become(s, [stage |-> stage])
    PROVE  MovesOn(s)
<1> DEFINE j == job[s]
           k == job'[s]
<1>1. /\ JobOK(j) /\ j.forks = FALSE
      /\ j.stage \in {"index", "triage", "critique", "synthesize", "write"}
  BY DEF JobsInv, JobOK
<1>2. Others(s) /\ DOMAIN k = DOMAIN NoJob
  BY Became
<1>3. /\ k.stage = stage
      /\ Keeps(j, k, {"stage"})
  BY Became, JobFields DEF Keeps
<1>4. /\ k.stage \in {"harvest", "save", "seat", "synthesize", "reconcile", "rules"}
      /\ k.stage \in {"harvest", "save"} => j.stage = "index"
      /\ k.stage = "rules" => j.stage = "write"
  BY <1>3
<1> HIDE DEF j, k
<1>5. k.forks = FALSE
  BY <1>1, <1>3, JobFields DEF Keeps
<1>6. JobOK(k)
  BY <1>1, <1>2, <1>3, <1>5, <1>4, JobFields DEF JobOK, Keeps, Stages
<1>7. k.stage # "file"
  BY <1>1, <1>3, JobFields DEF Keeps
<1> QED BY <1>2, <1>6, <1>7, OneJob DEF k, MovesOn

LEMMA LessonsDone ==
    ASSUME JobsInv, NEW s \in Sessions,
           job[s].stage \in {"harvest", "file"}, job[s].kind # "harvest",
           Become(s, [stage |-> "save", entries |-> <<>>, known |-> {}])
    PROVE  MovesOn(s)
<1> DEFINE j == job[s]
           k == job'[s]
<1>1. JobOK(j) /\ j.stage \in {"harvest", "file"} /\ j.kind # "harvest" /\ j.forks = FALSE
  BY DEF JobsInv, JobOK
<1>2. Others(s) /\ DOMAIN k = DOMAIN NoJob
  BY Became
<1>3. /\ k.stage = "save" /\ k.entries = <<>> /\ k.known = {}
      /\ Keeps(j, k, {"stage", "entries", "known"})
  BY Became, JobFields DEF Keeps
<1> HIDE DEF j, k
<1>4. k.forks = FALSE
  BY <1>1, <1>3, JobFields DEF Keeps
<1>5. JobOK(k)
  <2>1. <<>> \in Seq(Titles)
    OBVIOUS
  <2> QED BY <1>1, <1>2, <1>3, <1>4, <2>1, JobFields DEF JobOK, Keeps, Stages
<1>6. k.stage # "file"
  BY <1>1, <1>3, JobFields DEF Keeps
<1> QED BY <1>2, <1>5, <1>6, OneJob DEF k, MovesOn

LEMMA LessonsNamed ==
    ASSUME JobsInv, NEW s \in Sessions, NEW entries \in Seq(Titles), NEW known \in SUBSET Titles,
           job[s].stage = "harvest",
           Become(s, [stage |-> "file", entries |-> entries, known |-> known])
    PROVE  JobsInv' /\ Others(s)
<1> DEFINE j == job[s]
           k == job'[s]
<1>1. JobOK(j) /\ j.stage = "harvest" /\ j.forks = FALSE
  BY DEF JobsInv, JobOK
<1>2. Others(s) /\ DOMAIN k = DOMAIN NoJob
  BY Became
<1>3. /\ k.stage = "file" /\ k.entries = entries /\ k.known = known
      /\ Keeps(j, k, {"stage", "entries", "known"})
  BY Became, JobFields DEF Keeps
<1> HIDE DEF j, k
<1>4. k.forks = FALSE
  BY <1>1, <1>3, JobFields DEF Keeps
<1>5. JobOK(k)
  BY <1>1, <1>2, <1>3, <1>4, JobFields DEF JobOK, Keeps, Stages
<1> QED BY <1>2, <1>5, OneJob DEF k

LEMMA LessonSkipped ==
    ASSUME JobsInv, NEW s \in Sessions, NEW entries \in Seq(Titles),
           job[s].stage = "file",
           Become(s, [entries |-> entries])
    PROVE  JobsInv' /\ Others(s)
<1> DEFINE j == job[s]
           k == job'[s]
<1>1. JobOK(j) /\ j.stage = "file" /\ j.forks = FALSE
  BY DEF JobsInv, JobOK
<1>2. Others(s) /\ DOMAIN k = DOMAIN NoJob
  BY Became
<1>3. /\ k.entries = entries
      /\ Keeps(j, k, {"entries"})
  BY Became, JobFields DEF Keeps
<1> HIDE DEF j, k
<1>4. k.forks = FALSE
  BY <1>1, <1>3, JobFields DEF Keeps
<1>5. JobOK(k)
  BY <1>1, <1>2, <1>3, <1>4, JobFields DEF JobOK, Keeps, Stages
<1> QED BY <1>2, <1>5, OneJob DEF k

LEMMA LessonLearnt ==
    ASSUME JobsInv, NEW s \in Sessions, NEW entries \in Seq(Titles), NEW known \in SUBSET Titles,
           job[s].stage = "file",
           Become(s, [entries |-> entries, known |-> known])
    PROVE  JobsInv' /\ Others(s)
<1> DEFINE j == job[s]
           k == job'[s]
<1>1. JobOK(j) /\ j.stage = "file" /\ j.forks = FALSE
  BY DEF JobsInv, JobOK
<1>2. Others(s) /\ DOMAIN k = DOMAIN NoJob
  BY Became
<1>3. /\ k.entries = entries /\ k.known = known
      /\ Keeps(j, k, {"entries", "known"})
  BY Became, JobFields DEF Keeps
<1> HIDE DEF j, k
<1>4. k.forks = FALSE
  BY <1>1, <1>3, JobFields DEF Keeps
<1>5. JobOK(k)
  BY <1>1, <1>2, <1>3, <1>4, JobFields DEF JobOK, Keeps, Stages
<1> QED BY <1>2, <1>5, OneJob DEF k

LEMMA ToFloor ==
    ASSUME JobsInv, NEW s \in Sessions,
           job[s].stage \in {"triage", "seat", "critique", "synthesize", "reconcile"},
           Become(s, [stage |-> "floor", body |-> "draft", panel |-> {}, forks |-> FALSE])
    PROVE  MovesOn(s)
<1> DEFINE j == job[s]
           k == job'[s]
<1>1. JobOK(j) /\ j.stage # "idle"
  BY DEF JobsInv, JobOK
<1>2. Others(s) /\ DOMAIN k = DOMAIN NoJob
  BY Became
<1>3. /\ k.stage = "floor" /\ k.panel = {}
      /\ Keeps(j, k, {"stage", "body", "panel", "forks"})
  BY Became, JobFields DEF Keeps
<1>4. k.forks = FALSE
  BY Became, JobFields
<1> HIDE DEF j, k
<1>5. k.forks = FALSE
  BY <1>4
<1>6. JobOK(k)
  BY <1>1, <1>2, <1>3, <1>5, JobFields DEF JobOK, Keeps, Stages, Mixed
<1>7. k.stage # "file"
  BY <1>1, <1>3, JobFields DEF Keeps
<1> QED BY <1>2, <1>6, <1>7, OneJob DEF k, MovesOn

LEMMA SynthesisStep ==
    ASSUME JobsInv, NEW s \in Sessions, NEW forks \in BOOLEAN,
           job[s].stage \in {"synthesize", "reconcile"},
           Become(s, [stage |-> "floor", body |-> "synthesis", forks |-> forks])
    PROVE  MovesOn(s)
<1> DEFINE j == job[s]
           k == job'[s]
<1>1. JobOK(j) /\ j.stage # "idle"
  BY DEF JobsInv, JobOK
<1>2. Others(s) /\ DOMAIN k = DOMAIN NoJob
  BY Became
<1>3. /\ k.stage = "floor"
      /\ Keeps(j, k, {"stage", "body", "forks"})
  BY Became, JobFields DEF Keeps
<1>4. k.forks = forks
  BY Became, JobFields
<1> HIDE DEF j, k
<1>5. k.forks \in BOOLEAN
  BY <1>4
<1>6. JobOK(k)
  BY <1>1, <1>2, <1>3, <1>5, JobFields DEF JobOK, Keeps, Stages
<1>7. k.stage # "file"
  BY <1>1, <1>3, JobFields DEF Keeps
<1> QED BY <1>2, <1>6, <1>7, OneJob DEF k, MovesOn

LEMMA SeatStep ==
    ASSUME JobsInv, NEW s \in Sessions, NEW panel,
           job[s].stage = "seat", Mixed(panel),
           Become(s, [stage |-> "critique", panel |-> panel])
    PROVE  MovesOn(s)
<1> DEFINE j == job[s]
           k == job'[s]
<1>1. JobOK(j) /\ j.stage = "seat" /\ j.forks = FALSE
  BY DEF JobsInv, JobOK
<1>2. Others(s) /\ DOMAIN k = DOMAIN NoJob
  BY Became
<1>3. /\ k.stage = "critique" /\ k.panel = panel
      /\ Keeps(j, k, {"stage", "panel"})
  BY Became, JobFields DEF Keeps
<1> HIDE DEF j, k
<1>4. k.forks = FALSE
  BY <1>1, <1>3, JobFields DEF Keeps
<1>5. JobOK(k)
  BY <1>2, <1>3, <1>4, <1>1, JobFields DEF JobOK, Keeps, Stages
<1>6. k.stage # "file"
  BY <1>1, <1>3, JobFields DEF Keeps
<1> QED BY <1>2, <1>5, <1>6, OneJob DEF k, MovesOn

LEMMA FloorStep ==
    ASSUME JobsInv, NEW s \in Sessions, NEW verdict \in {"clean", "unnamed"},
           job[s].stage = "floor", job[s].forks = FALSE,
           Become(s, [stage |-> "settle", verdict |-> verdict])
    PROVE  MovesOn(s)
<1> DEFINE j == job[s]
           k == job'[s]
<1>1. JobOK(j) /\ j.stage = "floor" /\ j.forks = FALSE
  BY DEF JobsInv, JobOK
<1>2. Others(s) /\ DOMAIN k = DOMAIN NoJob
  BY Became
<1>3. /\ k.stage = "settle" /\ k.verdict = verdict
      /\ Keeps(j, k, {"stage", "verdict"})
  BY Became, JobFields DEF Keeps
<1> HIDE DEF j, k
<1>4. k.forks = FALSE
  BY <1>1, <1>3, JobFields DEF Keeps
<1>5. JobOK(k)
  BY <1>1, <1>2, <1>3, <1>4, JobFields DEF JobOK, Keeps, Stages, Verdicts
<1>6. k.stage # "file"
  BY <1>1, <1>3, JobFields DEF Keeps
<1> QED BY <1>2, <1>5, <1>6, OneJob DEF k, MovesOn

LEMMA OrchestrateStep ==
    ASSUME JobsInv, NEW s \in Sessions, NEW asks \in SUBSET Asks, NEW said \in SUBSET Rules,
           NEW dry, job[s] = NoJob,
           Become(s, [kind |-> "orchestrate", stage |-> "rules", asks |-> asks,
                      said |-> said, dry |-> dry])
    PROVE  MovesOn(s)
<1> DEFINE k == job'[s]
<1>1. Others(s) /\ DOMAIN k = DOMAIN NoJob
  BY Became
<1>2. /\ k.stage = "rules" /\ k.asks = asks /\ k.said = said
      /\ Keeps(NoJob, k, {"kind", "stage", "asks", "said", "dry"})
  BY Became, JobFields DEF Keeps
<1> HIDE DEF k
<1>3. k.forks = FALSE
  BY <1>2, JobFields DEF Keeps, NoJob
<1>4. /\ k.surface = {} /\ k.verdict = "none" /\ k.goals = <<>> /\ k.done = {}
      /\ k.entries = <<>> /\ k.known = {} /\ k.panel = {}
  BY <1>2, JobFields DEF Keeps, NoJob
<1>5. JobOK(k)
  <2>1. <<>> \in Seq(Titles) /\ <<>> \in Seq(SUBSET Asks)
    OBVIOUS
  <2> QED BY <1>1, <1>2, <1>3, <1>4, <2>1 DEF JobOK, Stages, Verdicts, Mixed
<1>6. k.stage # "file"
  BY <1>2
<1> QED BY <1>1, <1>5, <1>6, OneJob DEF k, MovesOn

-----------------------------------------------------------------------------
(* The fold of the asks, and the seats of the panel.                       *)

LEMMA SeqOfSet ==
    ASSUME NEW S, IsFiniteSet(S)
    PROVE  /\ Cardinality(S) \in Nat
           /\ SetToSeq(S) \in [1 .. Cardinality(S) -> S]
           /\ \A x \in S : \E k \in 1 .. Cardinality(S) : SetToSeq(S)[k] = x
<1> DEFINE n == Cardinality(S)
           f == SetToSeq(S)
<1>1. n \in Nat /\ ExistsBijection(1 .. n, S)
  BY FS_CardinalityType
<1>2. \E g \in [1 .. n -> S] : IsInjective(g)
  BY <1>1 DEF ExistsBijection, Bijection, Injection, IsInjective
<1>3. f \in [1 .. n -> S] /\ IsInjective(f)
  BY <1>2 DEF SetToSeq
<1> HIDE DEF n, f
<1>4. f \in Injection(1 .. n, S)
  BY <1>3 DEF Injection, IsInjective
<1>5. IsFiniteSet(1 .. n) /\ Cardinality(1 .. n) = n
  BY <1>1, FS_Interval
<1>6. f \in Surjection(1 .. n, S)
  BY <1>4, <1>5, FS_Injection DEF n
<1> QED BY <1>1, <1>3, <1>6 DEF Surjection, n, f

\* What the reply covers and what it leaves are all the asks.
LEMMA FoldedCovers ==
    ASSUME NEW asks \in SUBSET Asks, NEW reply \in Seq(SUBSET asks)
    PROVE  /\ Folded(asks, reply) \in Seq(SUBSET Asks)
           /\ UNION ToSet(Folded(asks, reply)) = asks
<1> DEFINE left == asks \ UNION ToSet(reply)
           goals == Folded(asks, reply)
<1>1. IsFiniteSet(left)
  BY Bounds, FS_Subset
<1>2. /\ Cardinality(left) \in Nat
      /\ SetToSeq(left) \in [1 .. Cardinality(left) -> left]
      /\ \A x \in left : \E k \in 1 .. Cardinality(left) : SetToSeq(left)[k] = x
  BY <1>1, SeqOfSet
<1>3. /\ Alone(left) \in Seq(SUBSET asks) /\ Len(Alone(left)) = Cardinality(left)
      /\ \A k \in 1 .. Cardinality(left) : Alone(left)[k] = {SetToSeq(left)[k]}
  <2>1. Alone(left) = [k \in 1 .. Cardinality(left) |-> {SetToSeq(left)[k]}]
    BY DEF Alone
  <2>2. \A k \in 1 .. Cardinality(left) : {SetToSeq(left)[k]} \in SUBSET asks
    BY <1>2
  <2>3. Alone(left) \in [1 .. Cardinality(left) -> SUBSET asks]
    BY <2>1, <2>2
  <2> HIDE DEF left
  <2>4. Alone(left) \in Seq(SUBSET asks) /\ Len(Alone(left)) = Cardinality(left)
    BY <1>2, <2>3
  <2> QED BY <2>1, <2>4
<1>4. goals = reply \o Alone(left)
  BY DEF Folded
<1> DEFINE alone == Alone(left)
<1>5. alone \in Seq(SUBSET asks) /\ goals = reply \o alone
  BY <1>3, <1>4
<1> HIDE DEF alone, goals
<1>6. /\ goals \in Seq(SUBSET asks) /\ Len(goals) = Len(reply) + Len(alone)
      /\ \A k \in 1 .. Len(reply) : goals[k] = reply[k]
      /\ \A k \in 1 .. Len(alone) : goals[Len(reply) + k] = alone[k]
      /\ Len(reply) \in Nat /\ Len(alone) \in Nat
      /\ DOMAIN goals = 1 .. Len(goals) /\ DOMAIN reply = 1 .. Len(reply)
  BY <1>5
<1>7. goals \in Seq(SUBSET Asks)
  <2>1. \A k \in 1 .. Len(goals) : goals[k] \in SUBSET Asks
    BY <1>6
  <2> QED BY <1>6, <2>1
<1>8. UNION ToSet(goals) \subseteq asks
  BY <1>6 DEF ToSet
<1>9. ASSUME NEW x \in asks
      PROVE  x \in UNION ToSet(goals)
  <2>1. CASE x \in UNION ToSet(reply)
    <3>1. PICK k \in 1 .. Len(reply) : x \in reply[k]
      BY <1>6, <2>1 DEF ToSet
    <3>2. k \in DOMAIN goals /\ x \in goals[k]
      BY <1>6, <3>1
    <3> QED BY <3>2 DEF ToSet
  <2>2. CASE x \in left
    <3>1. PICK k \in 1 .. Cardinality(left) : SetToSeq(left)[k] = x
      BY <1>2, <2>2
    <3>2. x \in alone[k] /\ k \in 1 .. Len(alone)
      BY <1>3, <3>1 DEF alone
    <3>3. Len(reply) + k \in DOMAIN goals /\ x \in goals[Len(reply) + k]
      BY <1>6, <3>2
    <3> QED BY <3>3 DEF ToSet
  <2> QED BY <2>1, <2>2
<1> QED BY <1>7, <1>8, <1>9 DEF goals

\* The first of each family, so no two of one.
LEMMA CriticsAreMixed ==
    ASSUME NEW available
    PROVE  Mixed(Critics(available))
<1> DEFINE first == {k \in Places(available) :
                        \A j \in Places(available) :
                            j < k => FamilyOf(Preference[j]) # FamilyOf(Preference[k])}
<1>1. Places(available) \subseteq Nat
  BY Bounds DEF Places
<1>2. Critics(available) \subseteq {Preference[k] : k \in first}
  BY DEF Critics, FirstTwo
<1>3. ASSUME NEW j \in first, NEW k \in first, FamilyOf(Preference[j]) = FamilyOf(Preference[k])
      PROVE  j = k
  BY <1>1, <1>3
<1> HIDE DEF first
<1> QED BY <1>2, <1>3 DEF Mixed

LEMMA NextDraft ==
    ASSUME JobsInv, NEW s \in Sessions, NEW goals \in Seq(SUBSET Asks), NEW done, NEW head,
           job[s].stage = "save", goals # <<>>, done = job[s].done \union head,
           UNION ToSet(job[s].goals) = head \union UNION ToSet(goals),
           Become(s, [stage |-> "draft", goals |-> goals, done |-> done,
                      verdict |-> "none", audits |-> 0, flawed |-> FALSE])
    PROVE  MovesOn(s)
<1> DEFINE j == job[s]
           k == job'[s]
<1>1. /\ JobOK(j) /\ j.stage = "save" /\ j.forks = FALSE
      /\ j.asks = j.done \union UNION ToSet(j.goals)
  BY DEF JobsInv, JobOK
<1>2. Others(s) /\ DOMAIN k = DOMAIN NoJob
  BY Became
<1>3. /\ k.stage = "draft" /\ k.goals = goals /\ k.done = done /\ k.verdict = "none"
      /\ Keeps(j, k, {"stage", "goals", "done", "verdict", "audits", "flawed"})
  BY Became, JobFields DEF Keeps
<1>4. /\ done = j.done \union head
      /\ UNION ToSet(j.goals) = head \union UNION ToSet(goals)
  OBVIOUS
<1> HIDE DEF j, k
<1>5. k.forks = FALSE
  BY <1>1, <1>3, JobFields DEF Keeps
<1>6. k.asks = k.done \union UNION ToSet(k.goals)
  <2>1. k.asks = j.asks
    BY <1>3, JobFields DEF Keeps
  <2> QED BY <1>1, <1>3, <1>4, <2>1
<1>7. JobOK(k)
  BY <1>1, <1>2, <1>3, <1>5, <1>6, JobFields DEF JobOK, Keeps, Stages, Verdicts
<1>8. k.stage # "file"
  BY <1>1, <1>3, JobFields DEF Keeps
<1> QED BY <1>2, <1>7, <1>8, OneJob DEF k, MovesOn

LEMMA NextGoalStep ==
    ASSUME JobsInv, NEW s \in Sessions, job[s].stage = "save", NextGoal(s)
    PROVE  MovesOn(s)
<1> DEFINE j == job[s]
           left == Tail(j.goals)
<1>1. /\ JobOK(j) /\ j.stage = "save" /\ j.forks = FALSE
      /\ j.goals # <<>> /\ j.goals \in Seq(SUBSET Asks)
      /\ j.asks = j.done \union UNION ToSet(j.goals)
  BY DEF JobsInv, JobOK
<1>2. CASE left = <<>>
  <2>1. JobEnds(s)
    BY <1>2 DEF NextGoal
  <2> QED BY <2>1, JobEndsStep
<1>3. CASE left # <<>>
  <2>1. Become(s, [stage |-> "draft", goals |-> left, done |-> j.done \union Head(j.goals),
                   verdict |-> "none", audits |-> 0, flawed |-> FALSE])
    BY <1>3 DEF NextGoal
  <2>2. /\ left \in Seq(SUBSET Asks)
        /\ UNION ToSet(j.goals) = Head(j.goals) \union UNION ToSet(left)
    <3> DEFINE goals == j.goals
    <3>1. goals \in Seq(SUBSET Asks) /\ goals # <<>>
      BY <1>1
    <3> HIDE DEF goals
    <3>2. /\ Tail(goals) \in Seq(SUBSET Asks) /\ Head(goals) = goals[1]
          /\ Len(goals) \in Nat \ {0} /\ Len(Tail(goals)) = Len(goals) - 1
          /\ \A i \in 1 .. Len(goals) - 1 : Tail(goals)[i] = goals[i + 1]
          /\ DOMAIN goals = 1 .. Len(goals) /\ DOMAIN Tail(goals) = 1 .. Len(goals) - 1
      BY <3>1
    <3>3. ToSet(goals) = {goals[1]} \union ToSet(Tail(goals))
      <4>1. ASSUME NEW i \in 1 .. Len(goals)
            PROVE  goals[i] \in {goals[1]} \union ToSet(Tail(goals))
        <5>1. CASE i = 1
          BY <5>1
        <5>2. CASE i # 1
          <6>1. i - 1 \in 1 .. Len(goals) - 1 /\ (i - 1) + 1 = i
            BY <3>2, <5>2
          <6>2. Tail(goals)[i - 1] = goals[i]
            BY <3>2, <6>1
          <6> QED BY <3>2, <6>1, <6>2 DEF ToSet
        <5> QED BY <5>1, <5>2
      <4>2. ASSUME NEW i \in 1 .. Len(goals) - 1
            PROVE  Tail(goals)[i] \in ToSet(goals)
        <5>1. i + 1 \in 1 .. Len(goals)
          BY <3>2
        <5> QED BY <3>2, <5>1 DEF ToSet
      <4>3. goals[1] \in ToSet(goals)
        <5>1. 1 \in 1 .. Len(goals)
          BY <3>2
        <5> QED BY <3>2, <5>1 DEF ToSet
      <4> QED BY <3>2, <4>1, <4>2, <4>3 DEF ToSet
    <3> QED BY <3>2, <3>3 DEF goals
  <2> QED BY <1>1, <1>3, <2>1, <2>2, NextDraft
<1> QED BY <1>2, <1>3

-----------------------------------------------------------------------------
(* What each action does to the jobs.                                      *)

LEMMA StageOK == ASSUME JobsInv, NEW s \in Sessions PROVE JobOK(job[s])
BY DEF JobsInv

LEMMA SingleAuditMoves ==
    ASSUME JobsInv, NEW s \in Sessions, SingleAudit(s),
           job[s].stage \in {"triage", "seat", "critique", "synthesize", "reconcile"}
    PROVE  MovesOn(s)
BY ToFloor, JobEndsStep DEF SingleAudit

LEMMA AfterLessonsMoves ==
    ASSUME JobsInv, NEW s \in Sessions, AfterLessons(s), job[s].stage \in {"harvest", "file"}
    PROVE  MovesOn(s)
BY LessonsDone, JobEndsStep DEF AfterLessons

LEMMA OrchestrationMoves ==
    ASSUME JobsInv, NEW s \in Sessions, Orchestration(s) \/ PromoteFails(s)
    PROVE  MovesOn(s)
<1>1. ASSUME NEW rule \in job[s].said,
             \/ /\ job[s].stage = "rules"
                /\ Become(s, [stage |-> "write", said |-> job[s].said \ {rule}])
             \/ job[s].stage = "rules" /\ Become(s, [said |-> job[s].said \ {rule}])
      PROVE  MovesOn(s)
  <2> DEFINE said == job[s].said \ {rule}
  <2>1. /\ said \subseteq job[s].said /\ job[s].stage = "rules"
        /\ Become(s, [stage |-> "write", said |-> said]) \/ Become(s, [said |-> said])
    BY <1>1
  <2> HIDE DEF said
  <2> QED BY <2>1, RulesWork, RulesPass
<1>2. CASE Promote(s) \/ Written(s) \/ PromoteFails(s)
  <2>1. \/ job[s].stage = "write" /\ Become(s, [stage |-> "rules"])
        \/ \E rule \in job[s].said :
             \/ /\ job[s].stage = "rules"
                /\ Become(s, [stage |-> "write", said |-> job[s].said \ {rule}])
             \/ job[s].stage = "rules" /\ Become(s, [said |-> job[s].said \ {rule}])
    BY <1>2 DEF Promote, Written, PromoteFails, At, GoTo
  <2> QED BY <1>1, <2>1, StageStep
<1>3. CASE Fold(s)
  <2> DEFINE asks == job[s].asks
  <2>1. job[s].stage = "rules" /\ asks \in SUBSET Asks
    BY <1>3, StageOK DEF Fold, At, JobOK
  <2>2. ASSUME NEW goals \in Seq(SUBSET Asks), Draw(s, goals), UNION ToSet(goals) = asks,
               goals # <<>>
        PROVE  MovesOn(s)
    BY <2>1, <2>2, DrawStep DEF Draw
  <2>3. CASE JobEnds(s)
    BY <2>3, JobEndsStep
  <2>4. CASE Draw(s, <<asks>>)
    <3>1. <<asks>> \in Seq(SUBSET Asks) /\ <<asks>> # <<>>
      BY <2>1
    <3>2. ToSet(<<asks>>) = {asks}
      BY DEF ToSet
    <3>3. UNION ToSet(<<asks>>) = asks
      BY <3>2
    <3> QED BY <2>2, <2>4, <3>1, <3>3
  <2>5. ASSUME Cardinality(asks) > 1, NEW reply \in Replied(asks),
               Draw(s, Folded(asks, reply))
        PROVE  MovesOn(s)
    <3>1. reply \in Seq(SUBSET asks)
      BY Bounds DEF Replied
    <3>2. /\ Folded(asks, reply) \in Seq(SUBSET Asks)
          /\ UNION ToSet(Folded(asks, reply)) = asks
      BY <2>1, <3>1, FoldedCovers
    <3>3. asks # {}
      BY <2>5, FS_EmptySet
    <3>4. Folded(asks, reply) # <<>>
      BY <3>2, <3>3 DEF ToSet
    <3> QED BY <2>2, <2>5, <3>2, <3>4
  <2> QED BY <1>3, <2>3, <2>4, <2>5 DEF Fold
<1> QED BY <1>2, <1>3 DEF Orchestration

LEMMA DesignForMoves ==
    ASSUME JobsInv, NEW s \in Sessions, DesignFor(s)
    PROVE  \/ MovesOn(s)
           \/ (Harvest(s) \/ File(s)) /\ JobsInv' /\ Others(s)
<1>1. CASE Draft(s)
  BY <1>1, DraftStep, Bounds DEF Draft
<1>2. CASE Audit(s)
  BY <1>2, ReviseStep, PassStep DEF Audit, Revise, Verdicts
<1>3. CASE Index(s)
  BY <1>3, StageStep DEF Index, GoTo
<1>4. CASE Harvest(s)
  <2>1. CASE AfterLessons(s)
    BY <1>4, <2>1, AfterLessonsMoves DEF Harvest
  <2>2. ASSUME NEW n \in 1 .. MaxLessons, NEW entries \in [1 .. n -> Titles],
               NEW known \in Listed,
               Become(s, [stage |-> "file", entries |-> entries, known |-> known])
        PROVE  JobsInv' /\ Others(s)
    <3>1. entries \in Seq(Titles)
      BY Bounds
    <3>2. known \in SUBSET Titles
      BY DEF Listed, OnFile
    <3> QED BY <1>4, <2>2, <3>1, <3>2, LessonsNamed DEF Harvest
  <2> QED BY <1>4, <2>1, <2>2 DEF Harvest
<1>5. CASE File(s)
  <2>1. JobOK(job[s]) /\ job[s].stage = "file"
    BY <1>5, StageOK DEF File
  <2>2. CASE job[s].entries = <<>>
    BY <1>5, <2>1, <2>2, AfterLessonsMoves DEF File
  <2>3. CASE job[s].entries # <<>>
    <3> DEFINE entries == job[s].entries
    <3>1. entries \in Seq(Titles) /\ entries # <<>> /\ job[s].known \subseteq Titles
      BY <2>1, <2>3 DEF JobOK
    <3> HIDE DEF entries
    <3>2. Tail(entries) \in Seq(Titles) /\ Head(entries) \in Titles
      BY <3>1
    <3>3. \/ Become(s, [entries |-> Tail(entries)])
          \/ Become(s, [entries |-> Tail(entries),
                        known |-> job[s].known \union {Head(entries)}])
      BY <1>5, <2>3 DEF File, Learn, entries
    <3> QED BY <1>5, <2>1, <3>1, <3>2, <3>3, LessonSkipped, LessonLearnt
  <2> QED BY <2>2, <2>3
<1>6. CASE Save(s)
  BY <1>6, NextGoalStep DEF Save
<1> QED BY <1>1, <1>2, <1>3, <1>4, <1>5, <1>6 DEF DesignFor

LEMMA RoundTripMoves ==
    ASSUME JobsInv, NEW s \in Sessions, RoundTrip(s)
    PROVE  MovesOn(s)
<1>1. CASE Triage(s)
  BY <1>1, SingleAuditMoves, StageStep DEF Triage, GoTo
<1>2. CASE Seat(s)
  BY <1>2, SingleAuditMoves, SeatStep, CriticsAreMixed DEF Seat
<1>3. CASE Critique(s)
  BY <1>3, SingleAuditMoves, StageStep DEF Critique, GoTo
<1>4. CASE Synthesize(s)
  BY <1>4, SingleAuditMoves, SynthesisStep, StageStep DEF Synthesize, Synthesized, GoTo
<1>5. CASE Floor(s)
  <2>1. \/ JobEnds(s)
        \/ /\ ~job[s].forks
           /\ \E verdict \in {"clean", "unnamed"} :
                Become(s, [stage |-> "settle", verdict |-> verdict])
    BY <1>5 DEF Floor
  <2>2. ~job[s].forks => job[s].forks = FALSE
    BY StageOK DEF JobOK
  <2> QED BY <1>5, <2>1, <2>2, JobEndsStep, FloorStep DEF Floor
<1>6. CASE Settle(s)
  BY <1>6, JobEndsStep DEF Settle
<1> QED BY <1>1, <1>2, <1>3, <1>4, <1>5, <1>6 DEF RoundTrip

LEMMA BeginMoves ==
    ASSUME JobsInv, NEW s \in Sessions, Begin(s) \/ Implement(s)
    PROVE  MovesOn(s)
<1>1. CASE Orchestrate(s)
  <2>1. PICK prompt \in PromptsOf(s) :
           Become(s, [kind |-> "orchestrate", stage |-> "rules", asks |-> prompt.asks,
                      said |-> prompt.said, dry |-> prompt.dry])
    BY <1>1 DEF Orchestrate
  <2>2. prompt.asks \subseteq Asks /\ prompt.said \subseteq Rules
    BY <2>1, PipelineAssumption DEF PipelineAssumption
  <2>3. job[s] = NoJob
    BY <1>1, StageOK DEF Orchestrate, Start, JobOK
  <2> QED BY <2>1, <2>2, <2>3, OrchestrateStep
<1>2. CASE Propose(s) \/ Remember(s) \/ HarvestTurn(s) \/ Implement(s)
  <2>1. job[s].stage = "idle"
    BY <1>2 DEF Propose, Remember, HarvestTurn, Implement, Start
  <2>2. \/ \E kind \in {"propose", "council"} :
              Become(s, [kind |-> kind, stage |-> "triage"])
        \/ Become(s, [kind |-> "remember", stage |-> "evict"])
        \/ Become(s, [kind |-> "harvest", stage |-> "harvest"])
        \/ Become(s, [kind |-> "converge", stage |-> "drive"])
    BY <1>2 DEF Propose, Remember, HarvestTurn, Implement
  <2>3. ASSUME NEW kind, NEW stage \in {"triage", "evict", "harvest", "drive"},
               stage = "harvest" => kind = "harvest",
               Become(s, [kind |-> kind, stage |-> stage])
        PROVE  MovesOn(s)
    BY <2>1, <2>3, Begins
  <2> QED BY <2>2, <2>3
<1> QED BY <1>1, <1>2 DEF Begin

\* What the user does on the command line.
Commands == Curated \/ Curate \/ AddRule \/ CurateFails

\* Every action is a step of one session's job or leaves the jobs alone.
LEMMA JobsMove ==
    ASSUME JobsInv, [Next]_vars
    PROVE  \/ \E s \in Sessions : MovesOn(s)
           \/ \E s \in Sessions : (Harvest(s) \/ File(s)) /\ JobsInv' /\ Others(s)
           \/ UNCHANGED job
<1>1. CASE \E s \in Sessions : Work(s) \/ PromoteFails(s)
  BY <1>1, OrchestrationMoves, DesignForMoves, RoundTripMoves, JobEndsStep DEF Work, Bounded
<1>2. CASE \E s \in Sessions : Begin(s) \/ Implement(s)
  BY <1>2, BeginMoves
<1>3. CASE \E s \in Sessions : Report(s) \/ Abandon(s)
  BY <1>3, JobEndsStep DEF Report, Abandon
<1>4. CASE \E s \in Sessions : Implementing(s)
  BY <1>4 DEF Implementing, pipelineVars
<1>5. CASE Commands \/ (EditCode /\ UNCHANGED <<baseVars, ruleVars, pipelineVars>>) \/ Rest
           \/ UNCHANGED vars
  BY <1>5 DEF Commands, Curated, Curate, AddRule, CurateFails,
              Rest, vars, pipelineVars
<1> QED BY <1>1, <1>2, <1>3, <1>4, <1>5 DEF Next, Session, CommandLine, Commands

LEMMA JobsStep ==
    ASSUME JobsInv, [Next]_vars
    PROVE  JobsInv'
<1>1. UNCHANGED job => JobsInv'
  BY DEF JobsInv
<1> QED BY <1>1, JobsMove DEF MovesOn

-----------------------------------------------------------------------------
(* What the steps do to the design table, the lessons and the rules.       *)

DesignTable == [status : {"final", "flagged"}, by : {"saddle", "converged", "council"},
                verdict : Verdicts, forks : BOOLEAN, surface : SUBSET Sites,
                trail : Outcomes]

DesignsInv == designs \in Seq(DesignTable) /\ FinalIsReviewed

LEMMA DesignAdded ==
    ASSUME DesignsInv, NEW d \in DesignTable, AddDesign(d),
           d.status = "final" =>
              /\ d.verdict \in {"clean", "unnamed"} /\ d.forks = FALSE
              /\ d.by = "saddle" => d.verdict = "clean"
    PROVE  DesignsInv'
<1>1. designs' = Append(designs, d) /\ designs \in Seq(DesignTable)
  BY DEF AddDesign, DesignsInv
<1>2. /\ designs' \in Seq(DesignTable) /\ Len(designs') = Len(designs) + 1
      /\ \A i \in 1 .. Len(designs) : designs'[i] = designs[i]
      /\ designs'[Len(designs) + 1] = d
      /\ DOMAIN designs = 1 .. Len(designs) /\ DOMAIN designs' = 1 .. Len(designs) + 1
      /\ Len(designs) \in Nat
  BY <1>1
<1>3. ASSUME NEW i \in DOMAIN designs', designs'[i].status = "final"
      PROVE  /\ designs'[i].verdict \in {"clean", "unnamed"} /\ ~designs'[i].forks
             /\ designs'[i].by = "saddle" => designs'[i].verdict = "clean"
  <2>1. CASE i \in DOMAIN designs
    <3>1. designs'[i] = designs[i]
      BY <1>2, <2>1
    <3> QED BY <1>3, <2>1, <3>1 DEF DesignsInv, FinalIsReviewed
  <2>2. CASE i = Len(designs) + 1
    BY <1>2, <1>3, <2>2
  <2> QED BY <1>2, <2>1, <2>2
<1> QED BY <1>2, <1>3 DEF DesignsInv, FinalIsReviewed

LEMMA DesignIs ==
    ASSUME NEW s \in Sessions, JobOK(job[s]), job[s].forks = FALSE,
           NEW status \in {"final", "flagged"}, NEW by \in {"saddle", "converged", "council"}
    PROVE  /\ Design(s, status, by) \in DesignTable
           /\ Design(s, status, by).status = status /\ Design(s, status, by).by = by
           /\ Design(s, status, by).verdict = job[s].verdict
           /\ Design(s, status, by).forks = FALSE
<1> DEFINE d == Design(s, status, by)
<1>1. /\ d.status = status /\ d.by = by /\ d.verdict = job[s].verdict
  BY DEF Design
<1>2. d.forks = FALSE
  BY DEF Design
<1>3. d \in DesignTable
  <2>1. job[s].verdict \in Verdicts /\ job[s].surface \in SUBSET Sites /\ "none" \in Outcomes
    BY DEF JobOK, Outcomes
  <2>2. d = [status |-> status, by |-> by, verdict |-> job[s].verdict, forks |-> FALSE,
             surface |-> job[s].surface, trail |-> "none"]
    BY DEF Design
  <2> QED BY <2>1, <2>2 DEF DesignTable
<1> QED BY <1>1, <1>2, <1>3

\* A change of its surface or its trail leaves what a design was judged.
LEMMA Rewritten ==
    ASSUME NEW d \in DesignTable, NEW e,
           \/ \E surface \in SUBSET Sites : e = [d EXCEPT !.surface = surface]
           \/ \E outcome \in Outcomes : e = [d EXCEPT !.trail = outcome]
    PROVE  /\ e \in DesignTable /\ e.status = d.status /\ e.by = d.by
           /\ e.verdict = d.verdict /\ e.forks = d.forks
<1>1. e \in DesignTable /\ e.status = d.status /\ e.by = d.by /\ e.verdict = d.verdict
  BY DEF DesignTable
<1>2. e.forks = d.forks
  BY DEF DesignTable
<1> QED BY <1>1, <1>2

LEMMA DesignsStep ==
    ASSUME JobsInv, DesignsInv, DriveInv, [Next]_vars
    PROVE  DesignsInv'
<1>1. ASSUME UNCHANGED designs
      PROVE  DesignsInv'
  BY <1>1 DEF DesignsInv, FinalIsReviewed
<1>2. ASSUME NEW s \in Sessions, Save(s)
      PROVE  DesignsInv'
  <2>1. JobOK(job[s]) /\ job[s].stage = "save" /\ job[s].forks = FALSE
    BY <1>2, StageOK DEF Save, JobOK
  <2> DEFINE status == IF job[s].verdict = "clean" THEN "final" ELSE "flagged"
             d == Design(s, status, "saddle")
  <2>2. \/ UNCHANGED designs
        \/ AddDesign(d)
    BY <1>2 DEF Save
  <2>3. status \in {"final", "flagged"} /\ (status = "final" => job[s].verdict = "clean")
    OBVIOUS
  <2> HIDE DEF status
  <2>4. d \in DesignTable /\ d.status = status /\ d.verdict = job[s].verdict /\ d.forks = FALSE
    BY <2>1, <2>3, DesignIs
  <2> HIDE DEF d
  <2> QED BY <1>1, <2>2, <2>3, <2>4, DesignAdded
<1>3. ASSUME NEW s \in Sessions, Settle(s)
      PROVE  DesignsInv'
  <2>1. /\ JobOK(job[s]) /\ job[s].stage = "settle" /\ job[s].forks = FALSE
        /\ job[s].verdict \in {"clean", "unnamed"}
    BY <1>3, StageOK DEF Settle, JobOK
  <2> DEFINE by == IF job[s].body = "draft" THEN "converged" ELSE "council"
  <2>2. PICK surface \in SUBSET Sites :
           AddDesign([Design(s, "final", by) EXCEPT !.surface = surface])
    BY <1>3, Bounds DEF Settle
  <2>3. by \in {"converged", "council"}
    OBVIOUS
  <2> HIDE DEF by
  <2> DEFINE base == Design(s, "final", by)
             d == [base EXCEPT !.surface = surface]
  <2>4. /\ base \in DesignTable /\ base.by = by /\ base.verdict = job[s].verdict
        /\ base.forks = FALSE
    BY <2>1, <2>3, DesignIs
  <2>5. AddDesign(d)
    BY <2>2
  <2> HIDE DEF base
  <2>6. d \in DesignTable /\ d.by = by /\ d.verdict = job[s].verdict /\ d.forks = FALSE
    BY <2>2, <2>4, Rewritten
  <2> HIDE DEF d
  <2> QED BY <2>1, <2>3, <2>5, <2>6, DesignAdded
<1>4. ASSUME NEW s \in Sessions, Report(s)
      PROVE  DesignsInv'
  <2>1. CASE Trail(s)
    <3>1. drive[s].outcome \in Outcomes
      BY DEF DriveInv, DriveOK
    <3> DEFINE at == drive[s].design
               outcome == drive[s].outcome
    <3>2. designs' = [designs EXCEPT ![at].trail = outcome] /\ outcome \in Outcomes
      BY <2>1, <3>1 DEF Trail
    <3> HIDE DEF at, outcome
    <3>3. designs \in Seq(DesignTable)
      BY DEF DesignsInv
    <3>4. DOMAIN designs' = DOMAIN designs /\ DOMAIN designs = 1 .. Len(designs) /\ Len(designs) \in Nat
      BY <3>2, <3>3
    <3>5. ASSUME NEW i \in DOMAIN designs
          PROVE  /\ designs'[i] \in DesignTable
                 /\ designs'[i].status = designs[i].status /\ designs'[i].by = designs[i].by
                 /\ designs'[i].verdict = designs[i].verdict
                 /\ designs'[i].forks = designs[i].forks
      <4>1. designs[i] \in DesignTable
        BY <3>3
      <4>2. CASE i = at
        <5>1. designs'[i] = [designs[i] EXCEPT !.trail = outcome]
          BY <3>2, <3>3, <3>4, <4>2
        <5> QED BY <3>2, <4>1, <5>1, Rewritten
      <4>3. CASE i # at
        BY <3>2, <3>3, <4>1, <4>3
      <4> QED BY <4>2, <4>3
    <3>6. designs' \in Seq(DesignTable)
      <4>1. designs' = [i \in 1 .. Len(designs) |-> designs'[i]]
        BY <3>2, <3>4
      <4> QED BY <3>4, <3>5, <4>1
    <3>7. FinalIsReviewed'
      BY <3>4, <3>5 DEF DesignsInv, FinalIsReviewed
    <3> QED BY <3>6, <3>7 DEF DesignsInv
  <2> QED BY <1>1, <1>4, <2>1 DEF Report
<1>5. ASSUME NEW s \in Sessions, Work(s) \/ Begin(s) \/ PromoteFails(s) \/ Implement(s),
             ~Save(s), ~Settle(s)
      PROVE  UNCHANGED designs
  <2>1. CASE Orchestration(s) \/ PromoteFails(s)
    BY <2>1 DEF Orchestration, Promote, Written, Fold, PromoteFails, baseVars
  <2>2. CASE DesignFor(s)
    BY <1>5, <2>2 DEF DesignFor, Draft, Audit, Index, Harvest, File, baseVars
  <2>3. CASE RoundTrip(s)
    BY <1>5, <2>3 DEF RoundTrip, Triage, Seat, Critique, Synthesize, Floor, baseVars
  <2>4. CASE Bounded(s) \/ Begin(s) \/ Implement(s)
    BY <2>4 DEF Bounded, Evict, Purge, Begin, Orchestrate, Propose, Remember,
                InsertReference, HarvestTurn, Implement, baseVars
  <2> QED BY <1>5, <2>1, <2>2, <2>3, <2>4 DEF Work
<1>6. ASSUME NEW s \in Sessions, Abandon(s) \/ Implementing(s)
      PROVE  UNCHANGED designs
  BY <1>6 DEF Abandon, Implementing, baseVars
<1>7. CASE Commands \/ (EditCode /\ UNCHANGED <<baseVars, ruleVars, pipelineVars>>) \/ Rest
           \/ UNCHANGED vars
  <2>1. UNCHANGED designs
    BY <1>7 DEF Commands, Curated, Curate, AddRule, CurateFails, Cleanup, Purge, Retire,
                Rest, vars, baseVars
  <2> QED BY <1>1, <2>1
<1> QED BY <1>1, <1>2, <1>3, <1>4, <1>5, <1>6, <1>7 DEF Next, Session, CommandLine, Commands

LEMMA RulesStep ==
    ASSUME JobsInv, RulesInv, [Next]_vars
    PROVE  RulesInv'
<1>0. User \in Writers /\ Sessions \subseteq Writers
  BY DEF Writers
<1>1. ASSUME NEW s \in Sessions, Promote(s)
      PROVE  RulesInv'
  <2>1. job[s].said \subseteq Rules
    BY StageOK DEF JobOK
  <2>2. PICK rule \in job[s].said : BeginPromote(s, rule) \/ Promoted(s, rule)
    BY <1>1 DEF Promote
  <2> QED BY <1>0, <2>1, <2>2, RulesWritten
<1>2. ASSUME NEW w \in Writers, EndWrite(w)
      PROVE  RulesInv'
  <2>1. /\ writer = {w} /\ writer' = {} /\ buffer' = {} /\ file' = buffer
        /\ standing' = standing /\ cut' = cut
    BY <1>2 DEF EndWrite
  <2>2. file = {}
    BY <2>1 DEF RulesInv
  <2>3. RulesTypeOK'
    BY <2>1 DEF RulesInv, RulesTypeOK
  <2>4. cut' \/ standing' \subseteq file' \union buffer'
    BY <2>1, <2>2 DEF RulesInv, RulesSafe
  <2> QED BY <2>1, <2>3, <2>4 DEF RulesInv, RulesSafe
<1>3. ASSUME NEW s \in Sessions, Abandon(s) \/ PromoteFails(s) \/ Written(s)
      PROVE  RulesInv'
  BY <1>0, <1>2, <1>3, RulesLeft DEF Abandon, PromoteFails, Written
<1>4. ASSUME NEW s \in Sessions, Work(s) \/ Begin(s) \/ Implement(s),
             ~Promote(s), ~Written(s)
      PROVE  UNCHANGED ruleVars
  <2>1. CASE Orchestration(s)
    BY <1>4, <2>1 DEF Orchestration, Fold
  <2>2. CASE DesignFor(s)
    BY <2>2 DEF DesignFor, Draft, Audit, Index, Harvest, File, Save
  <2>3. CASE RoundTrip(s)
    BY <2>3 DEF RoundTrip, Triage, Seat, Critique, Synthesize, Floor, Settle
  <2>4. CASE Bounded(s) \/ Begin(s) \/ Implement(s)
    BY <2>4 DEF Bounded, Begin, Orchestrate, Propose, Remember, HarvestTurn, Implement
  <2> QED BY <1>4, <2>1, <2>2, <2>3, <2>4 DEF Work
<1>5. ASSUME NEW s \in Sessions, Report(s) \/ Implementing(s)
      PROVE  UNCHANGED ruleVars
  BY <1>5 DEF Report, Implementing
<1>6. CASE (EditCode /\ UNCHANGED <<baseVars, ruleVars, pipelineVars>>) \/ Rest
           \/ UNCHANGED vars
  <2>1. UNCHANGED ruleVars
    BY <1>6 DEF Rest, vars
  <2> QED BY <2>1, RulesLeft
<1>7. CASE Commands
  <2>1. \/ UNCHANGED ruleVars \/ EndWrite(User) \/ DropLock(User)
        \/ \E rule \in Rules : BeginPromote(User, rule) \/ BeginDemote(User, rule)
    BY <1>7 DEF Commands, Curated, Curate, AddRule, CurateFails
  <2> QED BY <1>0, <1>2, <2>1, RulesLeft, RulesWritten
<1> QED BY <1>1, <1>2, <1>3, <1>4, <1>5, <1>6, <1>7, RulesLeft DEF Next, Session, CommandLine, Commands

BoundsInv == begun \in 0 .. MaxJobs /\ spoils \in 0 .. MaxSpoils

LEMMA BoundsStep ==
    ASSUME BoundsInv, [Next]_vars
    PROVE  BoundsInv' /\ spoils \in Nat /\ spoils' \in Nat /\ spoils <= spoils'
<1> DEFINE Counted == BoundsInv' /\ spoils \in Nat /\ spoils' \in Nat /\ spoils <= spoils'
<1>1. CASE UNCHANGED <<begun, spoils>>
  BY <1>1, Bounds DEF BoundsInv
<1>2. CASE begun < MaxJobs /\ begun' = begun + 1 /\ UNCHANGED spoils
  BY <1>2, Bounds DEF BoundsInv
<1>3. CASE spoils < MaxSpoils /\ spoils' = spoils + 1 /\ UNCHANGED begun
  BY <1>3, Bounds DEF BoundsInv
<1>4. ASSUME NEW s \in Sessions, Begin(s) \/ Implement(s)
      PROVE  Counted
  BY <1>2, <1>4 DEF Begin, Orchestrate, Propose, Remember, InsertReference, HarvestTurn,
                    Start, Implement
<1>5. ASSUME NEW s \in Sessions, Work(s)
      PROVE  Counted
  <2>1. CASE Orchestration(s) \/ Bounded(s)
    BY <1>1, <2>1 DEF Orchestration, Promote, Written, Fold, Bounded
  <2>2. CASE DesignFor(s)
    BY <1>1, <1>3, <2>2 DEF DesignFor, Draft, Audit, Index, Harvest, File, Save
  <2>3. CASE RoundTrip(s)
    BY <1>1, <2>3 DEF RoundTrip, Triage, Seat, Critique, Synthesize, Floor, Settle
  <2> QED BY <1>5, <2>1, <2>2, <2>3 DEF Work
<1>6. ASSUME NEW s \in Sessions, Implementing(s) \/ Report(s)
      PROVE  Counted
  BY <1>1, <1>3, <1>6 DEF Implementing, Report, pipelineVars
<1>7. ASSUME NEW s \in Sessions, PromoteFails(s) \/ Abandon(s)
      PROVE  Counted
  BY <1>1, <1>3, <1>7 DEF PromoteFails, Abandon
<1>8. CASE Commands \/ (EditCode /\ UNCHANGED <<baseVars, ruleVars, pipelineVars>>) \/ Rest
           \/ UNCHANGED vars
  BY <1>1, <1>2, <1>3, <1>8 DEF Commands, Curated, Curate, AddRule, CurateFails,
              Rest, vars, pipelineVars
<1> QED BY <1>4, <1>5, <1>6, <1>7, <1>8 DEF Next, Session, CommandLine, Commands

\* The sessions that may still file a lesson under this title.
Pending(title) == {s \in Sessions : job[s].stage = "file" /\ title \notin job[s].known}

LessonsInv ==
    /\ lessons \in [Titles -> Nat]
    /\ \A title \in Titles :
          lessons[title] + Cardinality(Pending(title)) <= Cardinality(Sessions) + spoils

LEMMA PendingIs ==
    ASSUME NEW P \in SUBSET Sessions
    PROVE  /\ IsFiniteSet(P) /\ Cardinality(P) \in Nat /\ Cardinality(Sessions) \in Nat
           /\ Cardinality(P) <= Cardinality(Sessions)
           /\ \A Q \in SUBSET P : Cardinality(Q) <= Cardinality(P) /\ Cardinality(Q) \in Nat
           /\ \A s \in P : Cardinality(P \ {s}) = Cardinality(P) - 1
           /\ \A s : Cardinality(P \union {s}) <= Cardinality(P) + 1
<1>1. /\ IsFiniteSet(P) /\ Cardinality(P) \in Nat /\ Cardinality(Sessions) \in Nat
      /\ Cardinality(P) <= Cardinality(Sessions)
  BY Bounds, FS_Subset, FS_CardinalityType
<1>2. \A Q \in SUBSET P : Cardinality(Q) <= Cardinality(P) /\ Cardinality(Q) \in Nat
  BY <1>1, FS_Subset, FS_CardinalityType
<1>3. \A s \in P : Cardinality(P \ {s}) = Cardinality(P) - 1
  BY <1>1, FS_RemoveElement
<1>4. ASSUME NEW s
      PROVE  Cardinality(P \union {s}) <= Cardinality(P) + 1
  <2>1. CASE s \in P
    <3>1. P \union {s} = P
      BY <2>1
    <3>2. Cardinality(P \union {s}) = Cardinality(P)
      BY <3>1
    <3> QED BY <1>1, <3>2
  <2>2. CASE s \notin P
    <3>1. Cardinality(P \union {s}) = Cardinality(P) + 1
      BY <1>1, <2>2, FS_AddElement
    <3> DEFINE m == Cardinality(P \union {s})
    <3>2. m = Cardinality(P) + 1 /\ Cardinality(P) \in Nat
      BY <1>1, <3>1
    <3> HIDE DEF m
    <3>3. m <= Cardinality(P) + 1
      BY <3>2
    <3> QED BY <3>3 DEF m
  <2> QED BY <2>1, <2>2
<1> QED BY <1>1, <1>2, <1>3, <1>4

LEMMA PendingFalls ==
    ASSUME LessonsInv, lessons' \in [Titles -> Nat],
           spoils \in Nat, spoils' \in Nat, spoils <= spoils',
           \A title \in Titles :
              /\ lessons'[title] <= lessons[title]
              /\ \/ Pending(title)' \subseteq Pending(title)
                 \/ lessons'[title] = 0
                 \/ /\ spoils' = spoils + 1
                    /\ \E s \in Sessions : Pending(title)' \subseteq Pending(title) \union {s}
    PROVE  LessonsInv'
<1>1. ASSUME NEW title \in Titles
      PROVE  lessons'[title] + Cardinality(Pending(title)') <= Cardinality(Sessions) + spoils'
  <2> DEFINE P == Pending(title)
             Q == Pending(title)'
  <2>1. P \in SUBSET Sessions /\ Q \in SUBSET Sessions
    BY DEF Pending
  <2>2. /\ lessons'[title] \in Nat /\ lessons[title] \in Nat
        /\ lessons[title] + Cardinality(P) <= Cardinality(Sessions) + spoils
        /\ lessons'[title] <= lessons[title]
    BY DEF LessonsInv
  <2>3. \/ Q \subseteq P \/ lessons'[title] = 0
        \/ spoils' = spoils + 1 /\ \E s \in Sessions : Q \subseteq P \union {s}
    OBVIOUS
  <2> HIDE DEF P, Q
  <2>4. /\ Cardinality(P) \in Nat /\ Cardinality(Q) \in Nat /\ Cardinality(Sessions) \in Nat
        /\ Cardinality(Q) <= Cardinality(Sessions)
    BY <2>1, PendingIs
  <2>5. CASE Q \subseteq P
    <3>1. Cardinality(Q) <= Cardinality(P)
      BY <2>1, <2>5, PendingIs
    <3> QED BY <2>2, <2>4, <3>1 DEF Q
  <2>6. CASE lessons'[title] = 0
    BY <2>4, <2>6 DEF Q
  <2>7. CASE spoils' = spoils + 1 /\ \E s \in Sessions : Q \subseteq P \union {s}
    <3>1. PICK s \in Sessions : Q \subseteq P \union {s}
      BY <2>7
    <3>2. P \union {s} \in SUBSET Sessions /\ Q \in SUBSET (P \union {s})
      BY <2>1, <3>1
    <3>3. Cardinality(Q) <= Cardinality(P \union {s}) /\ Cardinality(P \union {s}) \in Nat
      BY <3>2, PendingIs
    <3>4. Cardinality(P \union {s}) <= Cardinality(P) + 1
      BY <2>1, PendingIs
    <3>5. Cardinality(Q) <= Cardinality(P) + 1
      BY <2>4, <3>3, <3>4
    <3> QED BY <2>2, <2>4, <2>7, <3>5 DEF Q
  <2> QED BY <2>3, <2>5, <2>6, <2>7
<1> QED BY <1>1 DEF LessonsInv

LEMMA MovesOnFiles ==
    ASSUME NEW s \in Sessions, MovesOn(s), NEW title
    PROVE  Pending(title)' \subseteq Pending(title)
BY DEF MovesOn, Others, Pending

LEMMA HarvestLessons ==
    ASSUME JobsInv, LessonsInv, spoils \in Nat, NEW s \in Sessions, Harvest(s)
    PROVE  LessonsInv'
<1>1. lessons' = lessons /\ lessons \in [Titles -> Nat] /\ job[s].stage = "harvest"
  BY DEF Harvest, baseVars, LessonsInv
<1>2. \A title \in Titles : /\ lessons[title] <= lessons[title] /\ lessons[title] \in Nat
                            /\ lessons'[title] = lessons[title]
  BY <1>1
<1>3. CASE AfterLessons(s) /\ UNCHANGED spoils
  <2>1. MovesOn(s)
    BY <1>1, <1>3, AfterLessonsMoves
  <2>2. spoils' \in Nat /\ spoils <= spoils'
    BY <1>3
  <2> QED BY <1>1, <1>2, <2>1, <2>2, MovesOnFiles, PendingFalls
<1>4. ASSUME NEW n \in 1 .. MaxLessons, NEW entries \in [1 .. n -> Titles],
             NEW known \in Listed,
             Become(s, [stage |-> "file", entries |-> entries, known |-> known]),
             \/ known = OnFile /\ UNCHANGED spoils
             \/ spoils' = spoils + 1
      PROVE  LessonsInv'
  <2>1. Others(s) /\ job'[s].known = known
    BY <1>4, Became, JobFields
  <2>2. CASE known = OnFile /\ UNCHANGED spoils
    <3>1. ASSUME NEW title \in Titles, lessons[title] # 0
          PROVE  Pending(title)' \subseteq Pending(title)
      <4>1. title \in OnFile
        BY <1>2, <3>1 DEF OnFile
      <4> QED BY <2>1, <2>2, <4>1 DEF Pending, Others
    <3>2. spoils' \in Nat /\ spoils <= spoils'
      BY <2>2
    <3> QED BY <1>1, <1>2, <3>1, <3>2, PendingFalls
  <2>3. CASE spoils' = spoils + 1
    <3>1. \A title \in Titles : Pending(title)' \subseteq Pending(title) \union {s}
      BY <2>1 DEF Pending, Others
    <3>2. spoils' \in Nat /\ spoils <= spoils'
      BY <2>3
    <3> QED BY <1>1, <1>2, <2>3, <3>1, <3>2, PendingFalls
  <2> QED BY <1>4, <2>2, <2>3
<1> QED BY <1>3, <1>4 DEF Harvest

LEMMA FileLessons ==
    ASSUME JobsInv, LessonsInv, spoils \in Nat, NEW s \in Sessions, File(s)
    PROVE  LessonsInv'
<1>0. spoils' = spoils /\ spoils <= spoils' /\ spoils' \in Nat
  BY DEF File
<1>1. /\ lessons \in [Titles -> Nat] /\ job[s].stage = "file"
      /\ job[s].entries \in Seq(Titles) /\ job[s].known \subseteq Titles
  BY StageOK DEF File, LessonsInv, JobOK
<1>2. \A title \in Titles : lessons[title] <= lessons[title] /\ lessons[title] \in Nat
  BY <1>1
<1>3. CASE job[s].entries = <<>>
  <2>1. MovesOn(s) /\ lessons' = lessons
    BY <1>1, <1>3, AfterLessonsMoves DEF File
  <2> QED BY <1>0, <1>1, <1>2, <2>1, MovesOnFiles, PendingFalls
<1> DEFINE first == Head(job[s].entries)
           left == Tail(job[s].entries)
<1>4. CASE job[s].entries # <<>> /\ first \in job[s].known
  <2>1. lessons' = lessons /\ Become(s, [entries |-> left])
    BY <1>4 DEF File
  <2>2. /\ Others(s)
        /\ job'[s].stage = job[s].stage /\ job'[s].known = job[s].known
    BY <2>1, Became, JobFields
  <2>3. \A t \in Titles : Pending(t)' \subseteq Pending(t)
    BY <2>2 DEF Pending, Others
  <2> QED BY <1>0, <1>1, <1>2, <2>1, <2>3, PendingFalls
<1>5. CASE job[s].entries # <<>> /\ first \notin job[s].known
  <2>1. /\ lessons' = [lessons EXCEPT ![first] = @ + 1]
        /\ Become(s, [entries |-> left, known |-> job[s].known \union {first}])
    BY <1>5 DEF File, Learn, AddLesson
  <2>2. /\ Others(s)
        /\ job'[s].stage = job[s].stage /\ job'[s].known = job[s].known \union {first}
    BY <2>1, Became, JobFields
  <2>3. PICK title \in Titles : title = first /\ title \notin job[s].known
    BY <1>1, <1>5
  <2> HIDE DEF first, left
  <2>4. \A t \in Titles : Pending(t)' \subseteq Pending(t)
    BY <2>2 DEF Pending, Others
  <2>5. s \in Pending(title) /\ s \notin Pending(title)'
    BY <1>1, <2>2, <2>3 DEF Pending
  <2>6. lessons' \in [Titles -> Nat]
    BY <1>1, <2>1, <2>3
  <2>7. ASSUME NEW t \in Titles
        PROVE  lessons'[t] + Cardinality(Pending(t)') <= Cardinality(Sessions) + spoils'
    <3> DEFINE P == Pending(t)
               Q == Pending(t)'
    <3>1. P \in SUBSET Sessions /\ Q \in SUBSET P
      BY <2>4 DEF Pending
    <3>2. lessons[t] \in Nat /\ lessons[t] + Cardinality(P) <= Cardinality(Sessions) + spoils
      BY DEF LessonsInv
    <3>3. /\ t = title => lessons'[t] = lessons[t] + 1
          /\ t # title => lessons'[t] = lessons[t]
      BY <1>1, <2>1, <2>3
    <3>4. t = title => s \in P /\ s \notin Q
      BY <2>5
    <3> HIDE DEF P, Q
    <3>5. /\ Cardinality(P) \in Nat /\ Cardinality(Q) \in Nat /\ Cardinality(Sessions) \in Nat
          /\ Cardinality(Q) <= Cardinality(P)
      BY <3>1, PendingIs
    <3>6. t = title => Cardinality(Q) <= Cardinality(P) - 1
      <4> SUFFICES ASSUME t = title PROVE Cardinality(Q) <= Cardinality(P) - 1
        OBVIOUS
      <4>1. P \ {s} \in SUBSET Sessions /\ Q \in SUBSET (P \ {s}) /\ s \in P
        BY <3>1, <3>4
      <4>2. Cardinality(Q) <= Cardinality(P \ {s})
        BY <4>1, PendingIs
      <4>3. Cardinality(P \ {s}) = Cardinality(P) - 1
        BY <3>1, <4>1, PendingIs
      <4> QED BY <4>2, <4>3
    <3>7. lessons'[t] + Cardinality(Q) <= Cardinality(Sessions) + spoils'
      BY <1>0, <3>2, <3>3, <3>5, <3>6
    <3> QED BY <3>7 DEF Q
  <2> QED BY <2>6, <2>7 DEF LessonsInv
<1> QED BY <1>3, <1>4, <1>5

LEMMA LessonsStep ==
    ASSUME JobsInv, LessonsInv, BoundsInv, [Next]_vars
    PROVE  LessonsInv'
<1>0. spoils \in Nat /\ spoils' \in Nat /\ spoils <= spoils'
  BY BoundsStep
<1>1. CASE \E s \in Sessions : Harvest(s) \/ File(s)
  BY <1>0, <1>1, HarvestLessons, FileLessons
<1>2. CASE \E title \in Titles : Retire(title) /\ UNCHANGED job
  <2>1. PICK title \in Titles : Retire(title) /\ UNCHANGED job
    BY <1>2
  <2>2. lessons \in [Titles -> Nat]
    BY DEF LessonsInv
  <2>3. /\ lessons' \in [Titles -> Nat]
        /\ \A t \in Titles : lessons'[t] <= lessons[t]
    BY <2>1, <2>2 DEF Retire
  <2>4. \A t \in Titles : Pending(t)' \subseteq Pending(t)
    BY <2>1 DEF Pending
  <2> QED BY <1>0, <2>3, <2>4, PendingFalls
<1>3. CASE /\ ~\E s \in Sessions : Harvest(s) \/ File(s)
           /\ ~\E title \in Titles : Retire(title) /\ UNCHANGED job
  <2>1. \A t \in Titles : Pending(t)' \subseteq Pending(t)
    <3>1. (\E s \in Sessions : MovesOn(s)) \/ UNCHANGED job
      BY <1>3, JobsMove
    <3>2. UNCHANGED job => \A t \in Titles : Pending(t)' \subseteq Pending(t)
      BY DEF Pending
    <3> QED BY <3>1, <3>2, MovesOnFiles
  <2>2. lessons' = lessons
    <3>1. ASSUME NEW s \in Sessions, Work(s) \/ Begin(s) \/ Implement(s) \/ PromoteFails(s)
          PROVE  lessons' = lessons
      <4>1. CASE Orchestration(s) \/ PromoteFails(s)
        BY <4>1 DEF Orchestration, Promote, Written, Fold, PromoteFails, baseVars
      <4>2. CASE DesignFor(s)
        BY <1>3, <4>2 DEF DesignFor, Draft, Audit, Index, Save, baseVars, knowledgeVars
      <4>3. CASE RoundTrip(s)
        BY <4>3 DEF RoundTrip, Triage, Seat, Critique, Synthesize, Floor, Settle, baseVars,
                    knowledgeVars
      <4>4. CASE Bounded(s) \/ Begin(s) \/ Implement(s)
        BY <4>4 DEF Bounded, Evict, Purge, Begin, Orchestrate, Propose, Remember,
                    InsertReference, HarvestTurn, Implement, baseVars
      <4> QED BY <3>1, <4>1, <4>2, <4>3, <4>4 DEF Work
    <3>2. ASSUME NEW s \in Sessions, Report(s) \/ Implementing(s) \/ Abandon(s)
          PROVE  lessons' = lessons
      BY <3>2 DEF Report, Implementing, Abandon, baseVars, knowledgeVars
    <3>3. CASE Commands
      BY <1>3, <3>3 DEF Commands, Curated, Curate, AddRule, CurateFails, Cleanup, Purge,
                        baseVars, pipelineVars
    <3>4. CASE (EditCode /\ UNCHANGED <<baseVars, ruleVars, pipelineVars>>) \/ Rest
               \/ UNCHANGED vars
      BY <3>4 DEF Rest, vars, baseVars
    <3> QED BY <3>1, <3>2, <3>3, <3>4 DEF Next, Session, CommandLine, Commands
  <2>3. lessons' \in [Titles -> Nat] /\ \A t \in Titles : lessons'[t] <= lessons[t]
    BY <2>2 DEF LessonsInv
  <2> QED BY <1>0, <2>1, <2>3, PendingFalls
<1> QED BY <1>1, <1>2, <1>3

LEMMA DriveStep ==
    ASSUME DriveInv, DesignsInv, [Next]_vars
    PROVE  DriveInv'
<1>1. ASSUME NEW s \in Sessions, Implement(s)
      PROVE  DriveInv'
  <2>1. PICK d \in DOMAIN designs : Converging(s, d, designs[d].surface)
    BY <1>1 DEF Implement
  <2>2. designs[d].surface \in SUBSET Sites
    <3>1. designs[d] \in DesignTable
      BY DEF DesignsInv
    <3> QED BY <3>1 DEF DesignTable
  <2> QED BY <2>1, <2>2, ConvergingStep
<1>2. ASSUME NEW s \in Sessions, Implementing(s)
      PROVE  DriveInv'
  BY <1>2, FirstGateStep, BetweenGates, RegateStep DEF Implementing, Drive
<1>3. ASSUME NEW s \in Sessions, Report(s) \/ (Abandon(s) /\ DriveEnds(s))
      PROVE  DriveInv'
  BY <1>3, DriveEndsStep DEF Report
<1>4. CASE EditCode
  BY <1>4 DEF EditCode, DriveInv
<1>5. CASE UNCHANGED convergeVars
  BY <1>5 DEF convergeVars, DriveInv
<1>6. CASE Rest \/ UNCHANGED vars
  BY <1>5, <1>6 DEF Rest, vars
<1> QED BY <1>1, <1>2, <1>3, <1>4, <1>5, <1>6 DEF Next, Session, CommandLine, Commands

-----------------------------------------------------------------------------
(* The cache.                                                              *)

Rows == ToSet(unused) \union ToSet(recent)
Evicting == {s \in Sessions : job[s].stage = "evict"}

\* No topic is held twice, and what exceeds the cap is a row whose eviction is
\* to come or was cut short.
CacheInv ==
    /\ unused \in Seq(Topics) /\ IsInjective(unused)
    /\ recent \in Seq(Topics) /\ IsInjective(recent)
    /\ ToSet(unused) \cap ToSet(recent) = {}
    /\ Cardinality(Rows) <= CacheMax + spoils + Cardinality(Evicting)

LEMMA LeftIs ==
    ASSUME NEW T, NEW list \in Seq(T), NEW gone
    PROVE  /\ Left(list, gone) \in Seq(T) /\ ToSet(Left(list, gone)) = ToSet(list) \ gone
           /\ IsInjective(list) => IsInjective(Left(list, gone))
<1> DEFINE S == {k \in DOMAIN list : list[k] \notin gone}
<1>1. S \in SUBSET DOMAIN list /\ {list[k] : k \in S} = ToSet(list) \ gone
  BY DEF ToSet
<1>2. Left(list, gone) = Members(list, S)
  BY DEF Left
<1> HIDE DEF S
<1> QED BY <1>1, <1>2, MembersAre, MembersOnce

\* What is not among the coldest fits.
LEMMA ColdestCut ==
    ASSUME NEW T, NEW list \in Seq(T)
    PROVE  /\ IsFiniteSet(ToSet(list) \ Coldest(list))
           /\ Cardinality(ToSet(list) \ Coldest(list)) <= CacheMax
<1> DEFINE n == Len(list)
           o == Overflow(list)
           I == o + 1 .. n
           R == {list[k] : k \in I}
           f == [k \in I |-> list[k]]
<1>1. n \in Nat /\ DOMAIN list = 1 .. n
  BY SeqIs
<1>2. o \in Nat /\ n - o <= CacheMax /\ o <= n
  BY <1>1, Bounds DEF Overflow
<1>3. ToSet(list) \ Coldest(list) \subseteq R
  <2> HIDE DEF n, o
  <2>1. \A k \in 1 .. n : k \in 1 .. o \/ k \in I
    BY <1>1, <1>2
  <2>2. Coldest(list) = {list[k] : k \in 1 .. o}
    BY DEF Coldest, o
  <2> QED BY <1>1, <2>1, <2>2 DEF ToSet
<1> HIDE DEF n, o
<1>4. IsFiniteSet(I) /\ Cardinality(I) = IF o + 1 > n THEN 0 ELSE n - (o + 1) + 1
  BY <1>1, <1>2, FS_Interval
<1>5. Cardinality(I) <= CacheMax /\ Cardinality(I) \in Nat
  BY <1>1, <1>2, <1>4, Bounds
<1>6. f \in Surjection(I, R)
  BY DEF Surjection
<1> HIDE DEF I, R, f
<1>7. IsFiniteSet(R) /\ Cardinality(R) <= Cardinality(I)
  BY <1>4, <1>6, FS_Surjection
<1>8. /\ IsFiniteSet(ToSet(list) \ Coldest(list))
      /\ Cardinality(ToSet(list) \ Coldest(list)) <= Cardinality(R)
  BY <1>3, <1>7, FS_Subset
<1>9. Cardinality(R) \in Nat /\ Cardinality(ToSet(list) \ Coldest(list)) \in Nat
  BY <1>7, <1>8, FS_CardinalityType
<1> QED BY <1>5, <1>7, <1>8, <1>9, Bounds

\* The rows in the order of eviction.
LEMMA CacheIs ==
    ASSUME CacheInv
    PROVE  /\ Cache \in Seq(Topics) /\ IsInjective(Cache) /\ ToSet(Cache) = Rows
           /\ IsFiniteSet(Rows) /\ Cardinality(Rows) = Len(Cache) /\ Rows \subseteq Topics
<1>1. Cache \in Seq(Topics) /\ IsInjective(Cache) /\ ToSet(Cache) = Rows
  BY ConcatIs, ConcatSets DEF CacheInv, Cache, Rows
<1> QED BY <1>1, SetOfList

\* A step that adds no row and finishes no eviction.
LEMMA CacheKept ==
    ASSUME CacheInv, BoundsInv, BoundsInv', spoils <= spoils',
           Rows' \subseteq Rows, Evicting \subseteq Evicting',
           unused' \in Seq(Topics), IsInjective(unused)', recent' \in Seq(Topics),
           IsInjective(recent)', ToSet(unused') \cap ToSet(recent') = {}
    PROVE  CacheInv'
<1> DEFINE P == Evicting
           Q == Evicting'
           C == Rows
           D == Rows'
<1>1. P \in SUBSET Sessions /\ Q \in SUBSET Sessions /\ P \in SUBSET Q
  BY DEF Evicting
<1>2. IsFiniteSet(C) /\ Cardinality(C) <= CacheMax + spoils + Cardinality(P) /\ D \in SUBSET C
  BY CacheIs DEF CacheInv
<1> HIDE DEF P, Q, C, D
<1>3. Cardinality(P) <= Cardinality(Q) /\ Cardinality(P) \in Nat /\ Cardinality(Q) \in Nat
  BY <1>1, PendingIs
<1>4. Cardinality(D) <= Cardinality(C) /\ Cardinality(D) \in Nat /\ Cardinality(C) \in Nat
  BY <1>2, FS_Subset, FS_CardinalityType
<1>5. spoils \in Nat /\ spoils' \in Nat /\ CacheMax \in Nat
  BY Bounds DEF BoundsInv
<1>6. Cardinality(D) <= CacheMax + spoils' + Cardinality(Q)
  BY <1>2, <1>3, <1>4, <1>5
<1> QED BY <1>6 DEF CacheInv, D, Q

\* A step that cuts the rows down to the cap.
LEMMA CacheCut ==
    ASSUME CacheInv, BoundsInv', NEW gone, Purge(gone), NEW list \in Seq(Topics),
           Rows \ gone \subseteq ToSet(list) \ Coldest(list)
    PROVE  CacheInv'
<1>1. /\ unused' \in Seq(Topics) /\ IsInjective(unused)' /\ recent' \in Seq(Topics)
      /\ IsInjective(recent)'
      /\ ToSet(unused') = ToSet(unused) \ gone /\ ToSet(recent') = ToSet(recent) \ gone
  BY LeftIs DEF CacheInv, Purge
<1>2. ToSet(unused') \cap ToSet(recent') = {}
  BY <1>1 DEF CacheInv
<1> DEFINE D == Rows'
           Q == Evicting'
           L == ToSet(list) \ Coldest(list)
<1>3. D \in SUBSET L
  BY <1>1 DEF Rows
<1>4. Q \in SUBSET Sessions
  BY DEF Evicting
<1>5. IsFiniteSet(L) /\ Cardinality(L) <= CacheMax
  BY ColdestCut
<1> HIDE DEF D, Q, L
<1>6. Cardinality(D) <= Cardinality(L) /\ Cardinality(D) \in Nat /\ Cardinality(L) \in Nat
  BY <1>3, <1>5, FS_Subset, FS_CardinalityType
<1>7. Cardinality(Q) \in Nat /\ spoils' \in Nat /\ CacheMax \in Nat
  BY <1>4, PendingIs, Bounds DEF BoundsInv
<1>8. Cardinality(D) <= CacheMax + spoils' + Cardinality(Q)
  BY <1>5, <1>6, <1>7
<1> QED BY <1>1, <1>2, <1>8 DEF CacheInv, D, Q

LEMMA RecallStep ==
    ASSUME CacheInv, BoundsInv, BoundsInv', spoils <= spoils', Recall,
           Evicting \subseteq Evicting'
    PROVE  CacheInv'
<1>1. PICK found \in SUBSET ToSet(Cache) : \E order \in SetToSeqs(found) :
         unused' = Left(unused, found) /\ recent' = Left(recent, found) \o order
  BY DEF Recall
<1>2. PICK order \in SetToSeqs(found) :
         unused' = Left(unused, found) /\ recent' = Left(recent, found) \o order
  BY <1>1
<1> DEFINE rest == Left(recent, found)
<1>3. found \in SUBSET Rows /\ IsFiniteSet(found)
  BY CacheIs, FS_Subset
<1>4. /\ order \in [1 .. Cardinality(found) -> found]
      /\ \A i, j \in 1 .. Cardinality(found) : i # j => order[i] # order[j]
  BY DEF SetToSeqs
<1>5. Cardinality(found) \in Nat
  BY <1>3, FS_CardinalityType
<1>6. found \subseteq Topics
  BY <1>3, CacheIs
<1>7. order \in Seq(Topics) /\ ToSet(order) \subseteq found /\ IsInjective(order)
  <2>1. DOMAIN order = 1 .. Cardinality(found) /\ \A i \in 1 .. Cardinality(found) : order[i] \in found
    BY <1>4
  <2>2. ToSet(order) \subseteq found /\ IsInjective(order)
    BY <1>4, <2>1 DEF ToSet, IsInjective
  <2>3. order \in Seq(Topics)
    BY <1>4, <1>5, <1>6, <2>1
  <2> QED BY <2>2, <2>3
<1>8. /\ unused' \in Seq(Topics) /\ IsInjective(unused)'
      /\ ToSet(unused') = ToSet(unused) \ found
  BY <1>2, LeftIs DEF CacheInv
<1>9. /\ rest \in Seq(Topics) /\ IsInjective(rest) /\ ToSet(rest) = ToSet(recent) \ found
  BY LeftIs DEF CacheInv
<1>10. recent' = rest \o order
  BY <1>2
<1> HIDE DEF rest
<1>11. ToSet(rest) \cap ToSet(order) = {}
  BY <1>7, <1>9
<1>12. /\ recent' \in Seq(Topics) /\ IsInjective(recent)'
       /\ ToSet(recent') = (ToSet(recent) \ found) \union ToSet(order)
  BY <1>7, <1>9, <1>10, <1>11, ConcatIs, ConcatSets
<1>13. ToSet(unused') \cap ToSet(recent') = {}
  BY <1>7, <1>8, <1>12 DEF CacheInv
<1>14. Rows' \subseteq Rows
  BY <1>3, <1>7, <1>8, <1>12 DEF Rows
<1> QED BY <1>8, <1>12, <1>13, <1>14, CacheKept

\* A step that leaves the rows alone.
LEMMA CacheSame ==
    ASSUME CacheInv, BoundsInv, BoundsInv', spoils <= spoils', UNCHANGED <<unused, recent>>,
           Evicting \subseteq Evicting'
    PROVE  CacheInv'
<1>1. Rows' = Rows /\ IsInjective(unused)' /\ IsInjective(recent)'
  BY DEF Rows, CacheInv
<1> QED BY <1>1, CacheKept DEF CacheInv

LEMMA RememberStep ==
    ASSUME JobsInv, CacheInv, BoundsInv, BoundsInv', NEW s \in Sessions, Remember(s)
    PROVE  CacheInv'
<1>1. PICK topic \in Topics \ ToSet(Cache) :
         /\ InsertReference(topic)
         /\ Become(s, [kind |-> "remember", stage |-> "evict"])
  BY DEF Remember
<1>2. topic \in Topics /\ topic \notin Rows /\ spoils' = spoils
  BY CacheIs DEF Remember
<1>3. /\ unused' = Append(unused, topic) /\ recent' = recent
      /\ Others(s) /\ job'[s].stage = "evict" /\ job[s].stage = "idle"
  BY <1>1, Became, JobFields DEF InsertReference, Remember, Start
<1>4. /\ unused' \in Seq(Topics) /\ IsInjective(unused)'
      /\ ToSet(unused') = ToSet(unused) \union {topic}
  BY <1>2, <1>3, AppendSets DEF CacheInv, Rows
<1>5. ToSet(unused') \cap ToSet(recent') = {}
  BY <1>2, <1>3, <1>4 DEF CacheInv, Rows
<1>6. recent' \in Seq(Topics) /\ IsInjective(recent)'
  BY <1>3 DEF CacheInv
<1> DEFINE P == Evicting
           Q == Evicting'
           C == Rows
           D == Rows'
<1>7. Q \in SUBSET Sessions /\ P = Q \ {s} /\ s \in Q
  BY <1>3 DEF Evicting, Others
<1>8. D = C \union {topic} /\ topic \notin C
  BY <1>2, <1>3, <1>4 DEF Rows
<1>9. IsFiniteSet(C) /\ Cardinality(C) <= CacheMax + spoils + Cardinality(P)
  BY CacheIs DEF CacheInv
<1> HIDE DEF P, Q, C, D
<1>10. Cardinality(P) = Cardinality(Q) - 1 /\ Cardinality(Q) \in Nat
  BY <1>7, PendingIs
<1>11. Cardinality(D) = Cardinality(C) + 1 /\ Cardinality(C) \in Nat
  BY <1>8, <1>9, FS_AddElement, FS_CardinalityType
<1>12. spoils' \in Nat /\ CacheMax \in Nat
  BY Bounds DEF BoundsInv
<1>13. Cardinality(D) <= CacheMax + spoils' + Cardinality(Q)
  BY <1>2, <1>9, <1>10, <1>11, <1>12
<1> QED BY <1>4, <1>5, <1>6, <1>13 DEF CacheInv, D, Q

\* An eviction cut short leaves a row more, and is counted as spoilt.
LEMMA AbandonCache ==
    ASSUME JobsInv, CacheInv, BoundsInv, BoundsInv', NEW s \in Sessions, Abandon(s)
    PROVE  CacheInv'
<1>1. Others(s) /\ spoils' = spoils + 1 /\ UNCHANGED <<unused, recent>>
  BY JobEndsStep DEF Abandon, MovesOn, baseVars
<1> DEFINE P == Evicting
           Q == Evicting'
           C == Rows
<1>2. P \in SUBSET Sessions /\ Q \in SUBSET Sessions /\ P \ {s} \in SUBSET Q
  BY <1>1 DEF Evicting, Others
<1>3. IsFiniteSet(C) /\ Cardinality(C) <= CacheMax + spoils + Cardinality(P)
  BY CacheIs DEF CacheInv
<1> HIDE DEF P, Q, C
<1>4. Cardinality(P) \in Nat /\ Cardinality(Q) \in Nat /\ Cardinality(C) \in Nat
  BY <1>2, <1>3, PendingIs, FS_CardinalityType
<1>5. Cardinality(P) <= Cardinality(Q) + 1
  <2>1. Cardinality(P \ {s}) <= Cardinality(Q)
    BY <1>2, PendingIs
  <2>2. CASE s \in P
    <3>1. Cardinality(P \ {s}) = Cardinality(P) - 1
      BY <1>2, <2>2, PendingIs
    <3> QED BY <1>4, <2>1, <3>1
  <2>3. CASE s \notin P
    <3>1. P \ {s} = P
      BY <2>3
    <3> QED BY <1>4, <2>1, <3>1
  <2> QED BY <2>2, <2>3
<1>6. spoils \in Nat /\ CacheMax \in Nat
  BY Bounds DEF BoundsInv
<1>7. Cardinality(C) <= CacheMax + spoils' + Cardinality(Q)
  BY <1>1, <1>3, <1>4, <1>5, <1>6
<1>8. Cardinality(Rows') <= CacheMax + spoils' + Cardinality(Evicting')
  BY <1>1, <1>7 DEF C, Q, Rows
<1> QED BY <1>1, <1>8 DEF CacheInv

\* A session whose loop runs has no other job.
DriversInv == \A s \in Sessions : drive[s].phase # "idle" => job[s].stage = "drive"

LEMMA WorkIs ==
    ASSUME JobsInv, NEW s \in Sessions, Work(s) \/ PromoteFails(s)
    PROVE  Others(s) /\ job[s].stage # "drive" /\ (job[s].stage = "evict" => Bounded(s))
<1>1. Others(s)
  BY OrchestrationMoves, DesignForMoves, RoundTripMoves, JobEndsStep DEF Work, Bounded, MovesOn
<1>2. CASE Orchestration(s) \/ PromoteFails(s)
  BY <1>1, <1>2 DEF Orchestration, Promote, Written, Fold, PromoteFails, At
<1>3. CASE DesignFor(s)
  BY <1>1, <1>3 DEF DesignFor, Draft, Audit, Index, Harvest, File, Save
<1>4. CASE RoundTrip(s)
  BY <1>1, <1>4 DEF RoundTrip, Triage, Seat, Critique, Synthesize, Floor, Settle
<1>5. CASE Bounded(s)
  BY <1>1, <1>5 DEF Bounded
<1> QED BY <1>2, <1>3, <1>4, <1>5 DEF Work

LEMMA BeginIs ==
    ASSUME JobsInv, NEW s \in Sessions, Begin(s) \/ Implement(s)
    PROVE  Others(s) /\ job[s].stage = "idle"
<1>1. Others(s)
  BY BeginMoves DEF MovesOn
<1> QED BY <1>1 DEF Begin, Orchestrate, Propose, Remember, HarvestTurn, Implement, Start

LEMMA DriversStep ==
    ASSUME JobsInv, DriveInv, DriversInv, [Next]_vars
    PROVE  DriversInv'
<1>1. ASSUME NEW s \in Sessions, Others(s), job[s].stage # "drive", UNCHANGED drive
      PROVE  DriversInv'
  BY <1>1 DEF DriversInv, Others
<1>2. ASSUME NEW s \in Sessions, Work(s) \/ PromoteFails(s) \/ Begin(s), UNCHANGED convergeVars
      PROVE  DriversInv'
  BY <1>1, <1>2, WorkIs, BeginIs DEF convergeVars
<1>3. ASSUME NEW s \in Sessions, Implement(s)
      PROVE  DriversInv'
  <2>1. Others(s) /\ job'[s].stage = "drive"
    BY <1>3, BeginIs, Became, JobFields DEF Implement
  <2>2. \A r \in Sessions \ {s} : drive'[r] = drive[r]
    BY <1>3 DEF Implement, Converging, DriveInv
  <2> QED BY <2>1, <2>2 DEF DriversInv, Others
<1>4. ASSUME NEW s \in Sessions, Implementing(s)
      PROVE  DriversInv'
  <2>1. job' = job
    BY <1>4 DEF Implementing, pipelineVars
  <2>2. drive[s].phase # "idle"
    BY <1>4 DEF Implementing, Drive, FirstGate, Connect, ConnectFails, Turn, CrashedTurn, Regate
  <2>3. \A r \in Sessions \ {s} : drive'[r] = drive[r]
    BY <1>4 DEF Implementing, Drive, FirstGate, Connect, ConnectFails, Turn, CrashedTurn,
                Regate, Halt, DriveInv
  <2> QED BY <2>1, <2>2, <2>3 DEF DriversInv
<1>5. ASSUME NEW s \in Sessions, Others(s), DriveEnds(s)
      PROVE  DriversInv'
  <2>1. drive'[s] = NoDrive /\ \A r \in Sessions \ {s} : drive'[r] = drive[r]
    BY <1>5 DEF DriveEnds, DriveInv
  <2>2. NoDrive.phase = "idle"
    BY DEF NoDrive
  <2> QED BY <1>5, <2>1, <2>2 DEF DriversInv, Others
<1>6. ASSUME NEW s \in Sessions, Report(s) \/ (Abandon(s) /\ DriveEnds(s))
      PROVE  DriversInv'
  <2>1. Others(s) /\ DriveEnds(s)
    BY <1>6, JobEndsStep DEF Report, Abandon, MovesOn
  <2> QED BY <1>5, <2>1
<1>7. CASE (Commands /\ UNCHANGED convergeVars) \/ Rest \/ UNCHANGED vars
           \/ (EditCode /\ UNCHANGED <<baseVars, ruleVars, pipelineVars>>)
  <2>1. UNCHANGED <<job, drive>>
    BY <1>7 DEF Commands, Curated, Curate, AddRule, CurateFails, EditCode, Rest, vars,
                pipelineVars, convergeVars
  <2> QED BY <2>1 DEF DriversInv
<1> QED BY <1>2, <1>3, <1>4, <1>6, <1>7 DEF Next, Session, CommandLine, Commands

LEMMA CacheStep ==
    ASSUME JobsInv, DriversInv, CacheInv, BoundsInv, [Next]_vars
    PROVE  CacheInv'
<1>0. BoundsInv' /\ spoils \in Nat /\ spoils <= spoils'
  BY BoundsStep
<1>1. ASSUME NEW s \in Sessions, Others(s), job[s].stage # "evict"
      PROVE  Evicting \subseteq Evicting'
  BY <1>1 DEF Evicting, Others
<1>2. ASSUME NEW s \in Sessions, Draft(s) \/ Floor(s)
      PROVE  CacheInv'
  <2>1. Recall /\ spoils' = spoils /\ job[s].stage # "evict"
    BY <1>2 DEF Draft, Floor
  <2>2. Others(s)
    BY <1>2, WorkIs DEF Work, DesignFor, RoundTrip
  <2> QED BY <1>0, <1>1, <2>1, <2>2, RecallStep
<1>3. ASSUME NEW s \in Sessions, Bounded(s)
      PROVE  CacheInv'
  <2>1. PICK expired \in SUBSET ToSet(Cache) : Purge(expired \union Coldest(Cache))
    BY <1>3 DEF Bounded, Evict
  <2>2. Cache \in Seq(Topics) /\ ToSet(Cache) = Rows
    BY CacheIs
  <2>3. Rows \ (expired \union Coldest(Cache)) \subseteq ToSet(Cache) \ Coldest(Cache)
    BY <2>2
  <2> QED BY <1>0, <2>1, <2>2, <2>3, CacheCut
<1>4. ASSUME NEW s \in Sessions, Work(s) \/ PromoteFails(s), ~Draft(s), ~Floor(s), ~Bounded(s)
      PROVE  CacheInv'
  <2>1. UNCHANGED <<unused, recent>> /\ spoils <= spoils'
    <3>1. CASE Orchestration(s) \/ PromoteFails(s)
      BY <1>0, <3>1 DEF Orchestration, Promote, Written, Fold, PromoteFails, baseVars
    <3>2. CASE DesignFor(s)
      BY <1>0, <1>4, <3>2 DEF DesignFor, Audit, Index, Harvest, File, Save, baseVars, knowledgeVars
    <3>3. CASE RoundTrip(s)
      BY <1>0, <1>4, <3>3 DEF RoundTrip, Triage, Seat, Critique, Synthesize, Settle, baseVars,
                             knowledgeVars
    <3> QED BY <1>4, <3>1, <3>2, <3>3 DEF Work
  <2>2. Others(s) /\ job[s].stage # "evict"
    BY <1>4, WorkIs
  <2> QED BY <1>0, <1>1, <2>1, <2>2, CacheSame
<1>5. ASSUME NEW s \in Sessions, Begin(s) \/ Implement(s), ~Remember(s)
      PROVE  CacheInv'
  <2>1. UNCHANGED <<unused, recent>> /\ spoils <= spoils'
    BY <1>0, <1>5 DEF Begin, Orchestrate, Propose, HarvestTurn, Implement, baseVars
  <2>2. Others(s) /\ job[s].stage # "evict"
    BY <1>5, BeginIs
  <2> QED BY <1>0, <1>1, <2>1, <2>2, CacheSame
<1>6. ASSUME NEW s \in Sessions, Report(s)
      PROVE  CacheInv'
  <2>1. UNCHANGED <<unused, recent>> /\ spoils <= spoils'
    BY <1>0, <1>6 DEF Report, knowledgeVars
  <2>2. Others(s) /\ job[s].stage # "evict"
    BY <1>6, JobEndsStep DEF Report, MovesOn, DriversInv
  <2> QED BY <1>0, <1>1, <2>1, <2>2, CacheSame
<1>7. ASSUME UNCHANGED <<unused, recent, job>>
      PROVE  CacheInv'
  <2>1. Evicting' = Evicting /\ spoils <= spoils'
    BY <1>0, <1>7 DEF Evicting
  <2> QED BY <1>0, <1>7, <2>1, CacheSame
<1>8. CASE Cleanup
  <2>1. PICK expired \in SUBSET ToSet(Cache) :
           Purge(expired \union Coldest(Left(Cache, expired)))
    BY <1>8 DEF Cleanup
  <2> DEFINE list == Left(Cache, expired)
  <2>2. Cache \in Seq(Topics) /\ ToSet(Cache) = Rows
    BY CacheIs
  <2>3. list \in Seq(Topics) /\ ToSet(list) = Rows \ expired
    BY <2>2, LeftIs
  <2>4. Purge(expired \union Coldest(list))
    BY <2>1
  <2> HIDE DEF list
  <2>5. Rows \ (expired \union Coldest(list)) \subseteq ToSet(list) \ Coldest(list)
    BY <2>3
  <2> QED BY <1>0, <2>3, <2>4, <2>5, CacheCut
<1>9. CASE Commands \/ Rest \/ UNCHANGED vars
           \/ (EditCode /\ UNCHANGED <<baseVars, ruleVars, pipelineVars>>)
           \/ \E s \in Sessions : Implementing(s)
  <2>1. Cleanup \/ UNCHANGED <<unused, recent, job>>
    BY <1>9 DEF Commands, Curated, Curate, AddRule, CurateFails, Retire, Rest, Implementing, vars, baseVars, pipelineVars
  <2> QED BY <1>7, <1>8, <2>1
<1>10. ASSUME NEW s \in Sessions, Abandon(s) \/ Remember(s)
       PROVE  CacheInv'
  BY <1>0, <1>10, AbandonCache, RememberStep
<1> QED BY <1>2, <1>3, <1>4, <1>5, <1>6, <1>9, <1>10 DEF Next, Session, CommandLine, Commands

-----------------------------------------------------------------------------
(* The whole.                                                              *)

LoopInv == /\ JobsInv /\ RulesInv /\ DesignsInv /\ LessonsInv /\ DriveInv /\ BoundsInv
           /\ CacheInv /\ DriversInv

LEMMA LoopInit == ASSUME Init PROVE LoopInv
<1> USE DEF Init
<1>1. JobsInv
  BY NoJobOK DEF PipelineInit, JobsInv
<1>2. RulesInv
  <2>1. \E w \in Writers : writer \subseteq {w}
    BY DEF RulesInit, Writers
  <2> QED BY <2>1 DEF RulesInit, RulesInv, RulesTypeOK, RulesSafe
<1>3. DesignsInv
  BY DEF KnowledgeInit, DesignsInv, FinalIsReviewed
<1>4. LessonsInv
  <2>1. \A title \in Titles : lessons[title] = 0 /\ Pending(title) \in SUBSET Sessions
    BY DEF KnowledgeInit, Pending
  <2>2. lessons \in [Titles -> Nat]
    BY DEF KnowledgeInit
  <2>3. ASSUME NEW title \in Titles
        PROVE  lessons[title] + Cardinality(Pending(title)) <= Cardinality(Sessions) + spoils
    <3> DEFINE P == Pending(title)
    <3>1. lessons[title] = 0 /\ P \in SUBSET Sessions
      BY <2>1
    <3> HIDE DEF P
    <3>2. /\ Cardinality(P) \in Nat /\ Cardinality(Sessions) \in Nat
          /\ Cardinality(P) <= Cardinality(Sessions)
      BY <3>1, PendingIs
    <3>3. lessons[title] + Cardinality(P) <= Cardinality(Sessions) + spoils
      BY <3>1, <3>2 DEF PipelineInit
    <3> QED BY <3>3 DEF P
  <2> QED BY <2>2, <2>3 DEF LessonsInv
<1>5. DriveInv
  BY NoDriveOK, Bounds DEF ConvergeInit, DriveInv
<1>6. BoundsInv
  BY Bounds DEF PipelineInit, BoundsInv
<1>7. CacheInv
  <2>1. unused = <<>> /\ recent = <<>> /\ <<>> \in Seq(Topics) /\ IsInjective(<<>>)
    BY DEF KnowledgeInit, IsInjective
  <2>2. Rows = {} /\ ToSet(unused) \cap ToSet(recent) = {}
    BY <2>1 DEF Rows, ToSet
  <2>3. Evicting \in SUBSET Sessions
    BY DEF Evicting
  <2> DEFINE P == Evicting
             C == Rows
  <2>4. Cardinality(C) = 0
    BY <2>2, FS_EmptySet
  <2>5. Cardinality(P) \in Nat
    BY <2>3, PendingIs
  <2> HIDE DEF P, C
  <2>6. Cardinality(C) <= CacheMax + spoils + Cardinality(P)
    BY <2>4, <2>5, Bounds DEF PipelineInit
  <2> QED BY <2>1, <2>2, <2>6 DEF CacheInv, P, C
<1>8. DriversInv
  <2>1. \A s \in Sessions : drive[s].phase = "idle"
    BY Bounds DEF ConvergeInit, NoDrive
  <2> QED BY <2>1 DEF DriversInv
<1> QED BY <1>1, <1>2, <1>3, <1>4, <1>5, <1>6, <1>7, <1>8 DEF LoopInv

\* The inductive invariant of the loop and its pipeline.
THEOREM LoopInvariant == Spec => []LoopInv
<1>1. Init => LoopInv
  BY LoopInit
<1>2. LoopInv /\ [Next]_vars => LoopInv'
  BY JobsStep, RulesStep, DesignsStep, LessonsStep, DriveStep, BoundsStep, CacheStep,
     DriversStep DEF LoopInv
<1> QED BY <1>1, <1>2, PTL DEF Spec

\* What reaches the design table: a design is final only if a review of its
\* very text found nothing (design.py:700, council.py:468), every ask of a
\* prompt is designed or covered by a goal to come (orchestrator.py:171), and
\* the critics of a panel are of distinct families (council.py:104).
THEOREM DesignsInOrderHolds == Spec => []DesignsInOrder
<1>1. LoopInv => DesignsInOrder
  <2> SUFFICES ASSUME LoopInv PROVE DesignsInOrder
    OBVIOUS
  <2>1. FinalIsReviewed
    BY DEF LoopInv, DesignsInv
  <2>2. \A s \in Sessions : JobOK(job[s]) /\ DriveOK(drive[s])
    BY DEF LoopInv, JobsInv, DriveInv
  <2>3. EveryAskHasAGoal
    BY <2>2 DEF EveryAskHasAGoal, JobOK
  <2>4. PanelIsMixed
    BY <2>2 DEF PanelIsMixed, JobOK, Mixed
  <2>5. ConvergeTypeOK
    BY <2>2, Bounds DEF ConvergeTypeOK, DriveOK, LoopInv, DriveInv
  <2>6. RulesTypeOK /\ \A s \in Sessions : job[s].stage \in Stages
    BY <2>2 DEF LoopInv, RulesInv, JobOK
  <2>7. LoopTypeOK
    BY <2>5, <2>6 DEF LoopTypeOK, LoopInv, BoundsInv
  <2> QED BY <2>1, <2>3, <2>4, <2>7 DEF DesignsInOrder
<1> QED BY <1>1, LoopInvariant, PTL

\* "Your own claim that the work is done is never trusted" (converge.py:89): a
\* loop that ends well had a surface of which its gate found nothing open after
\* the coder's last edit, and one that ends badly names what it found.
THEOREM VerdictIsGatedHolds == Spec => []VerdictIsGated
<1>1. LoopInv => VerdictIsGated
  BY Bounds DEF LoopInv, DriveInv, DriveOK, VerdictIsGated
<1> QED BY <1>1, LoopInvariant, PTL

\* Whatever is promoted and demoted, every rule that stands is in the rule file
\* or in the buffer of the process that rewrites it, unless a rewrite was cut
\* short (policy.py:297).
THEOREM RulesSafeHolds == Spec => []RulesSafe
<1>1. LoopInv => RulesSafe
  BY DEF LoopInv, RulesInv
<1> QED BY <1>1, LoopInvariant, PTL

\* A lesson is filed at most once by each session that read the titles before
\* the others filed theirs (design.py:573), and by each that read a list too
\* short to name it (design.py:577).
THEOREM LessonFiledOnceHolds == Spec => []LessonFiledOnce
<1>1. ASSUME LoopInv, NEW title \in Titles
      PROVE  lessons[title] <= Cardinality(Sessions) + spoils
  <2> DEFINE P == Pending(title)
  <2>1. P \in SUBSET Sessions
    BY DEF Pending
  <2>2. lessons[title] \in Nat /\ lessons[title] + Cardinality(P) <= Cardinality(Sessions) + spoils
    BY <1>1 DEF LoopInv, LessonsInv
  <2> HIDE DEF P
  <2>3. Cardinality(P) \in Nat /\ Cardinality(Sessions) \in Nat
    BY <2>1, PendingIs
  <2>4. spoils \in Nat
    BY <1>1, Bounds DEF LoopInv, BoundsInv
  <2> QED BY <2>2, <2>3, <2>4
<1>2. LoopInv => LessonFiledOnce
  BY <1>1 DEF LessonFiledOnce
<1> QED BY <1>2, LoopInvariant, PTL

\* The cache exceeds its cap only by rows whose eviction is still to come or
\* was cut short (dkb.py:380), whatever is recalled, expires or is cleaned up
\* in between.
THEOREM CacheIsBoundedHolds == Spec => []CacheIsBounded
<1>1. ASSUME LoopInv PROVE CacheIsBounded
  <2>1. /\ Cardinality(Rows) = Len(Cache)
        /\ Cardinality(Rows) <= CacheMax + spoils + Cardinality(Evicting)
    BY <1>1, CacheIs DEF LoopInv, CacheInv
  <2> QED BY <2>1 DEF CacheIsBounded, Evicting
<1>2. LoopInv => CacheIsBounded
  BY <1>1
<1> QED BY <1>2, LoopInvariant, PTL

\* What a project remembers: no topic twice and no cache beyond its cap
\* (dkb.py:380), no lesson filed again and again (design.py:573), no rule lost
\* between two promotions (policy.py:297).
THEOREM MemoryInOrderHolds == Spec => []MemoryInOrder
<1>1. ASSUME LoopInv PROVE KnowledgeTypeOK
  <2>1. IsInjective(Cache) /\ ToSet(Cache) \subseteq Topics
    BY <1>1, CacheIs DEF LoopInv
  <2> QED BY <1>1, <2>1 DEF LoopInv, LessonsInv, KnowledgeTypeOK
<1>2. LoopInv => KnowledgeTypeOK
  BY <1>1
<1>3. Spec => []KnowledgeTypeOK
  BY <1>2, LoopInvariant, PTL
<1>4. KnowledgeTypeOK /\ CacheIsBounded /\ LessonFiledOnce /\ RulesSafe => MemoryInOrder
  BY DEF MemoryInOrder
<1> QED BY <1>3, <1>4, CacheIsBoundedHolds, LessonFiledOnceHolds, RulesSafeHolds, PTL
=============================================================================
