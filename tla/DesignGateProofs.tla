-------------------------- MODULE DesignGateProofs --------------------------
(***************************************************************************)
(* Proofs about the pre-code gate and the review at the end of a turn, for *)
(* any number of parallel edit hooks, turns and revisions, with lost       *)
(* marker writes and failing reviews.  The facts about the posture come    *)
(* first.                                                                  *)
(***************************************************************************)
EXTENDS DesignGate, TLAPS

-----------------------------------------------------------------------------
(* The posture alone, with or without lost writes.                         *)

\* The intake process runs exactly while it has the floor; a plan it carries
\* is of the turn before; the ask that is held is of an earlier turn; a hold
\* it saw is the one on record.
ReviewShape ==
    /\ phase = "review" <=> review.pc # "idle"
    /\ phase = "review" =>
         /\ turn > 0
         /\ posture.held < turn
         /\ review.plan.rev > 0 => review.plan.turn + 1 = turn
         /\ review.seen.state = "hold" => review.seen = posture
    /\ review.pc \in {"settle", "settled"} =>
         review.seen.state = "hold" /\ review.plan.rev > 0 /\ ~awaiting

\* What is held was asked for in a turn that has begun.
HeldShape ==
    /\ posture.held <= turn
    /\ posture.state = "hold" => posture.held > 0

HoldInv ==
    /\ HoldTypeOK
    /\ ReviewShape
    /\ HeldShape
    /\ OpenHoldStands
    /\ ApprovedPlanAnswersGoal

-----------------------------------------------------------------------------
(* The invariant holds initially.                                          *)
LEMMA HoldInvInit == HoldInit => HoldInv
<1> SUFFICES ASSUME HoldInit PROVE HoldInv
  OBVIOUS
<1> USE HoldAssumption DEF HoldAssumption, HoldInit
<1>1. HoldTypeOK
  <2>1. posture \in HoldPosture
    BY DEF HoldPosture, HOLD_STATES, HOLD_SCOPES, DefaultPosture
  <2>2. review \in [pc : {"idle", "classify", "settle", "settled"},
                    plan : Plans, seen : HoldPosture]
    BY <2>1 DEF Plans, NoReview, NoPlan
  <2>3. heard \in REVIEW_INTENT_KINDS /\ awaiting \in BOOLEAN
    BY DEF REVIEW_INTENT_KINDS
  <2>4. prose \in [0 .. MaxTurns -> 0 .. MaxRevs] /\ turn \in 0 .. MaxTurns
    OBVIOUS
  <2> QED
    BY <2>1, <2>2, <2>3, <2>4 DEF HoldTypeOK
<1>2. ReviewShape
  BY DEF ReviewShape, NoReview
<1>3. HeldShape /\ OpenHoldStands /\ ApprovedPlanAnswersGoal
  BY DEF HeldShape, OpenHoldStands, ApprovedPlanAnswersGoal, DefaultPosture
<1> QED BY <1>1, <1>2, <1>3 DEF HoldInv

(* Opening a turn keeps it: the review starts with last turn's plan.       *)
LEMMA HoldInvSubmit ==
  ASSUME HoldInv, SubmitTrivial \/ SubmitReviewed
  PROVE  HoldInv'
<1> USE HoldAssumption DEF HoldAssumption, HoldInv, HoldTypeOK, ReviewShape, HeldShape,
    OpenHoldStands, ApprovedPlanAnswersGoal, NewTurn, HoldPosture, Plans,
    Designs, CurrentPlan, NoPlan
<1>1. CASE SubmitTrivial
  BY <1>1 DEF SubmitTrivial, REVIEW_INTENT_KINDS
<1>2. CASE SubmitReviewed
  <2>1. PICK plan \in {CurrentPlan, NoPlan}, seen \in PostureReads :
          review' = [pc |-> "classify", plan |-> plan, seen |-> seen]
    BY <1>2 DEF SubmitReviewed
  <2>2. /\ plan \in Plans /\ (plan.rev > 0 => plan.turn = turn)
        /\ seen \in HoldPosture /\ (seen.state = "hold" => seen = posture)
    <3>1. seen \in {posture, DefaultPosture}
      BY <2>1 DEF PostureReads
    <3> QED BY <2>1, <3>1 DEF DefaultPosture, HOLD_STATES, HOLD_SCOPES
  <2>3. HoldTypeOK'
    BY <1>2, <2>1, <2>2 DEF SubmitReviewed, REVIEW_INTENT_KINDS
  <2>4. ReviewShape'
    BY <1>2, <2>1, <2>2 DEF SubmitReviewed
  <2>5. turn' = turn + 1 /\ UNCHANGED <<posture, designs>>
    BY <1>2 DEF SubmitReviewed
  <2>6. HeldShape' /\ OpenHoldStands' /\ ApprovedPlanAnswersGoal'
    BY <2>5
  <2> QED
    BY <2>3, <2>4, <2>6
<1> QED BY <1>1, <1>2

(* A posture that is written by the last step of a review, or left.        *)
LEMMA HoldInvReviewDone ==
  ASSUME HoldInv, ReviewDone, UNCHANGED designs, review.pc # "idle",
         heard' \in REVIEW_INTENT_KINDS, awaiting' \in BOOLEAN,
         posture' \in HoldPosture,
         posture'.held <= turn,
         posture'.state = "hold" => posture'.held > 0,
         posture'.state = "hold" /\ posture'.approved # "none"
           => posture'.scope = "standing"
  PROVE  HoldInv'
<1>1. NoReview \in [pc : {"idle", "classify", "settle", "settled"},
                    plan : Plans, seen : HoldPosture]
      /\ NoReview.pc = "idle"
  BY HoldAssumption DEF HoldAssumption, NoReview, NoPlan, Plans, DefaultPosture,
    HoldPosture, HOLD_STATES, HOLD_SCOPES
<1>2. HoldTypeOK' /\ ReviewShape'
  BY <1>1 DEF HoldInv, HoldTypeOK, ReviewShape, ReviewDone
<1>3. HeldShape' /\ OpenHoldStands'
  BY DEF HoldInv, HeldShape, OpenHoldStands, ReviewDone
<1>4. ApprovedPlanAnswersGoal'
  BY DEF HoldInv, ApprovedPlanAnswersGoal
<1> QED
  BY <1>2, <1>3, <1>4 DEF HoldInv

(* The postures the transition table writes are well formed.               *)
LEMMA WrittenPostures ==
  ASSUME HoldInv, review.pc # "idle",
         NEW p, WritePosture(p),
         \/ p \in {AutonomousPosture, DefaultPosture}
         \/ \E scope \in HOLD_SCOPES : p = HeldFor(turn, scope)
         \/ /\ review.seen.state = "hold"
            /\ \E id \in {"sentinel", "design"} : p = Approved(id)
  PROVE  /\ posture' \in HoldPosture
         /\ posture'.held <= turn
         /\ posture'.state = "hold" => posture'.held > 0
         /\ posture'.state = "hold" /\ posture'.approved # "none"
              => posture'.scope = "standing"
<1> USE HoldAssumption DEF HoldAssumption, HoldInv, HoldTypeOK, ReviewShape, HeldShape,
    OpenHoldStands, HoldPosture, HOLD_STATES, HOLD_SCOPES, DefaultPosture,
    AutonomousPosture, HeldFor, Approved
<1>1. CASE posture' = posture
  BY <1>1
<1>2. CASE posture' = p /\ p \in {AutonomousPosture, DefaultPosture}
  BY <1>2
<1>3. CASE posture' = p /\ \E scope \in HOLD_SCOPES : p = HeldFor(turn, scope)
  BY <1>3
<1>4. CASE /\ posture' = p
           /\ review.seen.state = "hold"
           /\ \E id \in {"sentinel", "design"} : p = Approved(id)
  <2>0. review.seen = posture
    BY <1>4
  <2>1. PICK id \in {"sentinel", "design"} : posture' = Approved(id)
    BY <1>4
  <2>2. CASE posture.scope = "standing"
    <3>1. posture' = [posture EXCEPT !.approved = id]
      BY <2>0, <2>1, <2>2
    <3> QED BY <3>1, <2>2
  <2>3. CASE posture.scope # "standing"
    <3>1. posture' = [DefaultPosture EXCEPT !.scope = posture.scope,
                                            !.approved = id]
      BY <2>0, <2>1, <2>3
    <3>2. posture' = [state |-> "default", scope |-> posture.scope,
                      held |-> 0, approved |-> id]
      BY <3>1
    <3> QED BY <3>2
  <2> QED BY <2>2, <2>3
<1> QED BY <1>1, <1>2, <1>3, <1>4 DEF WritePosture

(* Every step keeps the invariant.                                         *)
LEMMA HoldInvNext == HoldInv /\ [HoldNext]_holdVars => HoldInv'
<1> SUFFICES ASSUME HoldInv, [HoldNext]_holdVars PROVE HoldInv'
  OBVIOUS
<1>1. CASE SubmitTrivial \/ SubmitReviewed
  BY <1>1, HoldInvSubmit
<1>2. CASE AutonomyGrant
  BY <1>2, HoldInvReviewDone, WrittenPostures
    DEF AutonomyGrant, Classified, REVIEW_INTENT_KINDS
<1>3. CASE Intervene
  BY <1>3, HoldInvReviewDone, WrittenPostures
    DEF Intervene, Classified, REVIEW_INTENT_KINDS
<1>4. ASSUME NEW scope \in HOLD_SCOPES, RequestReview(scope) PROVE HoldInv'
  BY <1>4, HoldInvReviewDone, WrittenPostures
    DEF RequestReview, Classified, REVIEW_INTENT_KINDS
<1>5. ASSUME NEW kind \in REVIEW_INTENT_KINDS, Unmoved(kind) PROVE HoldInv'
  BY <1>5, HoldInvReviewDone DEF Unmoved, Classified, HoldInv, HoldTypeOK,
    HeldShape, OpenHoldStands
<1>6. CASE ApproveTalk
  <2>1. ReviewDone
    BY <1>6 DEF ApproveTalk, ApproveHeld, ReviewDone
  <2> QED
    BY <1>6, <2>1, HoldInvReviewDone, WrittenPostures
      DEF ApproveTalk, ApproveHeld, Classified, REVIEW_INTENT_KINDS
<1>7. CASE ApprovePlan
  BY <1>7 DEF ApprovePlan, ApproveHeld, Classified, HoldInv, HoldTypeOK,
    ReviewShape, HeldShape, OpenHoldStands, ApprovedPlanAnswersGoal,
    REVIEW_INTENT_KINDS
<1>8. CASE SettleCommits
  <2> USE <1>8 DEF SettleCommits, postureVars
  <2>1. /\ SettleGoal \in Turns
        /\ SettleGoal <= review.plan.turn
        /\ review.plan \in Plans
    BY HoldAssumption DEF HoldAssumption, HoldInv, HoldTypeOK, ReviewShape, HeldShape,
      SettleGoal, HoldPosture, Plans, Turns
  <2>2. designs' \subseteq Designs
    BY <2>1 DEF HoldInv, HoldTypeOK, Designs
  <2>3. ApprovedPlanAnswersGoal'
    BY <2>1 DEF HoldInv, ApprovedPlanAnswersGoal
  <2> QED
    BY <2>2, <2>3 DEF HoldInv, HoldTypeOK, ReviewShape, HeldShape,
      OpenHoldStands
<1>9. CASE SettleReturns \/ SettleRaises
  <2>1. review.seen.state = "hold" /\ review.pc # "idle" /\ ReviewDone
    BY <1>9 DEF SettleReturns, SettleRaises, HoldInv, ReviewShape
  <2>2. PICK id \in {"sentinel", "design"} : WritePosture(Approved(id))
    BY <1>9 DEF SettleReturns, SettleRaises
  <2> QED
    BY <1>9, <2>1, <2>2, HoldInvReviewDone, WrittenPostures
      DEF SettleReturns, SettleRaises, HoldInv, HoldTypeOK
<1>10. CASE ReviewCutShort
  BY <1>10, HoldInvReviewDone DEF ReviewCutShort, postureVars, HoldInv,
    HoldTypeOK, HeldShape, OpenHoldStands
<1>11. CASE WritesPlan
  BY <1>11, HoldAssumption DEF HoldAssumption, WritesPlan, postureVars, HoldInv, HoldTypeOK, ReviewShape,
    HeldShape, OpenHoldStands, ApprovedPlanAnswersGoal
<1>12. CASE TurnEnds
  BY <1>12 DEF TurnEnds, postureVars, HoldInv, HoldTypeOK, ReviewShape,
    HeldShape, OpenHoldStands, ApprovedPlanAnswersGoal
<1>13. CASE UNCHANGED holdVars
  BY <1>13 DEF holdVars, HoldInv, HoldTypeOK, ReviewShape, HeldShape,
    OpenHoldStands, ApprovedPlanAnswersGoal
<1> QED
  BY <1>1, <1>2, <1>3, <1>4, <1>5, <1>6, <1>7, <1>8, <1>9, <1>10, <1>11,
     <1>12, <1>13 DEF HoldNext, Intake

(* The invariant holds of every behaviour.                                 *)
THEOREM HoldInvariant == HoldSpec => []HoldInv
  BY HoldInvInit, HoldInvNext, PTL DEF HoldSpec

-----------------------------------------------------------------------------
(* The posture's variables keep their types.                               *)
THEOREM HoldTyped == HoldSpec => []HoldTypeOK
<1>1. HoldInv => HoldTypeOK
  BY DEF HoldInv
<1> QED BY <1>1, HoldInvariant, PTL

(* A hold that is active after an approval was asked for as standing       *)
(* (apply_review_intent releases a one-time hold), even with lost writes.  *)
THEOREM OpenHoldStandsHolds == HoldSpec => []OpenHoldStands
<1>1. HoldInv => OpenHoldStands
  BY DEF HoldInv
<1> QED BY <1>1, HoldInvariant, PTL

(* A plan settled by the user's approval is not older than the ask it is   *)
(* recorded for (review_turn and apply_review_intent).                     *)
THEOREM ApprovedPlanAnswersGoalHolds == HoldSpec => []ApprovedPlanAnswersGoal
<1>1. HoldInv => ApprovedPlanAnswersGoal
  BY DEF HoldInv
<1> QED BY <1>1, HoldInvariant, PTL

(* A step of the intake process, or of the agent, leaves the gate shut     *)
(* while a request is unanswered.                                          *)
LEMMA RequestShutsGateNext ==
  HoldInv /\ RequestShutsGate /\ [HoldNext]_holdVars => RequestShutsGate'
<1> SUFFICES ASSUME HoldInv, RequestShutsGate, [HoldNext]_holdVars
             PROVE  RequestShutsGate'
  OBVIOUS
<1> USE DEF RequestShutsGate, GateShut, Classified, WritePosture
<1>1. CASE AutonomyGrant \/ Intervene
  BY <1>1 DEF AutonomyGrant, Intervene
<1>2. ASSUME NEW scope \in HOLD_SCOPES, RequestReview(scope)
      PROVE  RequestShutsGate'
  <2>1. CASE posture' = HeldFor(turn, scope)
    BY <2>1 DEF HeldFor
  <2>2. CASE posture' # HeldFor(turn, scope)
    BY <1>2, <2>2 DEF RequestReview
  <2> QED BY <2>1, <2>2
<1>3. CASE ApproveTalk \/ ApprovePlan
  BY <1>3 DEF ApproveTalk, ApprovePlan, ApproveHeld
<1>4. CASE SettleReturns \/ SettleRaises
  BY <1>4 DEF SettleReturns, SettleRaises, HoldInv, ReviewShape
<1>5. CASE SubmitTrivial \/ SubmitReviewed
  BY <1>5 DEF SubmitTrivial, SubmitReviewed, NewTurn
<1>6. CASE \E kind \in REVIEW_INTENT_KINDS : Unmoved(kind)
  BY <1>6 DEF Unmoved
<1>7. CASE SettleCommits \/ ReviewCutShort \/ WritesPlan \/ TurnEnds
  BY <1>7 DEF SettleCommits, ReviewCutShort, WritesPlan, TurnEnds,
    postureVars
<1>8. CASE UNCHANGED holdVars
  BY <1>8 DEF holdVars
<1> QED
  BY <1>1, <1>2, <1>3, <1>4, <1>5, <1>6, <1>7, <1>8 DEF HoldNext, Intake

(* A recorded request to review keeps the gate shut until the user answers *)
(* it (the sticky posture of apply_review_intent).                         *)
THEOREM RequestShutsGateHolds == HoldSpec => []RequestShutsGate
<1>1. HoldInit => RequestShutsGate
  BY DEF HoldInit, RequestShutsGate
<1> QED BY <1>1, RequestShutsGateNext, HoldInvariant, PTL DEF HoldSpec

-----------------------------------------------------------------------------
(* The gate and its parallel edit hooks.                                   *)

\* What a hook in flight may rely on: the agent waits for it, so the gate it
\* found open is still open, unless it could not read the posture; it settles
\* only what it did not see held and what no review objects to; an outcome
\* "settled" is in the store.
SlotOK(e) ==
    /\ edit[e].pc \in Running =>
         phase = "agent" /\ (GateShut => "gate" \in edit[e].missed)
    /\ edit[e].pc \in {"council", "settle"} => ~SessionHeld(edit[e].missed)
    /\ edit[e].pc = "settle" => CurrentPlan \in passed
    /\ edit[e].pc = "mark" /\ edit[e].outcome = "settled" =>
         \E d \in designs : d.by # "user" /\ d.plan.turn = turn

\* A turn is open unless the user has not yet spoken; the marker is of a turn
\* that was opened.
GateShape ==
    /\ phase # "user" => turn > 0
    /\ marker.anchor <= turn

GateInv ==
    /\ HoldInv
    /\ RequestShutsGate
    /\ GateTypeOK
    /\ GateShape
    /\ \A e \in Edits : SlotOK(e)
    /\ SettledIsEarned

\* The bookkeeping of one slot with reliable markers.  A review starts only
\* if this turn had none, or, in the strict mode, after issues; and whenever
\* the agent works, an unmarked turn had no review.
MayReview == delivered = 0 \/ (mode = "deny" /\ last = "issues")

ReviewInv ==
    /\ phase # "user" /\ delivered # 0 => prose[turn] > 0
    /\ phase = "review" => delivered = 0 /\ MarkerStatus = "none"
    /\ \A e \in Edits :
         /\ edit[e].pc \in {"council", "audit"} => MayReview /\ prose[turn] > 0
         /\ edit[e].pc = "mark" =>
              /\ edit[e].outcome # "none"
              /\ edit[e].outcome = "issues" =>
                   delivered = 0 \/ last = "issues"
    /\ phase = "agent" /\ Quiet =>
         /\ MarkerStatus = "none" => delivered = 0
         /\ MarkerStatus = "issues" => delivered = 0 \/ last = "issues"

\* One slot: what the outcome a hook is about to record says of the last
\* review.
NamedNone == {"clean", "flagged", "failed"}

OutcomeInv ==
    \A e \in Edits :
      /\ edit[e].pc = "settle" => last \in NamedNone
      /\ edit[e].pc = "mark" /\ edit[e].outcome # "issues" => last \in NamedNone

-----------------------------------------------------------------------------
(* What a step of one slot leaves in it.                                   *)
LEMMA Entered ==
  ASSUME GateInv, NEW e \in Edits, NEW pc \in Answered \cup Running,
         NEW outcome \in Outcomes \cup {"none"}, NEW missed \in SUBSET HoldReads,
         Enter(e, pc, outcome, missed)
  PROVE  /\ edit' = [edit EXCEPT ![e] = edit'[e]]
         /\ edit'[e] \in EditHooks
         /\ edit'[e].pc = pc /\ edit'[e].outcome = outcome
         /\ edit'[e].missed = missed
<1> DEFINE r == [pc |-> pc, outcome |-> outcome, missed |-> missed]
<1>1. edit \in [Edits -> EditHooks] /\ edit' = [edit EXCEPT ![e] = r]
  BY DEF GateInv, GateTypeOK, Enter
<1>2. r \in EditHooks /\ r.pc = pc /\ r.outcome = outcome /\ r.missed = missed
  BY DEF EditHooks
<1> HIDE DEF r
<1>3. edit'[e] = r
  BY <1>1
<1> QED BY <1>1, <1>2, <1>3

LEMMA Stepped ==
  ASSUME GateInv, NEW e \in Edits, NEW from, NEW pc \in Answered \cup Running,
         NEW outcome \in Outcomes \cup {"none"}, Step(e, from, pc, outcome)
  PROVE  /\ edit[e].pc = from
         /\ edit' = [edit EXCEPT ![e] = edit'[e]]
         /\ edit'[e] \in EditHooks
         /\ edit'[e].pc = pc /\ edit'[e].outcome = outcome
         /\ edit'[e].missed = edit[e].missed
<1> DEFINE r == [edit[e] EXCEPT !.pc = pc, !.outcome = outcome]
<1>1. edit \in [Edits -> EditHooks] /\ edit' = [edit EXCEPT ![e] = r]
  BY DEF GateInv, GateTypeOK, Step
<1>2. r \in EditHooks /\ r.pc = pc /\ r.outcome = outcome
      /\ r.missed = edit[e].missed
  BY <1>1 DEF EditHooks
<1> HIDE DEF r
<1>3. edit'[e] = r
  BY <1>1
<1> QED BY <1>1, <1>2, <1>3 DEF Step

(* The only slot, after a step of it.                                      *)
LEMMA OnlySlot ==
  ASSUME \A e, f \in Edits : e = f, NEW e \in Edits, NEW pc, NEW outcome,
         edit'[e].pc = pc, edit'[e].outcome = outcome
  PROVE  \A f \in Edits : edit'[f].pc = pc /\ edit'[f].outcome = outcome
  OBVIOUS

(* A read misses only a hold that is on record.                            *)
LEMMA MissedReads ==
  ASSUME NEW reads \in SUBSET HoldReads, NEW missed \in Missed(reads)
  PROVE  missed \in SUBSET HoldReads
  BY DEF Missed

-----------------------------------------------------------------------------
(* The invariant holds initially.                                          *)
LEMMA GateInvInit == Init => GateInv
<1> SUFFICES ASSUME Init PROVE GateInv
  OBVIOUS
<1>1. HoldInv /\ RequestShutsGate /\ HoldTypeOK
  BY HoldInvInit DEF Init, HoldInit, RequestShutsGate, HoldInv
<1>2. GateTypeOK
  <2>1. marker \in [anchor : 0 .. MaxTurns, status : Outcomes \cup {"none"}]
    <3>1. marker = [anchor |-> 0, status |-> "none"]
      BY DEF Init, NoMarker
    <3>2. 0 \in 0 .. MaxTurns
      BY HoldAssumption DEF HoldAssumption
    <3> QED BY <3>1, <3>2
  <2>2. edit \in [Edits -> EditHooks]
    BY DEF Init, NoEdit, Answered, EditHooks
  <2>3. delivered \in 0 .. 2
    <3>1. delivered = 0
      BY DEF Init
    <3> QED BY <3>1
  <2>4. /\ mode \in GateModes
        /\ last \in Verdicts \cup {"none", "failed"}
        /\ passed \subseteq Plans
    BY DEF Init
  <2> QED
    BY <1>1, <2>1, <2>2, <2>3, <2>4 DEF GateTypeOK
<1>3. GateShape
  <2>1. phase = "user" /\ turn = 0 /\ marker = [anchor |-> 0, status |-> "none"]
    BY DEF Init, HoldInit, NoMarker
  <2> QED BY <2>1 DEF GateShape
<1>4. \A e \in Edits : SlotOK(e)
  <2>1. \A e \in Edits : edit[e].pc = "idle"
    BY DEF Init, NoEdit
  <2> QED BY <2>1 DEF SlotOK, Running
<1>5. SettledIsEarned
  <2>1. designs = {} /\ marker = [anchor |-> 0, status |-> "none"]
    BY DEF Init, HoldInit, NoMarker
  <2> QED BY <2>1 DEF SettledIsEarned
<1> QED BY <1>1, <1>2, <1>3, <1>4, <1>5 DEF GateInv

-----------------------------------------------------------------------------
(* Designs that saddle records while the agent has the floor, and the end  *)
(* of the agent's turn, keep what is known of the posture.                 *)
LEMMA HoldInvKept ==
  ASSUME HoldInv, RequestShutsGate,
         UNCHANGED <<turn, prose, review, postureVars>>,
         phase = "agent", phase' \in {"agent", "user"},
         designs' \subseteq Designs,
         \A d \in designs' : d \in designs \/ d.by # "user"
  PROVE  HoldInv' /\ RequestShutsGate'
  BY DEF HoldInv, HoldTypeOK, ReviewShape, HeldShape, OpenHoldStands,
    ApprovedPlanAnswersGoal, RequestShutsGate, GateShut, postureVars

(* What saddle records while a turn is open is a well-formed design of the *)
(* turn's plan.                                                            *)
LEMMA Recorded ==
  ASSUME GateInv, phase = "agent", NEW by \in {"converged", "council"},
         Record(by)
  PROVE  /\ CurrentPlan \in Plans
         /\ designs' \subseteq Designs
         /\ designs \subseteq designs'
         /\ \A d \in designs' :
              d \in designs \/ (d.by # "user" /\ d.plan = CurrentPlan)
         /\ \E d \in designs' : d.by # "user" /\ d.plan.turn = turn
<1>1. turn \in Turns /\ CurrentPlan \in Plans /\ CurrentPlan.turn = turn
  BY HoldAssumption DEF HoldAssumption, GateInv, HoldInv, HoldTypeOK,
    GateShape, Turns, Plans, CurrentPlan
<1> DEFINE d0 == [goal |-> turn, plan |-> CurrentPlan, by |-> by]
<1>2. designs' = designs \cup {d0}
  BY DEF Record
<1>3. d0 \in Designs
  BY <1>1 DEF Designs
<1>4. d0.by # "user" /\ d0.plan = CurrentPlan
  OBVIOUS
<1>5. designs \subseteq Designs
  BY DEF GateInv, HoldInv, HoldTypeOK
<1> HIDE DEF d0
<1> QED BY <1>1, <1>2, <1>3, <1>4, <1>5

(* A slot whose hook does not move keeps its knowledge while the agent     *)
(* keeps the floor and nothing is forgotten.                               *)
LEMMA SlotKept ==
  ASSUME AgentKeepsFloor, designs \subseteq designs', passed \subseteq passed',
         NEW e \in Edits, SlotOK(e), edit'[e] = edit[e]
  PROVE  SlotOK(e)'
  BY DEF SlotOK, AgentKeepsFloor, postureVars, GateShut, SessionHeld, CurrentPlan

(* A hook that has answered knows nothing it must keep.                    *)
LEMMA AnsweredSlotOK ==
  ASSUME NEW e \in Edits, edit'[e].pc \in Answered
  PROVE  SlotOK(e)'
  BY DEF SlotOK, Answered, Running

(* What the running intake process does to the variables of the gate: it   *)
(* never runs while the agent has the floor, opens at most the next turn,  *)
(* and records no design but the user's.                                   *)
LEMMA IntakeEffects ==
  ASSUME HoldInv, Intake
  PROVE  /\ phase \in {"user", "review"} /\ phase' \in {"review", "agent"}
         /\ phase = "user" => turn' = turn + 1
         /\ phase = "review" => turn' = turn
         /\ prose' = prose
         /\ designs \subseteq designs'
         /\ \A d \in designs' : d \in designs \/ d.by = "user"
<1> USE DEF HoldInv, ReviewShape, HoldTypeOK
<1>1. CASE SubmitTrivial
  BY <1>1 DEF SubmitTrivial, NewTurn
<1>2. CASE SubmitReviewed
  BY <1>2 DEF SubmitReviewed, NewTurn
<1>3. CASE AutonomyGrant \/ Intervene
  BY <1>3 DEF AutonomyGrant, Intervene, Classified, ReviewDone
<1>4. CASE \E scope \in HOLD_SCOPES : RequestReview(scope)
  BY <1>4 DEF RequestReview, Classified, ReviewDone
<1>5. CASE \E kind \in REVIEW_INTENT_KINDS : Unmoved(kind)
  BY <1>5 DEF Unmoved, Classified, ReviewDone
<1>6. CASE ApproveTalk
  BY <1>6 DEF ApproveTalk, ApproveHeld, Classified
<1>7. CASE ApprovePlan
  BY <1>7 DEF ApprovePlan, ApproveHeld, Classified
<1>8. CASE SettleCommits
  BY <1>8 DEF SettleCommits
<1>9. CASE SettleReturns
  BY <1>9 DEF SettleReturns, ReviewDone
<1>10. CASE SettleRaises
  BY <1>10 DEF SettleRaises, ReviewDone
<1>11. CASE ReviewCutShort
  BY <1>11 DEF ReviewCutShort, ReviewDone
<1> QED
  BY <1>1, <1>2, <1>3, <1>4, <1>5, <1>6, <1>7, <1>8, <1>9, <1>10, <1>11
    DEF Intake

(* While the agent does not have the floor no hook runs.                   *)
LEMMA NoHookRuns ==
  ASSUME GateInv, phase # "agent"
  PROVE  \A e \in Edits : edit[e].pc \in Answered
<1> SUFFICES ASSUME NEW e \in Edits PROVE edit[e].pc \in Answered
  OBVIOUS
<1>1. edit[e].pc \in Answered \cup Running
  BY DEF GateInv, GateTypeOK, EditHooks
<1>2. SlotOK(e)
  BY DEF GateInv
<1> QED BY <1>1, <1>2 DEF SlotOK

LEMMA IntakeKeepsGateInv ==
  ASSUME GateInv, IntakeStep
  PROVE  GateInv'
<1>1. Intake /\ UNCHANGED <<mode, marker, passed>>
  BY DEF IntakeStep
<1>2. HoldInv' /\ RequestShutsGate' /\ HoldTypeOK'
  <2>1. HoldInv /\ RequestShutsGate
    BY DEF GateInv
  <2> QED
    BY <1>1, <2>1, HoldInvNext, RequestShutsGateNext DEF HoldNext, HoldInv
<1>3. /\ phase \in {"user", "review"} /\ phase' \in {"review", "agent"}
      /\ phase = "user" => turn' = turn + 1
      /\ phase = "review" => turn' = turn
      /\ designs \subseteq designs'
      /\ \A d \in designs' : d \in designs \/ d.by = "user"
  BY <1>1, IntakeEffects DEF GateInv
<1>4. \A e \in Edits : edit'[e].pc \in Answered
  <2>1. CASE turn' # turn
    BY <2>1 DEF IntakeStep, NoEdit, Answered
  <2>2. CASE turn' = turn
    BY <1>3, <2>2, NoHookRuns DEF IntakeStep
  <2> QED BY <2>1, <2>2
<1>5. \A e \in Edits : SlotOK(e)'
  BY <1>4, AnsweredSlotOK
<1>6. GateTypeOK'
  <2>1. edit' \in [Edits -> EditHooks]
    <3>1. CASE turn' # turn
      BY <3>1 DEF IntakeStep, NoEdit, Answered, EditHooks
    <3>2. CASE turn' = turn
      BY <3>2 DEF IntakeStep, GateInv, GateTypeOK
    <3> QED BY <3>1, <3>2
  <2>2. delivered' \in 0 .. 2
        /\ last' \in Verdicts \cup {"none", "failed"}
    BY DEF IntakeStep, GateInv, GateTypeOK
  <2> QED
    BY <1>1, <1>2, <2>1, <2>2 DEF GateTypeOK, GateInv
<1>7. GateShape'
  BY <1>1, <1>3 DEF GateInv, GateShape, HoldInv, HoldTypeOK, GateTypeOK
<1>8. SettledIsEarned'
  BY <1>1, <1>3 DEF GateInv, SettledIsEarned
<1> QED BY <1>2, <1>5, <1>6, <1>7, <1>8 DEF GateInv

(* A step of one edit hook, given what it leaves in its own slot and what  *)
(* it adds to the store, the passed plans and the marker.                  *)
LEMMA HookKeepsGateInv ==
  ASSUME GateInv, AgentKeepsFloor, phase = "agent",
         NEW e \in Edits,
         edit' = [edit EXCEPT ![e] = edit'[e]], edit'[e] \in EditHooks,
         SlotOK(e)',
         mode' = mode, delivered' \in 0 .. 2,
         last' \in Verdicts \cup {"none", "failed"},
         passed \subseteq passed', passed' \subseteq Plans,
         designs \subseteq designs', designs' \subseteq Designs,
         \A d \in designs' : d \in designs \/ (d.by # "user" /\ d.plan \in passed'),
         marker' \in [anchor : 0 .. MaxTurns, status : Outcomes \cup {"none"}],
         marker'.anchor <= turn,
         marker'.status = "settled" =>
           \E d \in designs' : d.by # "user" /\ d.plan.turn = marker'.anchor
  PROVE  GateInv'
<1>1. UNCHANGED <<phase, turn, prose, review, postureVars>>
  BY DEF AgentKeepsFloor
<1>2. HoldInv' /\ RequestShutsGate' /\ HoldTypeOK'
  <2>1. HoldInv' /\ RequestShutsGate'
    BY <1>1, HoldInvKept DEF GateInv
  <2> QED BY <2>1 DEF HoldInv
<1>3. edit \in [Edits -> EditHooks]
  BY DEF GateInv, GateTypeOK
<1>4. GateTypeOK'
  <2>1. edit' \in [Edits -> EditHooks]
    BY <1>3
  <2> QED BY <1>2, <2>1 DEF GateTypeOK, GateInv
<1>5. GateShape'
  BY <1>1 DEF GateInv, GateShape
<1>6. \A f \in Edits : SlotOK(f)'
  <2> SUFFICES ASSUME NEW f \in Edits, f # e PROVE SlotOK(f)'
    OBVIOUS
  <2>1. edit'[f] = edit[f]
    BY <1>3
  <2> QED BY <2>1, SlotKept DEF GateInv
<1>7. SettledIsEarned'
  BY DEF GateInv, SettledIsEarned
<1> QED BY <1>2, <1>4, <1>5, <1>6, <1>7 DEF GateInv

(* What the guard of a hook's step tells: the agent waits for it.          *)
LEMMA RunningHook ==
  ASSUME GateInv, NEW e \in Edits, edit[e].pc \in Running
  PROVE  phase = "agent" /\ (GateShut => "gate" \in edit[e].missed) /\ SlotOK(e)
  BY DEF GateInv, SlotOK

(* A hook's step is taken while the agent has the floor, and leaves it.    *)
LEMMA HookKeepsFloor ==
  ASSUME GateInv, NEW e \in Edits, EditHook(e)
  PROVE  phase = "agent" /\ AgentKeepsFloor
<1>1. edit[e].pc \in Running => phase = "agent"
  BY RunningHook
<1>2. CASE DenyHeld(e) \/ PassReviewed(e) \/ NoRecordedDesign(e) \/ StartReview(e)
  BY <1>2 DEF DenyHeld, PassReviewed, NoRecordedDesign, StartReview, Attempts
<1>3. CASE \E v \in Verdicts : CouncilSettles(e, v) \/ CouncilTooLate(e, v)
                               \/ AuditPasses(e, v)
  BY <1>1, <1>3 DEF CouncilSettles, CouncilTooLate, AuditPasses, Step, Running
<1>4. CASE \/ CouncilObjects(e) \/ CouncilDeclines(e) \/ AuditObjects(e)
           \/ AuditFails(e) \/ Settles(e) \/ SettleFails(e) \/ Answer(e)
  BY <1>1, <1>4 DEF CouncilObjects, CouncilDeclines, AuditObjects, AuditFails,
    Settles, SettleFails, Answer, Step, Running
<1> QED BY <1>2, <1>3, <1>4 DEF EditHook

(* A step of one edit hook keeps the invariant.                            *)
LEMMA EditHookKeepsGateInv ==
  ASSUME GateInv, NEW e \in Edits, EditHook(e)
  PROVE  GateInv'
<1>1. /\ edit \in [Edits -> EditHooks]
      /\ mode \in GateModes /\ delivered \in 0 .. 2
      /\ last \in Verdicts \cup {"none", "failed"}
      /\ passed \subseteq Plans /\ designs \subseteq Designs
      /\ marker \in [anchor : 0 .. MaxTurns, status : Outcomes \cup {"none"}]
      /\ marker.anchor <= turn
      /\ turn \in 0 .. MaxTurns
  BY DEF GateInv, GateTypeOK, GateShape, HoldTypeOK
<1>2. /\ \A d \in designs : d.by # "user" => d.plan \in passed
      /\ marker.status = "settled" =>
           \E d \in designs : d.by # "user" /\ d.plan.turn = marker.anchor
  BY DEF GateInv, SettledIsEarned
<1>3. phase = "agent" /\ AgentKeepsFloor
  BY HookKeepsFloor
<1>4. CurrentPlan \in Plans /\ turn \in Turns
  BY <1>3, HoldAssumption DEF HoldAssumption, GateInv, HoldInv, HoldTypeOK,
    GateShape, Turns, Plans, CurrentPlan
<1>5. /\ CurrentPlan' = CurrentPlan /\ (GateShut' <=> GateShut)
      /\ turn' = turn /\ phase' = phase /\ posture' = posture
      /\ \A missed : SessionHeld(missed)' <=> SessionHeld(missed)
  BY <1>3 DEF AgentKeepsFloor, CurrentPlan, GateShut, SessionHeld, postureVars
<1>6. ASSUME edit' = [edit EXCEPT ![e] = edit'[e]], edit'[e] \in EditHooks,
             SlotOK(e)',
             UNCHANGED <<mode, designs, marker>>, delivered' \in 0 .. 2,
             last' \in Verdicts \cup {"none", "failed"},
             passed \subseteq passed', passed' \subseteq Plans
      PROVE  GateInv'
  BY <1>1, <1>2, <1>3, <1>6, HookKeepsGateInv
<1>7. ASSUME NEW v \in Verdicts, Judged(v)
      PROVE  /\ mode' = mode
             /\ passed \subseteq passed' /\ passed' \subseteq Plans
             /\ ~HasIssues(v) => CurrentPlan \in passed'
  BY <1>1, <1>4, <1>7 DEF Judged
<1>8. ASSUME NEW v \in Verdicts, Verdict(v)
      PROVE  /\ mode' = mode /\ delivered' \in 0 .. 2
             /\ last' \in Verdicts \cup {"none", "failed"}
             /\ passed \subseteq passed' /\ passed' \subseteq Plans
             /\ ~HasIssues(v) => CurrentPlan \in passed'
  BY <1>1, <1>7, <1>8 DEF Verdict
<1>9. CASE DenyHeld(e) \/ PassReviewed(e)
  <2>1. PICK answer \in {"landed", "denied"}, missed \in SUBSET HoldReads :
          Enter(e, answer, "none", missed)
    <3>1. CASE DenyHeld(e)
      <4>1. Enter(e, "denied", "none", {})
        BY <3>1 DEF DenyHeld
      <4> QED BY <4>1
    <3>2. CASE PassReviewed(e)
      <4>1. PICK missed \in Missed({"gate"}) : Enter(e, "landed", "none", missed)
        BY <3>2 DEF PassReviewed
      <4>2. missed \in SUBSET HoldReads
        BY MissedReads DEF HoldReads
      <4> QED BY <4>1, <4>2
    <3> QED BY <1>9, <3>1, <3>2
  <2>2. answer \in Answered
    BY DEF Answered
  <2>3. /\ edit' = [edit EXCEPT ![e] = edit'[e]] /\ edit'[e] \in EditHooks
        /\ edit'[e].pc \in Answered
    BY <2>1, <2>2, Entered
  <2>4. SlotOK(e)'
    BY <2>3, AnsweredSlotOK
  <2> QED
    BY <1>1, <1>6, <1>9, <2>3, <2>4
      DEF DenyHeld, PassReviewed, Attempts, verdictVars
<1>10. CASE NoRecordedDesign(e)
  <2>1. PICK missed \in Missed({"gate"}) :
          GateOpen(missed) /\ Enter(e, "mark", "issues", missed)
    BY <1>10 DEF NoRecordedDesign
  <2>2. missed \in SUBSET HoldReads
    BY MissedReads DEF HoldReads
  <2>3. /\ edit' = [edit EXCEPT ![e] = edit'[e]] /\ edit'[e] \in EditHooks
        /\ edit'[e].pc = "mark" /\ edit'[e].outcome = "issues"
        /\ edit'[e].missed = missed
    BY <2>1, <2>2, Entered DEF Running, Outcomes
  <2>4. SlotOK(e)'
    BY <1>3, <1>5, <2>1, <2>3 DEF SlotOK, Running, GateOpen
  <2> QED
    BY <1>1, <1>6, <1>10, <2>3, <2>4 DEF NoRecordedDesign, Attempts, verdictVars
<1>11. CASE StartReview(e)
  <2>1. PICK missed \in Missed(HoldReads) :
          /\ GateOpen(missed)
          /\ Enter(e, IF SessionHeld(missed) THEN "audit" ELSE "council",
                   "none", missed)
    BY <1>11 DEF StartReview
  <2> DEFINE pc == IF SessionHeld(missed) THEN "audit" ELSE "council"
  <2>2. missed \in SUBSET HoldReads
    BY MissedReads
  <2>3. /\ pc \in {"audit", "council"} /\ pc \in Answered \cup Running
        /\ pc = "council" => ~SessionHeld(missed)
        /\ Enter(e, pc, "none", missed)
    BY <2>1 DEF Running
  <2> HIDE DEF pc
  <2>4. /\ edit' = [edit EXCEPT ![e] = edit'[e]] /\ edit'[e] \in EditHooks
        /\ edit'[e].pc = pc /\ edit'[e].missed = missed
    BY <2>2, <2>3, Entered
  <2>5. SlotOK(e)'
    BY <1>3, <1>5, <2>1, <2>3, <2>4 DEF SlotOK, Running, GateOpen
  <2> QED
    BY <1>1, <1>6, <1>11, <2>4, <2>5 DEF StartReview, Attempts, verdictVars
<1>12. ASSUME NEW v \in Verdicts, CouncilSettles(e, v) PROVE GateInv'
  <2>1. /\ edit[e].pc = "council"
        /\ edit' = [edit EXCEPT ![e] = edit'[e]] /\ edit'[e] \in EditHooks
        /\ edit'[e].pc = "mark" /\ edit'[e].outcome = "settled"
        /\ edit'[e].missed = edit[e].missed
    BY <1>12, Stepped DEF CouncilSettles, Running, Outcomes
  <2>2. /\ designs' \subseteq Designs
        /\ designs \subseteq designs'
        /\ \A d \in designs' :
             d \in designs \/ (d.by # "user" /\ d.plan = CurrentPlan)
        /\ \E d \in designs' : d.by # "user" /\ d.plan.turn = turn
    BY <1>3, <1>12, Recorded DEF CouncilSettles
  <2>3. /\ mode' = mode /\ delivered' \in 0 .. 2
        /\ last' \in Verdicts \cup {"none", "failed"}
        /\ passed \subseteq passed' /\ passed' \subseteq Plans
        /\ CurrentPlan \in passed'
        /\ marker' = marker
    BY <1>8, <1>12 DEF CouncilSettles
  <2>4. SlotOK(e)'
    BY <1>3, <1>5, <2>1, <2>2, RunningHook DEF SlotOK, Running
  <2>5. \A d \in designs' :
          d \in designs \/ (d.by # "user" /\ d.plan \in passed')
    BY <2>2, <2>3
  <2>6. marker'.status = "settled" =>
          \E d \in designs' : d.by # "user" /\ d.plan.turn = marker'.anchor
    BY <1>2, <2>2, <2>3
  <2> QED
    BY <1>1, <1>3, <2>1, <2>2, <2>3, <2>4, <2>5, <2>6, HookKeepsGateInv
<1>13. CASE CouncilObjects(e) \/ AuditObjects(e)
  <2>1. Verdict("issues") /\ UNCHANGED <<designs, marker>>
    BY <1>13 DEF CouncilObjects, AuditObjects
  <2>2. PICK from \in {"council", "audit"} : Step(e, from, "mark", "issues")
    BY <1>13 DEF CouncilObjects, AuditObjects
  <2>3. /\ edit[e].pc \in Running
        /\ edit' = [edit EXCEPT ![e] = edit'[e]] /\ edit'[e] \in EditHooks
        /\ edit'[e].pc = "mark" /\ edit'[e].outcome = "issues"
        /\ edit'[e].missed = edit[e].missed
    BY <2>2, Stepped DEF Running, Outcomes
  <2>4. SlotOK(e)'
    BY <1>3, <1>5, <2>3, RunningHook DEF SlotOK
  <2> QED
    BY <1>6, <1>8, <2>1, <2>3, <2>4 DEF Verdicts
<1>14. ASSUME Step(e, "council", "audit", "none")
       PROVE  /\ edit' = [edit EXCEPT ![e] = edit'[e]]
              /\ edit'[e] \in EditHooks
              /\ SlotOK(e)'
  <2>1. /\ edit[e].pc = "council"
        /\ edit' = [edit EXCEPT ![e] = edit'[e]] /\ edit'[e] \in EditHooks
        /\ edit'[e].pc = "audit" /\ edit'[e].missed = edit[e].missed
    BY <1>14, Stepped DEF Running
  <2>2. SlotOK(e)'
    BY <1>3, <1>5, <2>1, RunningHook DEF SlotOK, Running
  <2> QED BY <2>1, <2>2
<1>15. CASE CouncilDeclines(e)
  BY <1>1, <1>6, <1>14, <1>15 DEF CouncilDeclines, verdictVars
<1>16. ASSUME NEW v \in Verdicts, CouncilTooLate(e, v) PROVE GateInv'
  <2>1. /\ designs' \subseteq Designs
        /\ designs \subseteq designs'
        /\ \A d \in designs' :
             d \in designs \/ (d.by # "user" /\ d.plan = CurrentPlan)
    BY <1>3, <1>16, Recorded DEF CouncilTooLate
  <2>2. /\ UNCHANGED <<mode, marker, delivered, last>>
        /\ passed \subseteq passed' /\ passed' \subseteq Plans
        /\ CurrentPlan \in passed'
    BY <1>7, <1>16 DEF CouncilTooLate
  <2>4. \A d \in designs' :
          d \in designs \/ (d.by # "user" /\ d.plan \in passed')
    BY <2>1, <2>2
  <2>5. marker'.status = "settled" =>
          \E d \in designs' : d.by # "user" /\ d.plan.turn = marker'.anchor
    BY <1>2, <2>1, <2>2
  <2>6. /\ edit' = [edit EXCEPT ![e] = edit'[e]] /\ edit'[e] \in EditHooks
        /\ SlotOK(e)'
    BY <1>14, <1>16 DEF CouncilTooLate
  <2> QED
    BY <1>1, <1>3, <2>1, <2>2, <2>4, <2>5, <2>6, HookKeepsGateInv
<1>17. ASSUME NEW v \in Verdicts, AuditPasses(e, v) PROVE GateInv'
  <2>1. Verdict(v) /\ ~HasIssues(v) /\ UNCHANGED <<designs, marker>>
    BY <1>17 DEF AuditPasses
  <2>2. CurrentPlan \in passed'
    BY <1>8, <2>1
  <2>3. CASE SessionHeld(edit[e].missed)
    <3>1. Step(e, "audit", "mark", "reviewed")
      BY <1>17, <2>3 DEF AuditPasses
    <3>2. /\ edit[e].pc = "audit"
          /\ edit' = [edit EXCEPT ![e] = edit'[e]] /\ edit'[e] \in EditHooks
          /\ edit'[e].pc = "mark" /\ edit'[e].outcome = "reviewed"
          /\ edit'[e].missed = edit[e].missed
      BY <3>1, Stepped DEF Running, Outcomes
    <3>3. SlotOK(e)'
      BY <1>3, <1>5, <3>2, RunningHook DEF SlotOK, Running
    <3> QED
      BY <1>6, <1>8, <2>1, <3>2, <3>3
  <2>4. CASE ~SessionHeld(edit[e].missed)
    <3>1. Step(e, "audit", "settle", "none")
      BY <1>17, <2>4 DEF AuditPasses
    <3>2. /\ edit[e].pc = "audit"
          /\ edit' = [edit EXCEPT ![e] = edit'[e]] /\ edit'[e] \in EditHooks
          /\ edit'[e].pc = "settle" /\ edit'[e].missed = edit[e].missed
      BY <3>1, Stepped DEF Running, Outcomes
    <3>3. SlotOK(e)'
      BY <1>3, <1>5, <2>2, <2>4, <3>2, RunningHook DEF SlotOK, Running
    <3> QED
      BY <1>6, <1>8, <2>1, <3>2, <3>3
  <2> QED BY <2>3, <2>4
<1>18. CASE AuditFails(e)
  <2>1. /\ edit[e].pc = "audit"
        /\ edit' = [edit EXCEPT ![e] = edit'[e]] /\ edit'[e] \in EditHooks
        /\ edit'[e].pc = "mark" /\ edit'[e].outcome = "reviewed"
        /\ edit'[e].missed = edit[e].missed
    BY <1>18, Stepped DEF AuditFails, Running, Outcomes
  <2>2. SlotOK(e)'
    BY <1>3, <1>5, <2>1, RunningHook DEF SlotOK, Running
  <2> QED
    BY <1>1, <1>6, <1>18, <2>1, <2>2 DEF AuditFails
<1>19. CASE Settles(e) \/ SettleFails(e)
  <2>1. UNCHANGED <<mode, marker, delivered, last, passed>>
    BY <1>19 DEF Settles, SettleFails, verdictVars
  <2>2. PICK outcome \in {"settled", "reviewed"} :
          /\ Step(e, "settle", "mark", outcome)
          /\ Record("converged") \/ (outcome = "reviewed" /\ designs' = designs)
    BY <1>19 DEF Settles, SettleFails
  <2>3. /\ edit[e].pc = "settle"
        /\ edit' = [edit EXCEPT ![e] = edit'[e]] /\ edit'[e] \in EditHooks
        /\ edit'[e].pc = "mark" /\ edit'[e].outcome = outcome
        /\ edit'[e].missed = edit[e].missed
    BY <2>2, Stepped DEF Running, Outcomes
  <2>4. SlotOK(e) /\ CurrentPlan \in passed
    BY <2>3, RunningHook DEF Running, SlotOK
  <2>5. /\ designs' \subseteq Designs
        /\ designs \subseteq designs'
        /\ \A d \in designs' :
             d \in designs \/ (d.by # "user" /\ d.plan = CurrentPlan)
        /\ outcome = "settled" =>
             \E d \in designs' : d.by # "user" /\ d.plan.turn = turn
    <3>1. CASE Record("converged")
      BY <1>3, <3>1, Recorded
    <3>2. CASE outcome = "reviewed" /\ designs' = designs
      BY <1>1, <3>2
    <3> QED BY <2>2, <3>1, <3>2
  <2>6. SlotOK(e)'
    BY <1>3, <1>5, <2>3, <2>4, <2>5 DEF SlotOK, Running
  <2>7. \A d \in designs' :
          d \in designs \/ (d.by # "user" /\ d.plan \in passed')
    BY <2>1, <2>4, <2>5
  <2>8. marker'.status = "settled" =>
          \E d \in designs' : d.by # "user" /\ d.plan.turn = marker'.anchor
    BY <1>2, <2>1, <2>5
  <2> QED
    BY <1>1, <1>3, <2>1, <2>3, <2>5, <2>6, <2>7, <2>8, HookKeepsGateInv
<1>20. CASE Answer(e)
  <2>1. PICK pc \in {"landed", "denied"} : Step(e, "mark", pc, "none")
    BY <1>20 DEF Answer
  <2>2. UNCHANGED <<mode, delivered, last, passed, designs>>
    BY <1>20 DEF Answer, verdictVars
  <2>3. /\ edit[e].pc = "mark"
        /\ edit' = [edit EXCEPT ![e] = edit'[e]] /\ edit'[e] \in EditHooks
        /\ edit'[e].pc \in Answered
    BY <2>1, Stepped DEF Answered
  <2>4. SlotOK(e)'
    BY <2>3, AnsweredSlotOK
  <2>5. edit[e].outcome \in Outcomes \cup {"none"}
        /\ (edit[e].outcome = "settled" =>
              \E d \in designs : d.by # "user" /\ d.plan.turn = turn)
    BY <1>1, <2>3, RunningHook DEF Running, SlotOK, EditHooks
  <2>6. \/ marker' = [anchor |-> turn, status |-> edit[e].outcome]
        \/ marker' = marker
        \/ marker' = [anchor |-> 0, status |-> "none"]
    BY <1>20 DEF Answer, MarkFired, NoMarker
  <2>7. /\ marker' \in [anchor : 0 .. MaxTurns,
                        status : Outcomes \cup {"none"}]
        /\ marker'.anchor <= turn
        /\ marker'.status = "settled" =>
             \E d \in designs' : d.by # "user" /\ d.plan.turn = marker'.anchor
    <3>1. CASE marker' = [anchor |-> turn, status |-> edit[e].outcome]
      BY <1>1, <2>2, <2>5, <3>1
    <3>2. CASE marker' = marker
      BY <1>1, <1>2, <2>2, <3>2
    <3>3. CASE marker' = [anchor |-> 0, status |-> "none"]
      BY <1>1, HoldAssumption, <3>3 DEF HoldAssumption
    <3> QED BY <2>6, <3>1, <3>2, <3>3
  <2>8. \A d \in designs' :
          d \in designs \/ (d.by # "user" /\ d.plan \in passed')
    BY <2>2
  <2> QED
    BY <1>1, <1>3, <2>2, <2>3, <2>4, <2>7, <2>8, HookKeepsGateInv
<1> QED
  BY <1>9, <1>10, <1>11, <1>12, <1>13, <1>15, <1>16, <1>17, <1>18, <1>19,
     <1>20 DEF EditHook

(* The agent writes only between its tool calls: no hook has read a plan   *)
(* that changes under it.                                                  *)
LEMMA ReasonsKeepsGateInv ==
  ASSUME GateInv, Reasons
  PROVE  GateInv'
<1>1. WritesPlan /\ Quiet /\ UNCHANGED <<mode, marker, edit, delivered, last, passed>>
  BY DEF Reasons, gateVars, verdictVars
<1>2. UNCHANGED <<phase, turn, posture, designs>>
  BY <1>1 DEF WritesPlan, postureVars
<1>3. HoldInv' /\ RequestShutsGate' /\ HoldTypeOK'
  BY <1>1, HoldInvNext, RequestShutsGateNext DEF GateInv, HoldNext, HoldInv
<1>4. GateTypeOK'
  BY <1>1, <1>3 DEF GateInv, GateTypeOK
<1>5. \A e \in Edits : SlotOK(e)'
  BY <1>1, AnsweredSlotOK DEF Quiet
<1>6. GateShape' /\ SettledIsEarned'
  BY <1>1, <1>2 DEF GateInv, GateShape, SettledIsEarned
<1> QED BY <1>3, <1>4, <1>5, <1>6 DEF GateInv

(* The agent's tool records a plan that its own review let pass.           *)
LEMMA ProposeToolKeepsGateInv ==
  ASSUME GateInv, NEW by \in {"converged", "council"}, NEW v \in Verdicts,
         ProposeTool(by, v)
  PROVE  GateInv'
<1>1. /\ phase = "agent" /\ AgentKeepsFloor /\ Record(by)
      /\ passed' = passed \cup {CurrentPlan}
      /\ UNCHANGED <<mode, marker, edit, delivered, last>>
  BY DEF ProposeTool, Judged
<1>2. /\ CurrentPlan \in Plans
      /\ designs' \subseteq Designs
      /\ designs \subseteq designs'
      /\ \A d \in designs' :
           d \in designs \/ (d.by # "user" /\ d.plan = CurrentPlan)
  BY <1>1, Recorded
<1>3. HoldInv' /\ RequestShutsGate' /\ HoldTypeOK'
  <2>1. HoldInv' /\ RequestShutsGate'
    BY <1>1, <1>2, HoldInvKept DEF GateInv, AgentKeepsFloor
  <2> QED BY <2>1 DEF HoldInv
<1>4. GateTypeOK'
  BY <1>1, <1>2, <1>3 DEF GateInv, GateTypeOK
<1>5. GateShape'
  BY <1>1 DEF GateInv, GateShape, AgentKeepsFloor
<1>6. \A e \in Edits : SlotOK(e)'
  BY <1>1, <1>2, SlotKept DEF GateInv
<1>7. SettledIsEarned'
  BY <1>1, <1>2 DEF GateInv, SettledIsEarned
<1> QED BY <1>3, <1>4, <1>5, <1>6, <1>7 DEF GateInv

(* The end of the agent's turn: no hook runs on, and the marker says       *)
(* "settled" only where it said so before.                                 *)
LEMMA TurnEndKeepsGateInv ==
  ASSUME GateInv, phase = "agent", phase' \in {"agent", "user"},
         UNCHANGED <<turn, prose, review, designs, postureVars, mode>>,
         delivered' \in 0 .. 2,
         last' \in Verdicts \cup {"none", "failed"},
         passed \subseteq passed', passed' \subseteq Plans,
         edit' \in [Edits -> EditHooks],
         \A e \in Edits : edit'[e].pc \in Answered,
         \/ marker' = marker
         \/ marker' = [anchor |-> turn, status |-> "reviewed"]
         \/ marker' = NoMarker
  PROVE  GateInv'
<1>1. HoldInv' /\ RequestShutsGate' /\ HoldTypeOK'
  <2>1. HoldInv' /\ RequestShutsGate'
    BY HoldInvKept DEF GateInv, HoldInv, HoldTypeOK
  <2> QED BY <2>1 DEF HoldInv
<1>2. turn \in 0 .. MaxTurns
  BY DEF GateInv, HoldInv, HoldTypeOK
<1>3. /\ marker' \in [anchor : 0 .. MaxTurns, status : Outcomes \cup {"none"}]
      /\ marker'.anchor <= turn'
      /\ marker'.status = "settled" => marker' = marker
  <2>1. CASE marker' = marker
    BY <2>1 DEF GateInv, GateTypeOK, GateShape
  <2>2. CASE marker' = [anchor |-> turn, status |-> "reviewed"]
    BY <1>2, <2>2 DEF Outcomes
  <2>3. CASE marker' = [anchor |-> 0, status |-> "none"]
    BY <1>2, <2>3, HoldAssumption DEF HoldAssumption
  <2> QED BY <2>1, <2>2, <2>3 DEF NoMarker
<1>4. GateTypeOK'
  BY <1>1, <1>3 DEF GateInv, GateTypeOK
<1>5. GateShape'
  BY <1>3 DEF GateInv, GateShape
<1>6. \A e \in Edits : SlotOK(e)'
  BY AnsweredSlotOK
<1>7. SettledIsEarned'
  BY <1>3 DEF GateInv, SettledIsEarned
<1> QED BY <1>1, <1>4, <1>5, <1>6, <1>7 DEF GateInv

LEMMA StopKeepsGateInv ==
  ASSUME GateInv, Stop \/ Interrupt
  PROVE  GateInv'
<1> USE DEF GateInv, GateTypeOK
<1>1. CurrentPlan \in Plans
  BY HoldAssumption DEF HoldAssumption, HoldInv, HoldTypeOK, Plans, CurrentPlan
<1>2. ASSUME Stops
      PROVE  /\ phase = "agent" /\ phase' \in {"agent", "user"}
             /\ UNCHANGED <<turn, prose, review, designs, postureVars>>
             /\ edit' \in [Edits -> EditHooks]
             /\ \A e \in Edits : edit'[e].pc \in Answered
  BY <1>2 DEF Stops, KeeperAnswers, Quiet
<1>3. CASE StopSilent \/ StopReviewFails
  BY <1>2, <1>3, TurnEndKeepsGateInv
    DEF StopSilent, StopReviewFails, verdictVars
<1>4. CASE StopNoPlan
  BY <1>2, <1>4, TurnEndKeepsGateInv DEF StopNoPlan, verdictVars, MarkFired
<1>5. ASSUME NEW v \in Verdicts, StopReview(v) PROVE GateInv'
  <2>1. /\ mode' = mode /\ delivered' \in 0 .. 2
        /\ last' \in Verdicts \cup {"none", "failed"}
        /\ passed \subseteq passed' /\ passed' \subseteq Plans
    BY <1>1, <1>5 DEF StopReview, Verdict, Judged
  <2> QED
    BY <1>2, <1>5, <2>1, TurnEndKeepsGateInv DEF StopReview, MarkFired
<1>6. CASE Interrupt
  <2>1. /\ edit' \in [Edits -> EditHooks]
        /\ \A e \in Edits : edit'[e].pc \in Answered
    BY <1>6 DEF Interrupt, NoEdit, Answered, EditHooks
  <2> QED
    BY <1>6, <2>1, TurnEndKeepsGateInv DEF Interrupt, verdictVars
<1> QED BY <1>3, <1>4, <1>5, <1>6 DEF Stop

(* Every step keeps the invariant.                                         *)
LEMMA GateInvNext == GateInv /\ [Next]_vars => GateInv'
<1> SUFFICES ASSUME GateInv, [Next]_vars PROVE GateInv'
  OBVIOUS
<1>1. CASE IntakeStep
  BY <1>1, IntakeKeepsGateInv
<1>2. CASE Reasons
  BY <1>2, ReasonsKeepsGateInv
<1>3. CASE \E e \in Edits : EditHook(e)
  BY <1>3, EditHookKeepsGateInv
<1>4. CASE \E by \in {"converged", "council"}, v \in Verdicts : ProposeTool(by, v)
  BY <1>4, ProposeToolKeepsGateInv
<1>5. CASE Stop \/ Interrupt
  BY <1>5, StopKeepsGateInv
<1>6. CASE UNCHANGED vars
  <2>1. UNCHANGED holdVars /\ UNCHANGED <<mode, marker, edit, delivered, last, passed>>
    BY <1>6 DEF vars, gateVars, verdictVars
  <2>2. HoldInv' /\ RequestShutsGate' /\ HoldTypeOK'
    BY <2>1, HoldInvNext, RequestShutsGateNext DEF GateInv, HoldInv
  <2>3. \A e \in Edits : SlotOK(e)'
    BY <2>1 DEF GateInv, SlotOK, holdVars, GateShut, SessionHeld, CurrentPlan
  <2> QED
    BY <2>1, <2>2, <2>3 DEF GateInv, GateTypeOK, GateShape, SettledIsEarned,
      holdVars
<1> QED BY <1>1, <1>2, <1>3, <1>4, <1>5, <1>6 DEF Next

(* The invariant holds of every behaviour.                                 *)
THEOREM GateInvariant == Spec => []GateInv
  BY GateInvInit, GateInvNext, PTL DEF Spec

-----------------------------------------------------------------------------
(* The variables of the gate keep their types.                             *)
THEOREM GateTyped == Spec => []GateTypeOK
<1>1. GateInv => GateTypeOK
  BY DEF GateInv
<1> QED BY <1>1, GateInvariant, PTL

(* Of what saddle settles by itself some review named no issue, and a turn *)
(* marked "settled" has its design in the store (_design_outcome,          *)
(* _mark_design_fired), with any number of hooks in parallel and marker    *)
(* writes lost or torn.  It may have been flagged: the callers of the      *)
(* audit look at the issues it names and at nothing else.                  *)
THEOREM SettledIsEarnedHolds == Spec => []SettledIsEarned
<1>1. GateInv => SettledIsEarned
  BY DEF GateInv
<1> QED BY <1>1, GateInvariant, PTL

(* The gate's own designs, refused stops and interrupts do not open the    *)
(* gate to an unanswered request, nor disturb the user's approvals.        *)
THEOREM PostureInvariantsHold ==
  Spec => [](RequestShutsGate /\ OpenHoldStands /\ ApprovedPlanAnswersGoal)
<1>1. GateInv => RequestShutsGate /\ OpenHoldStands /\ ApprovedPlanAnswersGoal
  BY DEF GateInv, HoldInv
<1> QED BY <1>1, GateInvariant, PTL

(* Only a hook's own steps answer an edit.                                 *)
LEMMA AnswersAreHooks ==
  ASSUME GateInv, [Next]_vars, NEW e \in Edits, Lands(e)
  PROVE  PassReviewed(e) \/ (Answer(e) /\ edit'[e].pc = "landed")
<1> USE DEF Lands
<1>1. edit \in [Edits -> EditHooks]
  BY DEF GateInv, GateTypeOK
<1>2. edit'[e] # edit[e]
  OBVIOUS
<1>3. ~IntakeStep
  BY <1>2 DEF IntakeStep, NoEdit
<1>4. ~Reasons /\ ~Stop /\ ~UNCHANGED vars
  BY <1>2 DEF Reasons, gateVars, Stop, StopSilent, StopNoPlan, StopReview,
    StopReviewFails, Stops, vars
<1>5. ~Interrupt /\ \A by, v : ~ProposeTool(by, v)
  BY <1>2 DEF Interrupt, NoEdit, ProposeTool
<1>6. PICK f \in Edits : EditHook(f)
  BY <1>3, <1>4, <1>5 DEF Next
<1>7. ASSUME edit' = [edit EXCEPT ![f] = edit'[f]] PROVE f = e
  BY <1>1, <1>2, <1>7
<1>8. ASSUME NEW pc \in Answered \cup Running, NEW outcome \in Outcomes \cup {"none"},
             NEW missed \in SUBSET HoldReads, Enter(f, pc, outcome, missed)
      PROVE  pc = "landed" /\ f = e
  <2>1. edit' = [edit EXCEPT ![f] = edit'[f]] /\ edit'[f].pc = pc
    BY <1>8, Entered
  <2>2. f = e
    BY <1>7, <2>1
  <2> QED BY <2>1, <2>2
<1>9. ASSUME NEW from, NEW pc \in Answered \cup Running,
             NEW outcome \in Outcomes \cup {"none"}, Step(f, from, pc, outcome)
      PROVE  pc = "landed" /\ f = e
  <2>1. edit' = [edit EXCEPT ![f] = edit'[f]] /\ edit'[f].pc = pc
    BY <1>9, Stepped
  <2>2. f = e
    BY <1>7, <2>1
  <2> QED BY <2>1, <2>2
<1>10. {"issues", "reviewed", "settled", "none"} = Outcomes \cup {"none"}
       /\ {"council", "audit", "settle", "mark", "denied", "landed"}
            \subseteq Answered \cup Running
       /\ {} \in SUBSET HoldReads
  BY DEF Outcomes, Answered, Running
<1>11. ~DenyHeld(f)
  BY <1>8, <1>10 DEF DenyHeld
<1>12. ~NoRecordedDesign(f)
  <2> SUFFICES ASSUME NoRecordedDesign(f) PROVE FALSE
    OBVIOUS
  <2>1. PICK missed \in Missed({"gate"}) : Enter(f, "mark", "issues", missed)
    BY DEF NoRecordedDesign
  <2>2. missed \in SUBSET HoldReads
    BY MissedReads DEF HoldReads
  <2> QED BY <1>8, <1>10, <2>1, <2>2
<1>13. ~StartReview(f)
  <2> SUFFICES ASSUME StartReview(f) PROVE FALSE
    OBVIOUS
  <2>1. PICK missed \in Missed(HoldReads) :
          Enter(f, IF SessionHeld(missed) THEN "audit" ELSE "council",
                "none", missed)
    BY DEF StartReview
  <2>2. PICK pc \in {"audit", "council"} : Enter(f, pc, "none", missed)
    BY <2>1
  <2>3. missed \in SUBSET HoldReads
    BY MissedReads
  <2> QED BY <1>8, <1>10, <2>2, <2>3
<1>14. \A v \in Verdicts :
         ~CouncilSettles(f, v) /\ ~CouncilTooLate(f, v) /\ ~AuditPasses(f, v)
  BY <1>9, <1>10 DEF CouncilSettles, CouncilTooLate, AuditPasses
<1>15. ~CouncilObjects(f) /\ ~CouncilDeclines(f) /\ ~AuditObjects(f)
  BY <1>9, <1>10 DEF CouncilObjects, CouncilDeclines, AuditObjects
<1>16. ~AuditFails(f) /\ ~Settles(f) /\ ~SettleFails(f)
  BY <1>9, <1>10 DEF AuditFails, Settles, SettleFails
<1>17. CASE PassReviewed(f)
  <2>1. PICK missed \in Missed({"gate"}) : Enter(f, "landed", "none", missed)
    BY <1>17 DEF PassReviewed
  <2>2. missed \in SUBSET HoldReads
    BY MissedReads DEF HoldReads
  <2>3. f = e
    BY <1>8, <1>10, <2>1, <2>2
  <2> QED BY <1>17, <2>3
<1>18. CASE Answer(f)
  <2>1. PICK pc \in {"denied", "landed"} : Step(f, "mark", pc, "none")
    BY <1>18 DEF Answer
  <2>2. f = e
    BY <1>9, <1>10, <2>1
  <2> QED BY <1>18, <2>2
<1> QED
  BY <1>6, <1>11, <1>12, <1>13, <1>14, <1>15, <1>16, <1>17, <1>18 DEF EditHook

(* No code edit passes while a request to see the plan is unanswered,      *)
(* unless its own hook could not read the posture at the hold gate         *)
(* (_run_design_stage, _hold_denies_edit, read_posture): the gate was open *)
(* when the hook looked and cannot have shut while the agent waited for    *)
(* it.  What other hooks, other reads and the intake missed opens nothing. *)
THEOREM ConsentBeforeCodeHolds == Spec => ConsentBeforeCode
<1>1. GateInv /\ [Next]_vars =>
        [\A e \in Edits :
           Lands(e) => ~awaiting \/ "gate" \in edit'[e].missed]_vars
  <2> SUFFICES ASSUME GateInv, [Next]_vars, NEW e \in Edits, Lands(e)
               PROVE  ~awaiting \/ "gate" \in edit'[e].missed
    OBVIOUS
  <2>1. GateShut => "gate" \in edit'[e].missed
    <3>1. CASE PassReviewed(e)
      <4>1. PICK missed \in Missed({"gate"}) :
              GateOpen(missed) /\ Enter(e, "landed", "none", missed)
        BY <3>1 DEF PassReviewed
      <4>2. missed \in SUBSET HoldReads
        BY MissedReads DEF HoldReads
      <4>3. edit'[e].missed = missed
        BY <4>1, <4>2, Entered DEF Answered
      <4> QED BY <4>1, <4>3 DEF GateOpen
    <3>2. CASE Answer(e)
      <4>1. PICK pc \in {"denied", "landed"} : Step(e, "mark", pc, "none")
        BY <3>2 DEF Answer
      <4>2. edit[e].pc = "mark" /\ edit'[e].missed = edit[e].missed
        BY <4>1, Stepped DEF Answered
      <4> QED BY <4>2, RunningHook DEF Running
    <3> QED BY <3>1, <3>2, AnswersAreHooks
  <2> QED BY <2>1 DEF GateInv, RequestShutsGate
<1> QED BY <1>1, GateInvariant, PTL DEF Spec, ConsentBeforeCode

(* No edit hook records a design under a hold (_design_outcome), unless it *)
(* could not read the posture before its review: what it read then is the  *)
(* posture at the settlement.                                              *)
THEOREM NoHookSettlesUnderHoldHolds == Spec => NoHookSettlesUnderHold
<1>1. GateInv /\ [Next]_vars =>
        [\A e \in Edits :
           designs' # designs /\ edit'[e] # edit[e] /\ posture.state = "hold"
             => "review" \in edit[e].missed]_vars
  <2> SUFFICES ASSUME GateInv, [Next]_vars, designs' # designs,
                      NEW e \in Edits, edit'[e] # edit[e],
                      posture.state = "hold"
               PROVE  "review" \in edit[e].missed
    OBVIOUS
  <2>1. ~Reasons /\ ~Stop /\ ~Interrupt /\ ~UNCHANGED vars
        /\ \A by, v : ~ProposeTool(by, v)
    BY DEF Reasons, WritesPlan, Stop, StopSilent, StopNoPlan, StopReview,
      StopReviewFails, Stops, Interrupt, vars, holdVars, gateVars, ProposeTool
  <2>2. ~IntakeStep
    <3> SUFFICES ASSUME IntakeStep PROVE FALSE
      OBVIOUS
    <3>1. turn' # turn /\ Intake
      BY DEF IntakeStep
    <3>2. phase = "user"
      BY <3>1, IntakeEffects DEF GateInv
    <3>3. review.pc = "idle"
      BY <3>2 DEF GateInv, HoldInv, ReviewShape
    <3> QED
      BY <3>1, <3>3 DEF Intake, SubmitTrivial, SubmitReviewed, NewTurn,
        AutonomyGrant, Intervene, RequestReview, Unmoved, ApproveTalk,
        ApprovePlan, ApproveHeld, Classified, SettleCommits, SettleReturns,
        SettleRaises, ReviewCutShort
  <2>3. PICK f \in Edits : EditHook(f)
    BY <2>1, <2>2 DEF Next
  <2>4. \/ \E v \in Verdicts : CouncilSettles(f, v) \/ CouncilTooLate(f, v)
        \/ Settles(f) \/ SettleFails(f)
    BY <2>3 DEF EditHook, DenyHeld, PassReviewed, NoRecordedDesign,
      StartReview, Attempts, CouncilObjects, CouncilDeclines, AuditPasses,
      AuditObjects, AuditFails, Answer
  <2>5. PICK from \in {"council", "settle"}, to \in {"mark", "audit"},
             outcome \in Outcomes \cup {"none"} : Step(f, from, to, outcome)
    BY <2>4 DEF CouncilSettles, CouncilTooLate, Settles, SettleFails, Outcomes
  <2>6. edit[f].pc \in {"council", "settle"}
        /\ edit' = [edit EXCEPT ![f] = edit'[f]]
    BY <2>5, Stepped DEF Running
  <2>7. f = e
    BY <2>6 DEF GateInv, GateTypeOK
  <2> QED BY <2>6, <2>7 DEF GateInv, SlotOK, SessionHeld
<1> QED BY <1>1, GateInvariant, PTL DEF Spec, NoHookSettlesUnderHold

-----------------------------------------------------------------------------
(* The reviews of a turn, when the agent attempts one edit at a time.      *)

(* The outcome a hook is about to record says how the last review went.    *)
LEMMA OutcomeInvHook ==
  ASSUME GateInv, OutcomeInv, \A e, f \in Edits : e = f,
         NEW e \in Edits, EditHook(e)
  PROVE  OutcomeInv'
<1>1. ASSUME edit'[e].pc = "settle" => last' \in NamedNone,
             edit'[e].pc = "mark" /\ edit'[e].outcome # "issues"
               => last' \in NamedNone
      PROVE  OutcomeInv'
  BY <1>1 DEF OutcomeInv
<1>2. /\ \A pc \in Answered \cup Running, outcome \in Outcomes \cup {"none"},
           missed \in SUBSET HoldReads :
             Enter(e, pc, outcome, missed) =>
               edit'[e].pc = pc /\ edit'[e].outcome = outcome
      /\ \A from, pc \in Answered \cup Running, outcome \in Outcomes \cup {"none"} :
             Step(e, from, pc, outcome) =>
               /\ edit[e].pc = from
               /\ edit'[e].pc = pc /\ edit'[e].outcome = outcome
  BY Entered, Stepped
<1>3. {"issues", "reviewed", "settled", "none"} = Outcomes \cup {"none"}
      /\ {"council", "audit", "settle", "mark", "denied", "landed"}
           \subseteq Answered \cup Running
      /\ {} \in SUBSET HoldReads
  BY DEF Outcomes, Answered, Running
<1>4. CASE DenyHeld(e) \/ PassReviewed(e) \/ NoRecordedDesign(e)
  <2>1. PICK pc \in {"denied", "landed", "mark"},
             outcome \in Outcomes \cup {"none"}, missed \in SUBSET HoldReads :
          /\ Enter(e, pc, outcome, missed)
          /\ pc = "mark" => outcome = "issues"
    <3>1. CASE DenyHeld(e)
      BY <1>3, <3>1 DEF DenyHeld
    <3>2. CASE PassReviewed(e)
      <4>1. PICK missed \in Missed({"gate"}) : Enter(e, "landed", "none", missed)
        BY <3>2 DEF PassReviewed
      <4>2. missed \in SUBSET HoldReads
        BY MissedReads DEF HoldReads
      <4> QED BY <1>3, <4>1, <4>2
    <3>3. CASE NoRecordedDesign(e)
      <4>1. PICK missed \in Missed({"gate"}) : Enter(e, "mark", "issues", missed)
        BY <3>3 DEF NoRecordedDesign
      <4>2. missed \in SUBSET HoldReads
        BY MissedReads DEF HoldReads
      <4> QED BY <1>3, <4>1, <4>2
    <3> QED BY <1>4, <3>1, <3>2, <3>3
  <2>2. edit'[e].pc = pc /\ edit'[e].outcome = outcome
    BY <1>2, <1>3, <2>1
  <2> QED BY <1>1, <2>1, <2>2
<1>5. CASE StartReview(e)
  <2>1. PICK missed \in Missed(HoldReads) :
          Enter(e, IF SessionHeld(missed) THEN "audit" ELSE "council",
                "none", missed)
    BY <1>5 DEF StartReview
  <2>2. PICK pc \in {"audit", "council"} : Enter(e, pc, "none", missed)
    BY <2>1
  <2>3. missed \in SUBSET HoldReads
    BY MissedReads
  <2>4. edit'[e].pc = pc
    BY <1>2, <1>3, <2>2, <2>3
  <2> QED BY <1>1, <2>4
<1>6. ASSUME NEW v \in Verdicts, CouncilSettles(e, v) \/ AuditPasses(e, v)
      PROVE  OutcomeInv'
  <2>1. last' \in NamedNone
    BY <1>6 DEF CouncilSettles, AuditPasses, Verdict, Verdicts, HasIssues,
      NamedNone
  <2> QED BY <1>1, <2>1
<1>7. CASE CouncilObjects(e) \/ AuditObjects(e)
  <2>1. edit'[e].outcome = "issues" /\ edit'[e].pc = "mark"
    BY <1>2, <1>3, <1>7 DEF CouncilObjects, AuditObjects
  <2> QED BY <1>1, <2>1
<1>8. CASE CouncilDeclines(e) \/ \E v \in Verdicts : CouncilTooLate(e, v)
  <2>1. edit'[e].pc = "audit"
    BY <1>2, <1>3, <1>8 DEF CouncilDeclines, CouncilTooLate
  <2> QED BY <1>1, <2>1
<1>9. CASE AuditFails(e)
  BY <1>1, <1>9 DEF AuditFails, NamedNone
<1>10. CASE Settles(e) \/ SettleFails(e)
  <2>1. edit[e].pc = "settle" /\ last' = last
    BY <1>2, <1>3, <1>10 DEF Settles, SettleFails, verdictVars
  <2> QED BY <1>1, <2>1 DEF OutcomeInv
<1>11. CASE Answer(e)
  <2>1. PICK pc \in {"denied", "landed"} : Step(e, "mark", pc, "none")
    BY <1>11 DEF Answer
  <2>2. edit'[e].pc = pc
    BY <1>2, <1>3, <2>1
  <2> QED BY <1>1, <2>2
<1> QED
  BY <1>4, <1>5, <1>6, <1>7, <1>8, <1>9, <1>10, <1>11 DEF EditHook

LEMMA OutcomeInvNext ==
  ASSUME GateInv, OutcomeInv, \A e, f \in Edits : e = f, [Next]_vars
  PROVE  OutcomeInv'
<1>1. ASSUME \A e \in Edits : edit'[e].pc \in Answered PROVE OutcomeInv'
  BY <1>1 DEF OutcomeInv, Answered
<1>2. CASE IntakeStep
  <2>1. CASE turn' # turn
    BY <1>1, <1>2, <2>1 DEF IntakeStep, NoEdit, Answered
  <2>2. CASE turn' = turn
    <3>1. phase # "agent"
      BY <1>2, IntakeEffects DEF IntakeStep, GateInv
    <3> QED
      BY <1>1, <1>2, <2>2, <3>1, NoHookRuns DEF IntakeStep
  <2> QED BY <2>1, <2>2
<1>3. CASE Reasons
  BY <1>1, <1>3 DEF Reasons, gateVars, Quiet
<1>4. CASE \E e \in Edits : EditHook(e)
  BY <1>4, OutcomeInvHook
<1>5. CASE \E by \in {"converged", "council"}, v \in Verdicts : ProposeTool(by, v)
  BY <1>5 DEF ProposeTool, OutcomeInv
<1>6. CASE Stop
  BY <1>1, <1>6 DEF Stop, StopSilent, StopNoPlan, StopReview,
    StopReviewFails, Stops, Quiet
<1>7. CASE Interrupt
  BY <1>1, <1>7 DEF Interrupt, NoEdit, Answered
<1>8. CASE UNCHANGED vars
  BY <1>8 DEF vars, gateVars, verdictVars, OutcomeInv
<1> QED BY <1>2, <1>3, <1>4, <1>5, <1>6, <1>7, <1>8 DEF Next

(* In the strict mode an edit passes a turn on record with issues only     *)
(* after a new review that names none, or fails, with markers lost or      *)
(* torn; of edits attempted together one may pass on an older verdict.     *)
THEOREM StrictGateReviewsAgainHolds ==
  ASSUME \A e, f \in Edits : e = f
  PROVE  Spec => StrictGateReviewsAgain
<1>1. Init => OutcomeInv
  BY DEF Init, NoEdit, OutcomeInv
<1>2. GateInv /\ OutcomeInv /\ [Next]_vars => OutcomeInv'
  BY OutcomeInvNext
<1>3. GateInv /\ OutcomeInv /\ [Next]_vars =>
        [\A e \in Edits :
           Lands(e) /\ mode = "deny" /\ MarkerStatus = "issues"
             => last \in {"clean", "flagged", "failed"}]_vars
  <2> SUFFICES ASSUME GateInv, OutcomeInv, [Next]_vars, NEW e \in Edits,
                      Lands(e), mode = "deny", MarkerStatus = "issues"
               PROVE  last \in NamedNone
    BY DEF NamedNone
  <2>1. ~PassReviewed(e)
    BY DEF PassReviewed, AlreadyReviewed
  <2>2. Answer(e) /\ edit'[e].pc = "landed"
    BY <2>1, AnswersAreHooks
  <2>3. edit[e].outcome # "issues"
    <3> SUFFICES ASSUME edit[e].outcome = "issues" PROVE FALSE
      OBVIOUS
    <3>1. Step(e, "mark", "denied", "none")
      BY <2>2 DEF Answer
    <3>2. edit'[e].pc = "denied"
      BY <3>1, Stepped DEF Answered
    <3> QED BY <2>2, <3>2
  <2>4. edit[e].pc = "mark"
    BY <2>2 DEF Answer, Step
  <2> QED BY <2>3, <2>4 DEF OutcomeInv
<1> QED
  BY <1>1, <1>2, <1>3, GateInvariant, PTL DEF Spec, StrictGateReviewsAgain

(* The bookkeeping of reviews survives a hook's step: a hook starts a      *)
(* review only of an unmarked turn, or again after issues, and marks it.   *)
LEMMA ReviewInvHook ==
  ASSUME GateInv, ReviewInv, \A e, f \in Edits : e = f, ~MarkerMayFail,
         NEW e \in Edits, EditHook(e)
  PROVE  ReviewInv'
<1>1. /\ \A f \in Edits : f = e
      /\ edit[e].pc \in Answered => Quiet
      /\ edit'[e].pc \in Running => ~Quiet'
  BY DEF Quiet, Answered, Running
<1>2. phase = "agent" /\ AgentKeepsFloor
  BY HookKeepsFloor
<1>3. UNCHANGED <<phase, turn, prose>>
  BY <1>2 DEF AgentKeepsFloor
<1>4. /\ \A pc \in Answered \cup Running, outcome \in Outcomes \cup {"none"},
           missed \in SUBSET HoldReads :
             Enter(e, pc, outcome, missed) =>
               edit'[e].pc = pc /\ edit'[e].outcome = outcome
      /\ \A from, pc \in Answered \cup Running, outcome \in Outcomes \cup {"none"} :
             Step(e, from, pc, outcome) =>
               /\ edit[e].pc = from
               /\ edit'[e].pc = pc /\ edit'[e].outcome = outcome
  BY Entered, Stepped
<1>5. {"issues", "reviewed", "settled", "none"} = Outcomes \cup {"none"}
      /\ Answered \cup Running = {"council", "audit", "settle", "mark",
                                   "idle", "denied", "landed"}
      /\ {} \in SUBSET HoldReads
  BY DEF Outcomes, Answered, Running
<1>6. CASE DenyHeld(e) \/ PassReviewed(e)
  <2>1. PICK pc \in {"landed", "denied"}, missed \in SUBSET HoldReads :
          Enter(e, pc, "none", missed)
    <3>1. CASE DenyHeld(e)
      BY <1>5, <3>1 DEF DenyHeld
    <3>2. CASE PassReviewed(e)
      <4>1. PICK missed \in Missed({"gate"}) : Enter(e, "landed", "none", missed)
        BY <3>2 DEF PassReviewed
      <4>2. missed \in SUBSET HoldReads
        BY MissedReads DEF HoldReads
      <4> QED BY <4>1, <4>2
    <3> QED BY <1>6, <3>1, <3>2
  <2>2. edit'[e].pc = pc
    BY <1>4, <1>5, <2>1
  <2>3. UNCHANGED <<marker, mode, delivered, last>> /\ Quiet
    BY <1>1, <1>6 DEF DenyHeld, PassReviewed, Attempts, verdictVars
  <2>4. MarkerStatus' = MarkerStatus
    BY <1>3, <2>3 DEF MarkerStatus
  <2> QED BY <1>1, <1>2, <1>3, <2>2, <2>3, <2>4 DEF ReviewInv
<1>7. CASE NoRecordedDesign(e)
  <2>1. PICK missed \in Missed({"gate"}) : Enter(e, "mark", "issues", missed)
    BY <1>7 DEF NoRecordedDesign
  <2>2. missed \in SUBSET HoldReads
    BY MissedReads DEF HoldReads
  <2>3. edit'[e].pc = "mark" /\ edit'[e].outcome = "issues"
    BY <1>4, <1>5, <2>1, <2>2
  <2>4. UNCHANGED <<mode, delivered, last>> /\ prose[turn] = 0
    BY <1>7 DEF NoRecordedDesign, verdictVars
  <2>5. delivered = 0
    BY <1>2, <2>4 DEF ReviewInv
  <2>6. ~Quiet'
    BY <1>1, <2>3 DEF Running
  <2> QED BY <1>1, <1>2, <1>3, <2>3, <2>4, <2>5, <2>6 DEF ReviewInv
<1>8. CASE StartReview(e)
  <2>1. PICK missed \in Missed(HoldReads) :
          Enter(e, IF SessionHeld(missed) THEN "audit" ELSE "council",
                "none", missed)
    BY <1>8 DEF StartReview
  <2>2. PICK pc \in {"audit", "council"} : Enter(e, pc, "none", missed)
    BY <2>1
  <2>3. missed \in SUBSET HoldReads
    BY MissedReads
  <2>4. edit'[e].pc = pc
    BY <1>4, <1>5, <2>2, <2>3
  <2>5. UNCHANGED <<mode, delivered, last>> /\ prose[turn] > 0
        /\ ~AlreadyReviewed /\ Quiet
    BY <1>1, <1>8 DEF StartReview, Attempts, verdictVars
  <2>6. MayReview
    BY <1>2, <2>5 DEF ReviewInv, AlreadyReviewed, MayReview
  <2>7. ~Quiet'
    BY <1>1, <2>4 DEF Running
  <2> QED
    BY <1>1, <1>2, <1>3, <2>4, <2>5, <2>6, <2>7 DEF ReviewInv, MayReview
<1>9. CASE \/ CouncilObjects(e) \/ AuditObjects(e)
           \/ \E v \in Verdicts : CouncilSettles(e, v) \/ AuditPasses(e, v)
  <2>1. PICK from \in {"council", "audit"}, pc \in {"mark", "settle"},
             outcome \in Outcomes \cup {"none"} :
          /\ Step(e, from, pc, outcome)
          /\ pc = "mark" => outcome # "none"
          /\ pc = "mark" /\ outcome = "issues" => last' = "issues"
    <3>1. CASE \E v \in Verdicts : CouncilSettles(e, v)
      BY <1>5, <3>1 DEF CouncilSettles
    <3>2. CASE CouncilObjects(e) \/ AuditObjects(e)
      BY <1>5, <3>2 DEF CouncilObjects, AuditObjects, Verdict
    <3>3. CASE /\ \E v \in Verdicts : AuditPasses(e, v)
               /\ SessionHeld(edit[e].missed)
      BY <1>5, <3>3 DEF AuditPasses
    <3>4. CASE /\ \E v \in Verdicts : AuditPasses(e, v)
               /\ ~SessionHeld(edit[e].missed)
      BY <1>5, <3>4 DEF AuditPasses
    <3> QED BY <1>9, <3>1, <3>2, <3>3, <3>4
  <2>2. edit[e].pc = from /\ edit'[e].pc = pc /\ edit'[e].outcome = outcome
    BY <1>4, <1>5, <2>1
  <2>3. prose[turn] > 0
    BY <2>2 DEF ReviewInv
  <2>4. ~Quiet'
    BY <1>1, <2>2 DEF Running
  <2> QED BY <1>1, <1>2, <1>3, <2>1, <2>2, <2>3, <2>4 DEF ReviewInv
<1>10. CASE CouncilDeclines(e) \/ \E v \in Verdicts : CouncilTooLate(e, v)
  <2>1. Step(e, "council", "audit", "none") /\ UNCHANGED <<mode, delivered, last>>
    BY <1>10 DEF CouncilDeclines, CouncilTooLate, Judged, verdictVars
  <2>2. edit[e].pc = "council" /\ edit'[e].pc = "audit"
    BY <1>4, <1>5, <2>1
  <2>3. ~Quiet'
    BY <1>1, <2>2 DEF Running
  <2> QED BY <1>1, <1>2, <1>3, <2>1, <2>2, <2>3 DEF ReviewInv, MayReview
<1>11. CASE AuditFails(e) \/ Settles(e) \/ SettleFails(e)
  <2>1. PICK from \in {"audit", "settle"}, outcome \in {"settled", "reviewed"} :
          Step(e, from, "mark", outcome)
    BY <1>11 DEF AuditFails, Settles, SettleFails
  <2>2. delivered' = delivered
    BY <1>11 DEF AuditFails, Settles, SettleFails, verdictVars
  <2>3. edit'[e].pc = "mark" /\ edit'[e].outcome = outcome
    BY <1>4, <1>5, <2>1
  <2>4. ~Quiet'
    BY <1>1, <2>3 DEF Running
  <2> QED BY <1>1, <1>2, <1>3, <2>2, <2>3, <2>4 DEF ReviewInv
<1>12. CASE Answer(e)
  <2>1. PICK pc \in {"landed", "denied"} : Step(e, "mark", pc, "none")
    BY <1>12 DEF Answer
  <2>2. edit[e].pc = "mark" /\ edit'[e].pc = pc
    BY <1>4, <1>5, <2>1
  <2>3. /\ marker' = [anchor |-> turn, status |-> edit[e].outcome]
        /\ UNCHANGED <<mode, delivered, last>>
        /\ edit[e].outcome # "none"
        /\ edit[e].outcome = "issues" => delivered = 0 \/ last = "issues"
    BY <1>12, <2>2 DEF Answer, MarkFired, verdictVars, ReviewInv
  <2>4. MarkerStatus' = edit[e].outcome
    BY <1>3, <2>3 DEF MarkerStatus
  <2> QED BY <1>1, <1>2, <1>3, <2>2, <2>3, <2>4 DEF ReviewInv
<1> QED
  BY <1>6, <1>7, <1>8, <1>9, <1>10, <1>11, <1>12 DEF EditHook

LEMMA ReviewInvNext ==
  ASSUME GateInv, ReviewInv, \A e, f \in Edits : e = f, ~MarkerMayFail,
         [Next]_vars
  PROVE  ReviewInv'
<1>1. CASE IntakeStep
  <2>1. /\ phase \in {"user", "review"} /\ phase' \in {"review", "agent"}
        /\ phase = "user" => turn' = turn + 1
        /\ phase = "review" => turn' = turn
        /\ UNCHANGED <<prose, mode, marker>>
    BY <1>1, IntakeEffects DEF GateInv, IntakeStep
  <2>2. turn \in Nat /\ marker.anchor \in Nat /\ marker.anchor <= turn
    BY DEF GateInv, GateShape, GateTypeOK, HoldTypeOK
  <2>3. CASE phase = "user"
    <3>1. turn' # turn /\ turn' = turn + 1
      BY <2>1, <2>2, <2>3
    <3>2. delivered' = 0 /\ \A e \in Edits : edit'[e].pc = "idle"
      BY <1>1, <3>1 DEF IntakeStep, NoEdit
    <3>3. MarkerStatus' = "none"
      BY <2>1, <2>2, <3>1 DEF MarkerStatus
    <3> QED BY <3>2, <3>3 DEF ReviewInv
  <2>4. CASE phase = "review"
    <3>1. turn' = turn /\ UNCHANGED <<edit, delivered, last>>
      BY <1>1, <2>1, <2>4 DEF IntakeStep
    <3>2. MarkerStatus' = "none" /\ delivered' = 0
      BY <2>1, <2>4, <3>1 DEF MarkerStatus, ReviewInv
    <3>3. \A e \in Edits : edit'[e].pc \in Answered
      BY <2>4, <3>1, NoHookRuns
    <3> QED BY <3>2, <3>3 DEF ReviewInv, Answered
  <2> QED BY <2>1, <2>3, <2>4
<1>2. CASE Reasons
  <2>1. /\ Quiet /\ phase = "agent"
        /\ prose' = [prose EXCEPT ![turn] = @ + 1]
        /\ UNCHANGED <<phase, turn, mode, marker, edit, delivered, last>>
    BY <1>2 DEF Reasons, WritesPlan, gateVars, verdictVars
  <2>2. prose'[turn] > 0
    <3>1. prose \in [0 .. MaxTurns -> 0 .. MaxRevs] /\ turn \in 0 .. MaxTurns
      BY DEF GateInv, HoldInv, HoldTypeOK
    <3> QED BY <2>1, <3>1, HoldAssumption DEF HoldAssumption
  <2>3. MarkerStatus' = MarkerStatus
    BY <2>1 DEF MarkerStatus
  <2> QED BY <2>1, <2>2, <2>3 DEF ReviewInv, Quiet, Answered
<1>3. CASE \E e \in Edits : EditHook(e)
  BY <1>3, ReviewInvHook
<1>4. CASE \E by \in {"converged", "council"}, v \in Verdicts : ProposeTool(by, v)
  <2>1. UNCHANGED <<phase, turn, prose, mode, marker, edit, delivered, last>>
    BY <1>4 DEF ProposeTool, Judged, AgentKeepsFloor
  <2>2. MarkerStatus' = MarkerStatus /\ (Quiet' <=> Quiet)
    BY <2>1 DEF MarkerStatus, Quiet
  <2> QED BY <2>1, <2>2 DEF ReviewInv, MayReview
<1>5. CASE Stop
  <2>1. /\ phase = "agent" /\ Quiet /\ phase' \in {"agent", "user"}
        /\ UNCHANGED <<turn, prose, edit>>
    BY <1>5 DEF Stop, StopSilent, StopNoPlan, StopReview, StopReviewFails,
      Stops, KeeperAnswers
  <2>2. \A e \in Edits : edit'[e].pc \in Answered
    BY <2>1 DEF Quiet
  <2>3. CASE StopSilent \/ StopReviewFails
    <3>1. UNCHANGED <<mode, marker, delivered, last>>
      BY <2>3 DEF StopSilent, StopReviewFails, verdictVars
    <3>2. MarkerStatus' = MarkerStatus
      BY <2>1, <3>1 DEF MarkerStatus
    <3> QED BY <2>1, <2>2, <3>1, <3>2 DEF ReviewInv, Answered
  <2>4. CASE StopNoPlan \/ \E v \in Verdicts : StopReview(v)
    <3>1. marker' = [anchor |-> turn, status |-> "reviewed"]
      BY <2>4 DEF StopNoPlan, StopReview, MarkFired
    <3>2. MarkerStatus' = "reviewed"
      BY <2>1, <3>1 DEF MarkerStatus
    <3>3. delivered' # 0 => prose[turn] > 0
      BY <2>1, <2>4 DEF StopNoPlan, StopReview, verdictVars, ReviewInv
    <3> QED BY <2>1, <2>2, <3>2, <3>3 DEF ReviewInv, Answered
  <2> QED BY <1>5, <2>3, <2>4 DEF Stop
<1>6. CASE Interrupt
  <2>1. phase' = "user" /\ \A e \in Edits : edit'[e].pc = "idle"
    BY <1>6 DEF Interrupt, NoEdit
  <2> QED BY <2>1 DEF ReviewInv
<1>7. CASE UNCHANGED vars
  <2>1. UNCHANGED <<phase, turn, prose, mode, marker, edit, delivered, last>>
    BY <1>7 DEF vars, holdVars, gateVars, verdictVars
  <2>2. MarkerStatus' = MarkerStatus /\ (Quiet' <=> Quiet)
    BY <2>1 DEF MarkerStatus, Quiet
  <2> QED BY <2>1, <2>2 DEF ReviewInv, MayReview
<1> QED BY <1>1, <1>2, <1>3, <1>4, <1>5, <1>6, <1>7 DEF Next

(* A turn gets one review verdict, whether an edit or the stop brings the  *)
(* plan to it and whatever fails, is refused or interrupted in between;    *)
(* only the strict gate reviews again, and only after issues.  The marker  *)
(* must be reliable and edits must come one at a time: with a lost marker  *)
(* or two hooks at once a turn is reviewed twice.                          *)
THEOREM OneReviewPerTurnHolds ==
  ASSUME \A e, f \in Edits : e = f, ~MarkerMayFail
  PROVE  Spec => OneReviewPerTurn
<1>1. Init => ReviewInv
  <2> SUFFICES ASSUME Init PROVE ReviewInv
    OBVIOUS
  <2>1. phase = "user" /\ \A e \in Edits : edit[e].pc = "idle"
    BY DEF Init, HoldInit, NoEdit
  <2> QED BY <2>1 DEF ReviewInv
<1>2. GateInv /\ ReviewInv /\ [Next]_vars => ReviewInv'
  BY ReviewInvNext
<1>3. GateInv /\ ReviewInv /\ [Next]_vars =>
        [delivered' # delivered /\ turn' = turn
           => delivered = 0 \/ (mode = "deny" /\ last = "issues")]_vars
  <2> SUFFICES ASSUME GateInv, ReviewInv, [Next]_vars,
                      delivered' # delivered, turn' = turn
               PROVE  delivered = 0 \/ (mode = "deny" /\ last = "issues")
    OBVIOUS
  <2>1. ~IntakeStep /\ ~Reasons /\ ~Interrupt /\ ~UNCHANGED vars
        /\ \A by, v : ~ProposeTool(by, v)
    BY DEF IntakeStep, Reasons, Interrupt, verdictVars, vars, gateVars,
      ProposeTool
  <2>2. ASSUME NEW e \in Edits, EditHook(e)
        PROVE  delivered = 0 \/ (mode = "deny" /\ last = "issues")
    <3>1. \/ \E v \in Verdicts : CouncilSettles(e, v) \/ AuditPasses(e, v)
          \/ CouncilObjects(e) \/ AuditObjects(e)
      BY <2>2 DEF EditHook, DenyHeld, PassReviewed, NoRecordedDesign,
        StartReview, CouncilDeclines, CouncilTooLate, AuditFails, Settles,
        SettleFails, Answer, verdictVars
    <3>2. edit[e].pc \in {"council", "audit"}
      BY <3>1 DEF CouncilSettles, CouncilObjects, AuditPasses, AuditObjects,
        Step
    <3> QED BY <3>2 DEF ReviewInv, MayReview
  <2>3. ASSUME Stop PROVE delivered = 0
    <3>1. PICK v \in Verdicts : StopReview(v)
      BY <2>3 DEF Stop, StopSilent, StopNoPlan, StopReviewFails, verdictVars
    <3> QED BY <3>1 DEF StopReview, Stops, ReviewInv
  <2> QED BY <2>1, <2>2, <2>3 DEF Next
<1> QED
  BY <1>1, <1>2, <1>3, GateInvariant, PTL DEF Spec, OneReviewPerTurn
=============================================================================
