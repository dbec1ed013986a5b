-------------------------------- MODULE Hold --------------------------------
(***************************************************************************)
(* The review posture of one session (src/saddle/hold.py) and the intake   *)
(* step that moves it (intake_hook._review_outcome).                       *)
(*                                                                         *)
(* A user may ask to approve the plan before any code is written.  That    *)
(* wish is a small JSON file per session, the posture, read by every later *)
(* hook process.  Each user prompt starts a fresh intake process: it reads *)
(* the posture, has a language model classify the prompt against it, and   *)
(* applies a transition table.  Approving a held plan also records it as a *)
(* design, a slow call made under the same deadline as the classification. *)
(*                                                                         *)
(* A prompt, the turn it opens and its transcript anchor are one number.   *)
(* The plan prose of a turn is a revision number, 0 when the agent has     *)
(* written none, so a plan is a pair (turn, revision).  The answer of the  *)
(* language model is any intent; its failures and the deadline are one     *)
(* action, ReviewCutShort.  The variables heard and awaiting are history.  *)
(*                                                                         *)
(* A hook that cannot read or parse the posture logs it and goes on as if  *)
(* none was on record.  Such a read is one outcome of every read, and what *)
(* follows from it is modelled with it.                                    *)
(***************************************************************************)
EXTENDS Naturals

CONSTANTS
    MaxTurns,     \* bound: user prompts in a behaviour
    MaxRevs,      \* bound: revisions of the plan prose within a turn
    DiskMayFail,  \* may a best-effort marker write be lost (OSError)?
    ReadMayFail   \* may a read find the posture unreadable or corrupt?

ASSUME HoldAssumption ==
    /\ MaxTurns \in Nat \ {0}
    /\ MaxRevs \in Nat \ {0}
    /\ DiskMayFail \in BOOLEAN
    /\ ReadMayFail \in BOOLEAN

VARIABLES
    phase,     \* who has the floor: the user, the intake hook or the agent
    turn,      \* number of the current turn, 0 before the first prompt
    prose,     \* turn -> revision of the plan prose in the transcript
    posture,   \* the persisted HoldPosture
    review,    \* the review step of the running intake process
    designs,   \* the designs recorded as final
    heard,     \* history: the intent recognised in this turn's prompt
    awaiting   \* history: a request to review is on record and no answer of
               \* the user has been related to it

postureVars == <<posture, heard, awaiting>>
holdVars == <<phase, turn, prose, posture, review, designs, heard, awaiting>>

-----------------------------------------------------------------------------
HOLD_STATES == {"default", "hold", "autonomous"}
HOLD_SCOPES == {"once", "standing"}
REVIEW_INTENT_KINDS ==
    {"request_review", "approve", "autonomy_grant", "intervene", "none"}

Turns == 1 .. MaxTurns
Plans == [turn : 0 .. MaxTurns, rev : 0 .. MaxRevs]

\* held is the turn whose ask is held (0: none); approved tells whether an
\* approval is on record and whether it names a design or is the sentinel.
HoldPosture ==
    [state : HOLD_STATES, scope : HOLD_SCOPES, held : 0 .. MaxTurns,
     approved : {"none", "sentinel", "design"}]

Designs ==
    [goal : Turns, plan : Plans, by : {"user", "converged", "council"}]

NoPlan == [turn |-> 0, rev |-> 0]
DefaultPosture ==
    [state |-> "default", scope |-> "once", held |-> 0, approved |-> "none"]
\* seen is the posture the intake read when it started.
NoReview == [pc |-> "idle", plan |-> NoPlan, seen |-> DefaultPosture]
AutonomousPosture == [DefaultPosture EXCEPT !.state = "autonomous"]

CurrentPlan == [turn |-> turn, rev |-> prose[turn]]

\* Mutant: the hold lapses with the turn that asked for it.
GateShutThisTurn ==
    posture.state = "hold" /\ posture.approved = "none" /\ posture.held = turn

\* read_posture: the posture on record, or DEFAULT when it cannot be read.
PostureReads == {posture} \cup (IF ReadMayFail THEN {DefaultPosture} ELSE {})

\* What _hold_denies_edit tests in the posture it read: an active hold with no
\* approval on record.  The test design_in_play is always true under a hold,
\* so it does not appear.  Of the posture on record, this says that the gate
\* is shut for every hook that can read it.
GateShut == posture.state = "hold" /\ posture.approved = "none"

HoldInit ==
    /\ phase = "user"
    /\ turn = 0
    /\ prose = [t \in 0 .. MaxTurns |-> 0]
    /\ posture = DefaultPosture
    /\ review = NoReview
    /\ designs = {}
    /\ heard = "none"
    /\ awaiting = FALSE

-----------------------------------------------------------------------------
(* write_posture replaces the file atomically or logs the error and leaves *)
(* the prior posture.                                                      *)
WritePosture(p) ==
    \/ posture' = p
    \/ DiskMayFail /\ posture' = posture

ReviewDone ==
    /\ review' = NoReview
    /\ phase' = "agent"
    /\ UNCHANGED <<turn, prose>>

(* The next prompt opens a turn.                                           *)
NewTurn ==
    /\ phase = "user"
    /\ turn < MaxTurns
    /\ turn' = turn + 1
    /\ heard' = "none"
    /\ UNCHANGED <<prose, posture, designs, awaiting>>

(* _review_outcome skips the model for a trivial prompt in DEFAULT.        *)
SubmitTrivial ==
    /\ NewTurn
    /\ \E seen \in PostureReads : seen.state = "default"
    /\ phase' = "agent"
    /\ UNCHANGED review

(* review_turn lifts the plan from the transcript before it classifies:    *)
(* the last turn's prose, or none when the new prompt has reached the file *)
(* first or the file cannot be read.  The posture is read once, before     *)
(* that, and handed on.                                                    *)
SubmitReviewed ==
    /\ NewTurn
    /\ phase' = "review"
    /\ \E plan \in {CurrentPlan, NoPlan}, seen \in PostureReads :
         review' = [pc |-> "classify", plan |-> plan, seen |-> seen]

Classified(kind) ==
    /\ review.pc = "classify"
    /\ heard' = kind

AutonomyGrant ==
    /\ Classified("autonomy_grant")
    /\ WritePosture(AutonomousPosture)
    /\ awaiting' = FALSE
    /\ ReviewDone
    /\ UNCHANGED designs

Intervene ==
    /\ Classified("intervene")
    /\ WritePosture(DefaultPosture)
    /\ awaiting' = FALSE
    /\ ReviewDone
    /\ UNCHANGED designs

\* Mutant: a new request keeps the approval of an earlier one.
HeldForOverApproval(goal, scope) ==
    [posture EXCEPT !.state = "hold", !.scope = scope, !.held = goal]

HeldFor(goal, scope) ==
    [state |-> "hold", scope |-> scope, held |-> goal, approved |-> "none"]

RequestReview(scope) ==
    /\ Classified("request_review")
    /\ WritePosture(HeldFor(turn, scope))
    /\ awaiting' = (awaiting \/ posture' = HeldFor(turn, scope))
    /\ ReviewDone
    /\ UNCHANGED designs

(* NONE, or an approval with nothing held, as far as the intake could see: *)
(* the posture is left alone.                                              *)
Unmoved(kind) ==
    /\ Classified(kind)
    /\ \/ kind = "none"
       \/ kind = "approve" /\ review.seen.state # "hold"
    /\ ReviewDone
    /\ UNCHANGED <<posture, designs, awaiting>>

\* Mutants: a one-time hold is not released; the state is not a known one.
ApprovedUnreleased(id) == [review.seen EXCEPT !.approved = id]
ApprovedAsState(id) == [review.seen EXCEPT !.state = id]

(* The posture after an approval: released if the hold was for once, open  *)
(* but still held if it stands.                                            *)
Approved(id) ==
    IF review.seen.scope = "standing"
    THEN [review.seen EXCEPT !.approved = id]
    ELSE [DefaultPosture EXCEPT !.scope = review.seen.scope, !.approved = id]

ApproveHeld ==
    /\ Classified("approve")
    /\ review.seen.state = "hold"
    /\ awaiting' = FALSE
    /\ UNCHANGED <<turn, prose, designs>>

(* No plan prose to settle: the sentinel alone opens the gate.             *)
ApproveTalk ==
    /\ ApproveHeld
    /\ review.plan.rev = 0
    /\ WritePosture(Approved("sentinel"))
    /\ review' = NoReview
    /\ phase' = "agent"

ApprovePlan ==
    /\ ApproveHeld
    /\ review.plan.rev > 0
    /\ review' = [review EXCEPT !.pc = "settle"]
    /\ UNCHANGED <<phase, posture>>

\* Mutant: the approval's own prompt is taken for the ask.
PromptAsGoal == turn

SettleGoal == IF review.seen.held # 0 THEN review.seen.held ELSE turn

(* settle_approach hands the write to a thread; the design is in the store *)
(* before the coroutine resumes.                                           *)
SettleCommits ==
    /\ review.pc = "settle"
    /\ designs' = designs \cup
         {[goal |-> SettleGoal, plan |-> review.plan, by |-> "user"]}
    /\ review' = [review EXCEPT !.pc = "settled"]
    /\ UNCHANGED <<phase, turn, prose, postureVars>>

SettleReturns ==
    /\ review.pc = "settled"
    /\ WritePosture(Approved("design"))
    /\ ReviewDone
    /\ UNCHANGED <<designs, heard, awaiting>>

(* An exception of settle_approach is caught: the approval is kept.        *)
SettleRaises ==
    /\ review.pc = "settle"
    /\ WritePosture(Approved("sentinel"))
    /\ ReviewDone
    /\ UNCHANGED <<designs, heard, awaiting>>

(* The deadline of run_bounded, a provider or parse failure of the         *)
(* classification, or the death of the intake process: nothing is written. *)
(* A cancellation is not an Exception, so apply_review_intent does not     *)
(* catch it while it settles.                                              *)
ReviewCutShort ==
    /\ review.pc # "idle"
    /\ ReviewDone
    /\ UNCHANGED <<designs, postureVars>>

Intake ==
    \/ SubmitTrivial
    \/ SubmitReviewed
    \/ AutonomyGrant
    \/ Intervene
    \/ \E scope \in HOLD_SCOPES : RequestReview(scope)
    \/ \E kind \in REVIEW_INTENT_KINDS : Unmoved(kind)
    \/ ApproveTalk
    \/ ApprovePlan
    \/ SettleCommits
    \/ SettleReturns
    \/ SettleRaises
    \/ ReviewCutShort

-----------------------------------------------------------------------------
(* The agent, as far as the posture sees it: it writes plan prose, then    *)
(* its turn ends.                                                          *)
WritesPlan ==
    /\ phase = "agent"
    /\ prose[turn] < MaxRevs
    /\ prose' = [prose EXCEPT ![turn] = @ + 1]
    /\ UNCHANGED <<phase, turn, review, designs, postureVars>>

TurnEnds ==
    /\ phase = "agent"
    /\ phase' = "user"
    /\ UNCHANGED <<turn, prose, review, designs, postureVars>>

HoldNext == Intake \/ WritesPlan \/ TurnEnds

HoldSpec == HoldInit /\ [][HoldNext]_holdVars

-----------------------------------------------------------------------------
\* The type of the posture's variables.
HoldTypeOK ==
    /\ phase \in {"user", "review", "agent"}
    /\ turn \in 0 .. MaxTurns
    /\ prose \in [0 .. MaxTurns -> 0 .. MaxRevs]
    /\ posture \in HoldPosture
    /\ review \in [pc : {"idle", "classify", "settle", "settled"},
                   plan : Plans, seen : HoldPosture]
    /\ designs \subseteq Designs
    /\ heard \in REVIEW_INTENT_KINDS
    /\ awaiting \in BOOLEAN

\* Once a request to review the plan is on record, the posture on record
\* shuts the gate until the user answers it, however many turns, failed
\* classifications, idle prompts, lost writes and failed reads lie between:
\* the sticky carry-forward of apply_review_intent, whose every path either
\* keeps the hold or was asked by the user to lift it.  What a hook does that
\* cannot read the record is ConsentBeforeCode of DesignGate.
RequestShutsGate == awaiting => GateShut

\* A hold that is still active with an approval on record was asked for as
\* standing: one approval of a one-time hold releases it.
OpenHoldStands ==
    posture.state = "hold" /\ posture.approved # "none"
        => posture.scope = "standing"

\* The plan a user's approval records was written in or after the turn of
\* the ask it is recorded for: the held ask is kept across the turns between
\* request and approval, and the prose is lifted from the transcript when
\* the approval arrives.
ApprovedPlanAnswersGoal ==
    \A d \in designs : d.by = "user" => d.goal <= d.plan.turn
=============================================================================
