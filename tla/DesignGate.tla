----------------------------- MODULE DesignGate -----------------------------
(***************************************************************************)
(* The pre-code gate (src/saddle/doctrine_hook.py, stage 3) and the review *)
(* of plain prose at the end of a turn (stop_hook._proposal_outcome), over *)
(* the posture of Hold.                                                    *)
(*                                                                         *)
(* Every code edit the agent attempts starts a hook process.  The process  *)
(* first honours an active hold.  Then, once per turn, it reviews the plan *)
(* prose: a council of critics unless the session is held, a single audit  *)
(* when there is no council verdict, and the settlement of a plan that     *)
(* audited clean.  What the processes of a turn share is one marker file,  *)
(* the anchor of the last reviewed turn and the outcome.  Tool calls of    *)
(* one message run their hooks in parallel: Edits are the slots.  A slot   *)
(* is used again by later edits.                                           *)
(*                                                                         *)
(* Edits of docs and tests return before the gate (_is_supporting_file)    *)
(* and change nothing, so an edit here is an edit of code.  The posture    *)
(* cannot change while the agent has the floor, so its two reads and that  *)
(* of the marker are one step; each read of the posture may fail by        *)
(* itself.  delivered, last, passed and a slot's missed are history.       *)
(***************************************************************************)
EXTENDS Hold

CONSTANTS
    Edits,          \* slots for hooks of code edits that may run together
    GateModes,      \* the values SADDLE_GATE_MODE may have
    MarkerMayFail,  \* may a write of the design_gate marker be lost or torn?
    KeeperOn,       \* SADDLE_GOAL_KEEPER: may a stop be refused?
    ReviewMayFail   \* may an audit, a settlement or a deadline fail?

ASSUME DesignGateAssumption ==
    /\ Edits # {}
    /\ GateModes \subseteq {"warn", "deny"}
    /\ MarkerMayFail \in BOOLEAN
    /\ KeeperOn \in BOOLEAN
    /\ ReviewMayFail \in BOOLEAN

VARIABLES
    mode,        \* SADDLE_GATE_MODE, fixed for the session
    marker,      \* the design_gate marker: reviewed turn and outcome
    edit,        \* slot -> the hook process of its last edit
    delivered,   \* history: reviews of this turn that returned a verdict,
                 \* counted 0, 1, 2, 1, 2, ...
    last,        \* history: how the last review of this turn came out
    passed       \* history: the plans of which some review named no issue

verdictVars == <<mode, delivered, last, passed>>
gateVars == <<marker, edit, verdictVars>>
vars == <<holdVars, gateVars>>

-----------------------------------------------------------------------------
Outcomes == {"settled", "issues", "reviewed"}

\* "landed" and "denied" are answers: the hook has exited.
Answered == {"idle", "landed", "denied"}
Running == {"council", "audit", "settle", "mark"}

\* What an audit says of a plan.  "flagged" is AuditVerdict with ok false and
\* no issue: the model answered ISSUES and listed nothing.
Verdicts == {"clean", "flagged", "issues"}

\* has_issues, the test that every caller of the audit makes: the flag of a
\* verdict that names nothing is not looked at.
HasIssues(v) == v = "issues"

\* The two reads of the posture an edit's hook makes: _hold_denies_edit and
\* _session_held.  missed holds those that did not see a hold on record and
\* so let the hook go on where it would have been held.
HoldReads == {"gate", "review"}

EditHooks ==
    [pc : Answered \cup Running, outcome : Outcomes \cup {"none"},
     missed : SUBSET HoldReads]

NoEdit == [pc |-> "idle", outcome |-> "none", missed |-> {}]

Quiet == \A e \in Edits : edit[e].pc \in Answered

NoMarker == [anchor |-> 0, status |-> "none"]

Init ==
    /\ HoldInit
    /\ mode \in GateModes
    /\ marker = NoMarker
    /\ edit = [e \in Edits |-> NoEdit]
    /\ delivered = 0
    /\ last = "none"
    /\ passed = {}

\* _design_marker_status: the outcome on record for this turn; "none" is the empty string.
MarkerStatus == IF marker.anchor = turn THEN marker.status ELSE "none"

\* Mutant: the strict gate, too, lets a reviewed turn pass.
AlreadyReviewedAtAll == MarkerStatus # "none"

\* _run_design_stage skips a reviewed turn, except that the strict gate
\* reviews again after issues.
AlreadyReviewed ==
    /\ MarkerStatus # "none"
    /\ ~(mode = "deny" /\ MarkerStatus = "issues")

\* _mark_design_fired: best-effort, so the write may be lost; and as every
\* hook of the session writes the same temporary file, two at once may leave a
\* marker that does not parse, which reads as none.
MarkFired(status) ==
    \/ marker' = [anchor |-> turn, status |-> status]
    \/ MarkerMayFail /\ marker' \in {marker, NoMarker}

\* A new edit takes the slot e.
Enter(e, pc, outcome, missed) ==
    edit' = [edit EXCEPT ![e] =
        [pc |-> pc, outcome |-> outcome, missed |-> missed]]

\* The hook of slot e goes on.
Step(e, from, to, outcome) ==
    /\ edit[e].pc = from
    /\ edit' = [edit EXCEPT ![e] = [@ EXCEPT !.pc = to, !.outcome = outcome]]

\* Any of the given reads may miss a hold that is on record.
Missed(reads) ==
    IF ReadMayFail /\ posture.state = "hold" THEN SUBSET reads ELSE {{}}

\* What _hold_denies_edit and _session_held make of the posture they read.
GateOpen(missed) == "gate" \in missed <=> GateShut
SessionHeld(missed) == posture.state = "hold" /\ "review" \notin missed

\* A review comes to speak of the plan.
Judged(v) ==
    /\ passed' = IF HasIssues(v) THEN passed ELSE passed \cup {CurrentPlan}
    /\ UNCHANGED mode

Verdict(v) ==
    /\ delivered' = IF delivered = 1 THEN 2 ELSE 1
    /\ last' = v
    /\ Judged(v)

\* settle_approach, by agreement or by the council, from the edit's hook.
Record(by) ==
    designs' = designs \cup
        {[goal |-> turn, plan |-> CurrentPlan, by |-> by]}

AgentKeepsFloor ==
    UNCHANGED <<phase, turn, prose, review, postureVars>>

-----------------------------------------------------------------------------
(* The hook of a code edit.                                                *)

Attempts(e) ==
    /\ phase = "agent"
    /\ edit[e].pc \in Answered
    /\ AgentKeepsFloor
    /\ UNCHANGED <<designs, marker>>

DenyHeld(e) ==
    /\ Attempts(e)
    /\ GateShut
    /\ Enter(e, "denied", "none", {})
    /\ UNCHANGED verdictVars

(* The hold gate opens, to a hook that cannot read the posture as well.    *)
PassReviewed(e) ==
    /\ Attempts(e)
    /\ AlreadyReviewed
    /\ \E missed \in Missed({"gate"}) :
         GateOpen(missed) /\ Enter(e, "landed", "none", missed)
    /\ UNCHANGED verdictVars

(* No plan prose is itself the finding; no review runs.                    *)
NoRecordedDesign(e) ==
    /\ Attempts(e)
    /\ ~AlreadyReviewed
    /\ prose[turn] = 0
    /\ \E missed \in Missed({"gate"}) :
         GateOpen(missed) /\ Enter(e, "mark", "issues", missed)
    /\ UNCHANGED verdictVars

(* The council settles what it finds clean, so a held session skips it.    *)
StartReview(e) ==
    /\ Attempts(e)
    /\ ~AlreadyReviewed
    /\ prose[turn] > 0
    /\ \E missed \in Missed(HoldReads) :
         /\ GateOpen(missed)
         /\ Enter(e, IF SessionHeld(missed) THEN "audit" ELSE "council",
                  "none", missed)
    /\ UNCHANGED verdictVars

CouncilSettles(e, v) ==
    /\ ~HasIssues(v)
    /\ Step(e, "council", "mark", "settled")
    /\ Record("council")
    /\ Verdict(v)
    /\ AgentKeepsFloor
    /\ UNCHANGED marker

CouncilObjects(e) ==
    /\ Step(e, "council", "mark", "issues")
    /\ Verdict("issues")
    /\ AgentKeepsFloor
    /\ UNCHANGED <<designs, marker>>

(* A trivial surface, no panel, no quorum, an error: the single audit.     *)
CouncilDeclines(e) ==
    /\ Step(e, "council", "audit", "none")
    /\ AgentKeepsFloor
    /\ UNCHANGED <<designs, marker, verdictVars>>

(* The deadline hits after the council's design was stored: its caller     *)
(* sees a timeout and falls back to the single audit.                      *)
CouncilTooLate(e, v) ==
    /\ ReviewMayFail
    /\ ~HasIssues(v)
    /\ Step(e, "council", "audit", "none")
    /\ Record("council")
    /\ Judged(v)
    /\ AgentKeepsFloor
    /\ UNCHANGED <<marker, delivered, last>>

\* Mutants: a plan that passes settles under a hold; a plan is settled
\* whatever the audit says.
AuditPassesSettles(e, v) ==
    /\ ~HasIssues(v)
    /\ Step(e, "audit", "settle", "none")
    /\ Verdict(v)
    /\ AgentKeepsFloor
    /\ UNCHANGED <<designs, marker>>
AuditObjectsSettles(e) ==
    /\ Step(e, "audit", "settle", "none")
    /\ Verdict("issues")
    /\ AgentKeepsFloor
    /\ UNCHANGED <<designs, marker>>

AuditPasses(e, v) ==
    /\ ~HasIssues(v)
    /\ IF SessionHeld(edit[e].missed)
       THEN Step(e, "audit", "mark", "reviewed")
       ELSE Step(e, "audit", "settle", "none")
    /\ Verdict(v)
    /\ AgentKeepsFloor
    /\ UNCHANGED <<designs, marker>>

AuditObjects(e) ==
    /\ Step(e, "audit", "mark", "issues")
    /\ Verdict("issues")
    /\ AgentKeepsFloor
    /\ UNCHANGED <<designs, marker>>

\* Mutant: a failed review is recorded under an outcome of its own.
AuditFailsAsError(e) ==
    /\ ReviewMayFail
    /\ Step(e, "audit", "mark", "error")
    /\ AgentKeepsFloor
    /\ UNCHANGED <<designs, marker, verdictVars>>

(* run_stage turns a failed review into an alert without issues, which     *)
(* counts as reviewed.                                                     *)
AuditFails(e) ==
    /\ ReviewMayFail
    /\ Step(e, "audit", "mark", "reviewed")
    /\ last' = "failed"
    /\ AgentKeepsFloor
    /\ UNCHANGED <<designs, marker, mode, delivered, passed>>

Settles(e) ==
    /\ Step(e, "settle", "mark", "settled")
    /\ Record("converged")
    /\ AgentKeepsFloor
    /\ UNCHANGED <<marker, verdictVars>>

\* Mutant: a failed settlement counts as settled.
SettleFailsSettled(e) ==
    /\ ReviewMayFail
    /\ Step(e, "settle", "mark", "settled")
    /\ Record("converged") \/ UNCHANGED designs
    /\ AgentKeepsFloor
    /\ UNCHANGED <<marker, verdictVars>>

(* Before or after the design reached the store.                           *)
SettleFails(e) ==
    /\ ReviewMayFail
    /\ Step(e, "settle", "mark", "reviewed")
    /\ Record("converged") \/ UNCHANGED designs
    /\ AgentKeepsFloor
    /\ UNCHANGED <<marker, verdictVars>>

(* The marker is written whatever the outcome; the strict gate then denies *)
(* this edit if there are issues.                                          *)
Answer(e) ==
    /\ Step(e, "mark",
            IF mode = "deny" /\ edit[e].outcome = "issues"
            THEN "denied" ELSE "landed", "none")
    /\ MarkFired(edit[e].outcome)
    /\ AgentKeepsFloor
    /\ UNCHANGED <<designs, verdictVars>>

EditHook(e) ==
    \/ DenyHeld(e) \/ PassReviewed(e) \/ NoRecordedDesign(e) \/ StartReview(e)
    \/ CouncilObjects(e) \/ CouncilDeclines(e)
    \/ AuditObjects(e) \/ AuditFails(e)
    \/ \E v \in Verdicts :
         CouncilSettles(e, v) \/ CouncilTooLate(e, v) \/ AuditPasses(e, v)
    \/ Settles(e) \/ SettleFails(e) \/ Answer(e)

-----------------------------------------------------------------------------
(* The end of the agent's turn: _proposal_outcome reviews prose that no    *)
(* edit took to the gate, then the goal keeper may refuse the stop, which  *)
(* sends the agent back to work in the same turn.                          *)
KeeperAnswers ==
    \/ phase' = "user"
    \/ KeeperOn /\ phase' = "agent"

Stops ==
    /\ phase = "agent"
    /\ Quiet
    /\ KeeperAnswers
    /\ UNCHANGED <<turn, prose, review, designs, postureVars, edit>>

StopSilent ==
    /\ Stops
    /\ MarkerStatus # "none"
    /\ UNCHANGED <<marker, verdictVars>>

StopNoPlan ==
    /\ Stops
    /\ MarkerStatus = "none"
    /\ prose[turn] = 0
    /\ MarkFired("reviewed")
    /\ UNCHANGED verdictVars

\* Mutant: the review at the stop leaves the turn unmarked.
StopReviewUnmarked(v) ==
    /\ Stops
    /\ MarkerStatus = "none"
    /\ prose[turn] > 0
    /\ Verdict(v)
    /\ UNCHANGED marker

StopReview(v) ==
    /\ Stops
    /\ MarkerStatus = "none"
    /\ prose[turn] > 0
    /\ MarkFired("reviewed")
    /\ Verdict(v)

(* A raised audit leaves the turn unmarked, so that a retry may complete   *)
(* the review.                                                             *)
StopReviewFails ==
    /\ ReviewMayFail
    /\ Stops
    /\ MarkerStatus = "none"
    /\ prose[turn] > 0
    /\ UNCHANGED <<marker, verdictVars>>

(* The user interrupts: the hooks in flight die, no Stop hook runs.        *)
Interrupt ==
    /\ phase = "agent"
    /\ phase' = "user"
    /\ edit' = [e \in Edits |-> NoEdit]
    /\ UNCHANGED <<turn, prose, review, designs, postureVars, marker,
                   verdictVars>>

-----------------------------------------------------------------------------
(* The tool design_propose: the agent proposes the plan it has written, in *)
(* the server's process.  A plan without issues is recorded, by the        *)
(* council or the audit; neither the posture nor the marker is read or     *)
(* written.  A tool call that finds issues or fails changes nothing.       *)
ProposeTool(by, v) ==
    /\ phase = "agent"
    /\ prose[turn] > 0
    /\ ~HasIssues(v)
    /\ Record(by)
    /\ Judged(v)
    /\ AgentKeepsFloor
    /\ UNCHANGED <<marker, edit, delivered, last>>

(* The agent writes between its tool calls, not while their hooks run.     *)
Reasons ==
    /\ Quiet
    /\ WritesPlan
    /\ UNCHANGED gateVars

IntakeStep ==
    /\ Intake
    /\ IF turn' # turn
       THEN /\ edit' = [e \in Edits |-> NoEdit]
            /\ delivered' = 0
            /\ last' = "none"
       ELSE UNCHANGED <<edit, delivered, last>>
    /\ UNCHANGED <<mode, marker, passed>>

Stop ==
    \/ StopSilent
    \/ StopNoPlan
    \/ \E v \in Verdicts : StopReview(v)
    \/ StopReviewFails

Next ==
    \/ IntakeStep
    \/ Reasons
    \/ \E e \in Edits : EditHook(e)
    \/ \E by \in {"converged", "council"}, v \in Verdicts : ProposeTool(by, v)
    \/ Stop
    \/ Interrupt

Spec == Init /\ [][Next]_vars

-----------------------------------------------------------------------------
\* The type of the gate's variables.
GateTypeOK ==
    /\ HoldTypeOK
    /\ mode \in GateModes
    /\ marker \in [anchor : 0 .. MaxTurns, status : Outcomes \cup {"none"}]
    /\ edit \in [Edits -> EditHooks]
    /\ delivered \in 0 .. 2
    /\ last \in Verdicts \cup {"none", "failed"}
    /\ passed \subseteq Plans

Lands(e) == edit[e].pc # "landed" /\ edit'[e].pc = "landed"

\* No code edit passes the gate while a request to see the plan first is on
\* record and unanswered, in whatever later turn it is attempted, unless the
\* hold gate of its own hook could not read the posture: the gate of
\* _run_design_stage comes before every other exit, and what another hook or
\* another read of the same hook missed opens nothing.
ConsentBeforeCode ==
    [][\A e \in Edits :
         Lands(e) => ~awaiting \/ "gate" \in edit'[e].missed]_vars

\* No edit hook records a design under a hold, neither through the council
\* nor after an audit that names nothing, even when a standing approval or a
\* failed read has opened the gate (the hold check of _design_outcome), unless
\* that check itself could not read the posture.
NoHookSettlesUnderHold ==
    [][\A e \in Edits :
         designs' # designs /\ edit'[e] # edit[e] /\ posture.state = "hold"
            => "review" \in edit[e].missed]_vars

\* A plan that saddle settles by itself was reviewed, exactly that plan, by an
\* audit that named no issue of it, and a turn marked as settled has its design
\* in the store.  That the audit found it clean (doctrine_hook.py:521, "Audited
\* clean at the moment code starts") is more than the code gives: a flagged
\* plan whose audit lists nothing is settled, which SettledAuditedClean of
\* DesignLoop shows of all who settle.
SettledIsEarned ==
    /\ \A d \in designs : d.by # "user" => d.plan \in passed
    /\ marker.status = "settled" =>
         \E d \in designs : d.by # "user" /\ d.plan.turn = marker.anchor

\* The two reviews share the per-turn marker so that a turn gets exactly one
\* (stop_hook._proposal_outcome), however failures and refused stops come
\* between; only the strict gate reviews again, after issues.
OneReviewPerTurn ==
    [][delivered' # delivered /\ turn' = turn
         => delivered = 0 \/ (mode = "deny" /\ last = "issues")]_vars

\* In the strict mode an edit passes a turn on record with issues only after
\* a new review that names none, or fails (_run_design_stage, the strict gate
\* re-reviews), whatever other edits, stops and failures did in between.
StrictGateReviewsAgain ==
    [][\A e \in Edits :
         Lands(e) /\ mode = "deny" /\ MarkerStatus = "issues"
            => last \in {"clean", "flagged", "failed"}]_vars
=============================================================================
