----------------------------- MODULE GoalKeeper -----------------------------
(***************************************************************************)
(* The goal keeper at the end of an agent's turn (src/saddle/stop_hook.py, *)
(* _keeper_decision and the end of main).                                  *)
(*                                                                         *)
(* When the agent wants to stop, a hook process judges whether the goal is *)
(* finished and may refuse the stop, which sends the agent back to work on *)
(* the same user message.  A marker file remembers for which message       *)
(* (anchor) it refused, how often in a row, and whether it gave up.        *)
(*                                                                         *)
(* A user message is a number; halted says that it reads as an order to    *)
(* stop (_user_directed_halt).  The completion audit gives any verdict, or *)
(* none when it is off, silent or fails.  streak, lost, refused, alert and *)
(* verdict are history.                                                    *)
(***************************************************************************)
EXTENDS Naturals

CONSTANTS
    MaxTurns,         \* bound: user messages in a behaviour
    MaxConsecutive,   \* _KEEPER_MAX_CONSECUTIVE
    MaxWakes,         \* bound: resumptions without a user message
    MaxLost,          \* bound: marker writes lost (OSError) in a row of laps
    BubbleMayFail     \* may the alert to the human fail?

ASSUME GoalKeeperAssumption ==
    /\ MaxTurns \in Nat
    /\ MaxConsecutive \in Nat \ {0}
    /\ MaxWakes \in Nat
    /\ MaxLost \in Nat
    /\ BubbleMayFail \in BOOLEAN

VARIABLES
    turn,      \* the latest user message, 0 before the first
    halted,    \* does it order the work to stop?
    working,   \* is the agent at work?
    wakes,     \* resumptions so far
    keeper,    \* the keeper marker
    streak,    \* history: stops refused since the agent last came to rest,
               \* counted up to MaxConsecutive + MaxLost + 1, then
               \* again from 1
    lost,      \* history: marker writes lost since it took up work
    refused,   \* history: has a stop of this turn been refused?
    alert,     \* history: of the alert to the human in this turn
    verdict    \* history: the verdict of the last stop of this turn

keeperVars == <<turn, halted, working, wakes, keeper, streak, lost, refused,
                alert, verdict>>

-----------------------------------------------------------------------------
Verdicts == {"none", "finished", "unfinished"}

KeeperInit ==
    /\ turn = 0
    /\ halted = FALSE
    /\ working = FALSE
    /\ wakes = 0
    /\ keeper = [anchor |-> 0, consecutive |-> 0, capped |-> FALSE]
    /\ streak = 0
    /\ lost = 0
    /\ refused = FALSE
    /\ alert = "none"
    /\ verdict = "none"

(* The user writes, also while the agent works (an interrupt).             *)
NewMessage(halt) ==
    /\ turn < MaxTurns
    /\ turn' = turn + 1
    /\ halted' = halt
    /\ working' = TRUE
    /\ streak' = 0
    /\ lost' = 0
    /\ refused' = FALSE
    /\ alert' = "none"
    /\ verdict' = "none"
    /\ UNCHANGED <<wakes, keeper>>

(* The agent resumes by itself, say when a background job ends: the latest *)
(* user message is still the same.                                         *)
Wake ==
    /\ turn > 0
    /\ ~working
    /\ wakes < MaxWakes
    /\ wakes' = wakes + 1
    /\ working' = TRUE
    /\ lost' = 0
    /\ UNCHANGED <<turn, halted, keeper, streak, refused, alert, verdict>>

-----------------------------------------------------------------------------
\* The streak of this turn; another turn's marker counts for nothing.
SameTurn == keeper.anchor = turn
\* Mutants: the marker of an earlier message counts for this one; the streak
\* is not read back.
ConsecutiveOfAnyTurn == keeper.consecutive
ConsecutiveForgotten == 0
CappedForEver == keeper.capped

Consecutive == IF SameTurn THEN keeper.consecutive ELSE 0
Capped == SameTurn /\ keeper.capped

\* _set_keeper_state: atomic and best-effort.
SetKeeperState(consecutive, capped) ==
    \/ /\ keeper' = [anchor |-> turn, consecutive |-> consecutive,
                     capped |-> capped]
       /\ UNCHANGED lost
    \/ /\ lost < MaxLost
       /\ lost' = lost + 1
       /\ UNCHANGED keeper

Stops(v) ==
    /\ working
    /\ verdict' = v
    /\ UNCHANGED <<turn, halted, wakes>>

Allow(v) ==
    /\ Stops(v)
    /\ working' = FALSE
    /\ streak' = 0
    /\ UNCHANGED refused

MayPush ==
    /\ ~halted
    /\ ~Capped

(* No verdict, no block: enforcement never guesses.                        *)
NoVerdict ==
    /\ Allow("none")
    /\ UNCHANGED <<keeper, lost, alert>>

(* (1) The user just said stop: comply and clear the streak.               *)
Halt(v) ==
    /\ halted
    /\ Allow(v)
    /\ SetKeeperState(0, TRUE)
    /\ UNCHANGED alert

(* (2) Finished, or blocked on the user: reset and allow.                  *)
Rest ==
    /\ ~halted
    /\ Allow("finished")
    /\ SetKeeperState(0, FALSE)
    /\ UNCHANGED alert

(* (3) Capped for this user turn: silent.                                  *)
StayQuiet ==
    /\ ~halted
    /\ Capped
    /\ Allow("unfinished")
    /\ UNCHANGED <<keeper, lost, alert>>

(* The cap: alert the human, latch, go quiet.                              *)
GiveUp ==
    /\ MayPush
    /\ Consecutive >= MaxConsecutive
    /\ Allow("unfinished")
    /\ alert' = "sent"
    /\ SetKeeperState(Consecutive, TRUE)

(* The alert raises: main logs it and lets the agent stop.                 *)
GiveUpFails ==
    /\ BubbleMayFail
    /\ MayPush
    /\ Consecutive >= MaxConsecutive
    /\ Allow("unfinished")
    /\ alert' = IF alert = "sent" THEN alert ELSE "failed"
    /\ UNCHANGED <<keeper, lost>>

\* Mutant: one push too many.
PushOnceMore ==
    /\ MayPush
    /\ Consecutive <= MaxConsecutive
    /\ Stops("unfinished")
    /\ SetKeeperState(Consecutive + 1, FALSE)
    /\ working' = TRUE
    /\ streak' = IF streak <= MaxConsecutive + MaxLost
               THEN streak + 1 ELSE 1
    /\ refused' = TRUE
    /\ UNCHANGED alert

Push ==
    /\ MayPush
    /\ Consecutive < MaxConsecutive
    /\ Stops("unfinished")
    /\ SetKeeperState(Consecutive + 1, FALSE)
    /\ working' = TRUE
    /\ streak' = IF streak <= MaxConsecutive + MaxLost
               THEN streak + 1 ELSE 1
    /\ refused' = TRUE
    /\ UNCHANGED alert

StopHook ==
    \/ NoVerdict
    \/ \E v \in {"finished", "unfinished"} : Halt(v)
    \/ Rest
    \/ StayQuiet
    \/ GiveUp
    \/ GiveUpFails
    \/ Push

KeeperNext ==
    \/ \E halt \in BOOLEAN : NewMessage(halt)
    \/ Wake
    \/ StopHook

KeeperSpec == KeeperInit /\ [][KeeperNext]_keeperVars

(* The agent's loop ends every lap in an attempt to stop, and the hook is  *)
(* bounded by its deadlines.  Nothing is assumed of the user, of           *)
(* resumptions, or of the verdict.                                         *)
KeeperFairSpec == KeeperSpec /\ WF_keeperVars(StopHook)

-----------------------------------------------------------------------------
\* The type of the variables.
TypeOK ==
    /\ turn \in 0 .. MaxTurns
    /\ halted \in BOOLEAN
    /\ working \in BOOLEAN
    /\ wakes \in 0 .. MaxWakes
    /\ keeper \in [anchor : 0 .. MaxTurns, consecutive : 0 .. MaxConsecutive,
                   capped : BOOLEAN]
    /\ streak \in 0 .. MaxConsecutive + MaxLost + 1
    /\ lost \in 0 .. MaxLost
    /\ refused \in BOOLEAN
    /\ alert \in {"none", "failed", "sent"}
    /\ verdict \in Verdicts

\* The runaway guard: the agent is never sent back more than MaxConsecutive
\* times in a row, whatever the audits say (_KEEPER_MAX_CONSECUTIVE), plus
\* once for every write of the marker that was lost on the way: the count is
\* read back from the marker, and a push is made whether it was kept or not.
RunawayGuard == streak <= MaxConsecutive + lost

\* The stop that is being allowed was judged unfinished, and the user did
\* not order a halt.
LetsGoUnfinished ==
    working /\ ~working' /\ verdict' = "unfinished" /\ ~halted

\* Work judged unfinished is let go only after an attempt to alert the human
\* in this very turn, and silently only after an alert that went out: a cap
\* reached for an earlier message never silences the keeper for a later one,
\* and a failed alert is tried again.
GivesUpLoudly ==
    [][LetsGoUnfinished
         => alert' # "none" /\ (Capped => alert' = "sent")]_keeperVars

\* Even with lost markers and lost alerts, a new message re-arms the keeper
\* (_keeper_decision, step 3): it never lets unfinished work go without
\* having pushed for this message first.
NewMessageReArms == [][LetsGoUnfinished => refused]_keeperVars

\* The agent comes to rest: while the disk keeps all but finitely many writes
\* the keeper cannot drive it for ever.
ComesToRest == working ~> ~working
=============================================================================
