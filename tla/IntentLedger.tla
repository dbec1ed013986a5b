---------------------------- MODULE IntentLedger ----------------------------
(***************************************************************************)
(* The fork ledger of one session and what the intake hook does to it on a *)
(* prompt (intake_hook.py, transcript.py, dialog.py, dialog_store.py,      *)
(* livegoal.py): the transcript since the cursor is replayed into the      *)
(* ledger, the cursor parked, the new prompt observed live, and the live   *)
(* goal asked whether the user has moved on or has answered the question   *)
(* that is pending.                                                        *)
(*                                                                         *)
(* Every step may fail or be the last before the hook is killed; the       *)
(* prompt reaches the agent all the same.                                  *)
(***************************************************************************)
EXTENDS Dialog

CONSTANTS
    Offers,         \* messages of the agent
    Replies,        \* messages of the user
    Kills,          \* the hook may be killed
    MaxPrompts,     \* prompts (bound)
    MaxOffers       \* messages of the agent (bound)

ASSUME LedgerAssumption ==
    /\ Kills \in BOOLEAN /\ MaxPrompts \in Nat /\ MaxOffers \in Nat
    /\ \A message \in Offers : message.lines \in Seq(Lines)

VARIABLES
    log,        \* the transcript: messages of both, in order
    cursor,     \* the last message replayed, as parked in its file
    exchange,   \* the counter "prompt" of the project
    forks,      \* the fork rows, in order
    bindings,   \* the resolved binding rows, in order
    proposal,   \* the fork whose retirement is proposed, or 0
    hook,       \* where the hook is
    pos,        \* the message its replay has come to
    prompt      \* the prompt it handles

ledger == <<exchange, forks, bindings>>
progress == <<hook, pos, prompt>>
vars == <<log, cursor, ledger, proposal, progress>>

Agents == {[by |-> "agent", text |-> m] : m \in Offers}
Users == {[by |-> "user", text |-> r] : r \in Replies}
NoPrompt == [by |-> "nobody"]

Init ==
    /\ log = <<>> /\ cursor = 0
    /\ exchange = 0 /\ forks = <<>> /\ bindings = <<>>
    /\ proposal = 0
    /\ hook = "idle" /\ pos = 0 /\ prompt = NoPrompt

-----------------------------------------------------------------------------
(* The ledger (dialog_store.py).                                           *)

WithStatus(status) == {f \in DOMAIN forks : forks[f].status = status}
OpenForks == WithStatus("open")
Superseded == WithStatus("superseded")

Newest(fs) == CHOOSE f \in fs : \A g \in fs : g <= f

BoundForks == [i \in DOMAIN bindings |-> bindings[i].fork]
\* The picks of the ledger as the abstract commitment; a replay may offer the
\* same fork again.
C == INSTANCE Commitment WITH
        picks <- BoundForks, retired <- Superseded, asked <- proposal

\* active_binding: the latest whose fork has not been superseded.
LiveBinding == C!LivePick(BoundForks, Superseded)
LiveFork == C!LiveFork(BoundForks, Superseded)

\* The counter "node:<pn>" of the exchange.
NextSeq(pn) == Cardinality({f \in DOMAIN forks : forks[f].pn = pn}) + 1

AddFork(message) ==
    forks' = Append(forks,
        [pn |-> exchange, seq |-> NextSeq(exchange), status |-> "open",
         labels |-> ParseFork(message).labels, best |-> ParseFork(message).best,
         from |-> pos + 1])

ObserveAgent(message) ==
    /\ IF IsFork(message) THEN AddFork(message) ELSE UNCHANGED forks
    /\ UNCHANGED <<exchange, bindings>>

Bind(f, label, at) ==
    bindings' = Append(bindings, [fork |-> f, label |-> label, from |-> at])

\* A turn of the user's is a new exchange; a pick binds the newest open fork.
\* resolves: whether the fork's row is updated before a kill.
ObserveUser(reply, at, resolves) ==
    /\ exchange' = exchange + 1
    /\ LET pick == IF OpenForks = {} THEN NoPick
                   ELSE ResolveSelection(forks[Newest(OpenForks)], reply)
       IN IF pick.made
          THEN /\ Bind(Newest(OpenForks), pick.label, at)
               /\ forks' = IF resolves
                           THEN [forks EXCEPT ![Newest(OpenForks)].status = "resolved"]
                           ELSE forks
          ELSE UNCHANGED <<forks, bindings>>

-----------------------------------------------------------------------------
(* The agent, and the hook's stages.                                       *)

Prompts == Cardinality({i \in DOMAIN log : log[i].by = "user"})
Spoken == Cardinality({i \in DOMAIN log : log[i].by = "agent"})

AgentSpeaks ==
    /\ hook = "idle" /\ log # <<>>
    /\ Spoken < MaxOffers
    /\ \E m \in Agents : log' = Append(log, m)
    /\ UNCHANGED <<cursor, ledger, proposal, progress>>

Submit ==
    /\ hook = "idle"
    /\ Prompts < MaxPrompts
    /\ prompt' \in Users
    /\ hook' = "replay"
    /\ pos' = cursor
    /\ UNCHANGED <<log, cursor, ledger, proposal>>

ReplayNext ==
    /\ hook = "replay"
    /\ pos < Len(log)
    /\ LET event == log[pos + 1] IN
       IF event.by = "agent" THEN ObserveAgent(event.text)
       ELSE ObserveUser(event.text, pos + 1, TRUE)
    /\ pos' = pos + 1
    /\ UNCHANGED <<log, cursor, proposal, hook, prompt>>

\* The cursor is parked after the whole span; its write may fail.
ParkCursor ==
    /\ hook = "replay"
    /\ pos = Len(log)
    /\ cursor' \in {cursor, pos}
    /\ hook' = "live"
    /\ UNCHANGED <<log, ledger, proposal, pos, prompt>>

\* A replay that throws is a finding of its stage; the hook goes on.
ReplayThrows ==
    /\ hook = "replay"
    /\ hook' = "live"
    /\ UNCHANGED <<log, cursor, ledger, proposal, pos, prompt>>

ObserveLive ==
    /\ hook = "live"
    /\ ObserveUser(prompt.text, Len(log) + 1, TRUE)
    /\ hook' = "goal"
    /\ UNCHANGED <<log, cursor, proposal, pos, prompt>>

-----------------------------------------------------------------------------
(* livegoal_turn.  The classifier's answer is any; a failed or late one    *)
(* changes nothing.                                                        *)

GoalEnds == hook' = "done" /\ UNCHANGED <<log, cursor, exchange, bindings, pos, prompt>>

Pending == proposal # 0 /\ proposal = LiveFork

\* No commitment, or a question about another one: the question is dropped.
DropStale ==
    /\ hook = "goal"
    /\ proposal # 0 /\ ~Pending
    /\ proposal' \in {0, proposal}
    /\ GoalEnds /\ UNCHANGED forks

\* Off the commitment: the question is put; a stale one is replaced.
ProposeRetirement ==
    /\ hook = "goal"
    /\ LiveFork # 0 /\ ~Pending
    /\ proposal' = LiveFork
    /\ GoalEnds /\ UNCHANGED forks

\* Whatever the question was about, retire what stands now.
RetireWhatStands ==
    /\ hook = "goal"
    /\ proposal # 0 /\ LiveFork # 0
    /\ forks' = [forks EXCEPT ![LiveFork].status = "superseded"]
    /\ proposal' \in {0, proposal}
    /\ GoalEnds

RetireCommitted ==
    /\ hook = "goal"
    /\ Pending
    /\ forks' = [forks EXCEPT ![LiveFork].status = "superseded"]
    /\ proposal' \in {0, proposal}
    /\ GoalEnds

KeepCommitted ==
    /\ hook = "goal"
    /\ Pending
    /\ proposal' = 0
    /\ GoalEnds /\ UNCHANGED forks

\* Still on the goal, no answer, nothing to track, or a failure.
NothingToDo ==
    /\ hook = "goal"
    /\ GoalEnds /\ UNCHANGED <<forks, proposal>>

Deliver ==
    /\ hook = "done"
    /\ log' = Append(log, prompt)
    /\ hook' = "idle" /\ prompt' = NoPrompt /\ pos' = 0
    /\ UNCHANGED <<cursor, ledger, proposal>>

Kill ==
    /\ Kills
    /\ hook \in {"replay", "live", "goal"}
    /\ hook' = "done"
    /\ UNCHANGED <<log, cursor, ledger, proposal, pos, prompt>>

\* Killed between the two rows that a pick writes.
KillBetweenRows ==
    /\ Kills
    /\ \/ /\ hook = "live"
          /\ ObserveUser(prompt.text, Len(log) + 1, FALSE)
       \/ /\ hook = "replay" /\ pos < Len(log) /\ log[pos + 1].by = "user"
          /\ ObserveUser(log[pos + 1].text, pos + 1, FALSE)
    /\ hook' = "done"
    /\ UNCHANGED <<log, cursor, proposal, pos, prompt>>

LiveGoal == DropStale \/ ProposeRetirement \/ RetireCommitted \/ KeepCommitted \/ NothingToDo

Next ==
    \/ AgentSpeaks \/ Submit \/ ReplayNext \/ ParkCursor \/ ReplayThrows
    \/ ObserveLive \/ LiveGoal \/ Deliver \/ Kill \/ KillBetweenRows

Spec == Init /\ [][Next]_vars

-----------------------------------------------------------------------------
LedgerTypeOK ==
    /\ log \in Seq(Agents \union Users)
    /\ cursor \in 0 .. Len(log) /\ pos \in 0 .. Len(log)
    /\ exchange \in Nat
    /\ \A f \in DOMAIN forks :
          /\ forks[f].status \in {"open", "resolved", "superseded"}
          /\ forks[f].pn \in 0 .. exchange /\ forks[f].seq \in Nat \ {0}
          /\ ToSet(forks[f].labels) \subseteq Labels
          /\ forks[f].best \in ToSet(forks[f].labels) \union {NoLabel}
    /\ \A i \in DOMAIN bindings : bindings[i].fork \in DOMAIN forks
    /\ proposal \in 0 .. Len(forks)
    /\ hook \in {"idle", "replay", "live", "goal", "done"}
    /\ prompt \in Users \union {NoPrompt}

\* A citation names one choice for ever: no two forks share a number, no fork
\* offers a label twice, whatever is replayed or cut short.
CitationsAreUnique ==
    /\ \A f, g \in DOMAIN forks :
          forks[f].pn = forks[g].pn /\ forks[f].seq = forks[g].seq => f = g
    /\ \A f \in DOMAIN forks : Cardinality(ToSet(forks[f].labels)) = Len(forks[f].labels)

\* The ledger is closed under its own word: a binding picks an option its fork
\* offers, and no fork is resolved or retired that nobody picked.
PicksAreOffered ==
    /\ \A i \in DOMAIN bindings :
          bindings[i].label \in ToSet(forks[bindings[i].fork].labels)
    /\ \A f \in DOMAIN forks \ OpenForks : f \in ToSet(BoundForks)

LedgerInOrder == LedgerTypeOK /\ CitationsAreUnique /\ PicksAreOffered

Verdict(action) ==
    LET bound == LiveFork
        picked == bindings[LiveBinding].label
    IN IF action.fork # 0 THEN CiteVerdict(forks, bound, picked, action)
       ELSE LabelVerdict(forks, OpenForks, bound, picked, action.label)

Actions == [fork : 0 .. Len(forks), label : Labels]

\* The action departs from the standing pick: it cites another fork or another
\* option of the fork, or names an option of the fork that was not picked.
Departs(action) ==
    IF action.fork # 0
    THEN action # [fork |-> LiveFork, label |-> bindings[LiveBinding].label]
    ELSE /\ action.label \in ToSet(forks[LiveFork].labels)
         /\ action.label # bindings[LiveBinding].label

\* "A real contradiction is never downgraded to a silent UNKNOWN": in every
\* ledger that can come about, an action that departs from the standing pick
\* is surfaced, and one that follows it by citation never is.
NeverSilent ==
    LiveBinding # 0 =>
        /\ \A action \in Actions : Departs(action) => Verdict(action).surface
        /\ ~Verdict([fork |-> LiveFork, label |-> bindings[LiveBinding].label]).surface

\* The ledger and the live goal implement the commitment.
CommitmentHolds == C!Spec
=============================================================================
