------------------------------- MODULE Outbox -------------------------------
(***************************************************************************)
(* The bubble outbox of one session (saddle.bubble) and the three readers  *)
(* that keep a position in it: the drain that opens a prompt               *)
(* (saddle.intake_hook), and the lesson harvest and the voice check of the *)
(* turn-end hook (saddle.stop_hook), all of them stages run under          *)
(* saddle.supervisor.                                                      *)
(*                                                                         *)
(* The hooks of a session run one after the other: a prompt opens with the *)
(* intake hook, the agent works (and the pre-edit gate may alert), the     *)
(* Stop hook closes the turn.  A hook may be killed between any two of its *)
(* steps, and a position written to disk may fail to be written.  The time *)
(* of a bubble is its place in the outbox; the time a hook reads is the    *)
(* number of bubbles emitted so far.                                       *)
(***************************************************************************)
EXTENDS Integers, Sequences, FiniteSets, FiniteSetsExt

CONSTANTS
    Projects,       \* the projects of the tenant
    Ambient,        \* the project the session runs in
    Surface,        \* _MAX_SURFACED: findings a drain delivers
    Scan,           \* bubbles a drain reads back
    HarvestScan,    \* bubbles a harvest reads back
    MaxBubbles,     \* bound: bubbles emitted
    MaxSpoils       \* bound: hooks killed and positions not written

ASSUME OutboxAssumption ==
    /\ Ambient \in Projects
    /\ {Surface, Scan, HarvestScan, MaxBubbles, MaxSpoils} \subseteq Nat

VARIABLES
    outbox,         \* the bubbles, in the order of their time
    cursor,         \* on disk: what the drain has read up to
    watermark,      \* on disk: what the harvest has read up to
    at,             \* the step the session's hooks have come to
    findings,       \* the drain's findings, not yet delivered
    mark,           \* the time the running Stop hook took for the watermark
    todo,           \* the projects the running harvest has yet to visit
    saved,          \* did the running harvest file a lesson?
    \* what was observed from outside
    shown,          \* times each bubble was delivered to the agent
    learnt,         \* times each bubble was given to a harvest that ended
    buried,         \* findings read by a drain that died
    spoilt          \* hooks killed and positions not written

memory == <<findings, mark, todo, saved>>
disk == <<cursor, watermark>>
observed == <<shown, learnt, buried, spoilt>>
vars == <<outbox, disk, at, memory, observed>>

-----------------------------------------------------------------------------

(* What a bubble's stage and meta tell its readers: a flaw the review or   *)
(* the conformance scan found at the turn's end, a flaw the pre-edit gate  *)
(* caught in the middle of a turn, unplain wording, other news of a turn's *)
(* end, a harvest or another stage that failed, a notice of the intake.    *)
Kinds == {"flaw", "caught", "wording", "news", "unlearnt", "failure", "notice"}
Bubbles == [kind : Kinds, project : Projects]

Flaws == {"flaw", "caught"}             \* what a harvest reads
TurnEnd == {"flaw", "wording", "news"}  \* what a drain delivers: its origin

Times == 1..Len(outbox)

(* recent: the newest `limit` bubbles after `since`. *)
Recent(since, limit) ==
    {t \in Times : t > since /\ t > Len(outbox) - limit}

Emit(kind, project) ==
    /\ Len(outbox) < MaxBubbles
    /\ outbox' = Append(outbox, [kind |-> kind, project |-> project])
    /\ shown' = Append(shown, 0)
    /\ learnt' = Append(learnt, 0)

Quiet == UNCHANGED <<outbox, shown, learnt>>

Spoil == spoilt < MaxSpoils /\ spoilt' = spoilt + 1

(* A hook is a process: its memory ends with it. *)
Forget ==
    /\ findings' = {} /\ todo' = {} /\ saved' = FALSE /\ mark' = 0

(* Never, once, or more often. *)
Count(f, ts) ==
    [t \in DOMAIN f |-> IF t \in ts THEN Min({f[t] + 1, 2}) ELSE f[t]]

Init ==
    /\ outbox = <<>> /\ shown = <<>> /\ learnt = <<>>
    /\ cursor = 0 /\ watermark = 0 /\ mark = 0
    /\ at = "idle"
    /\ findings = {} /\ todo = {} /\ buried = {}
    /\ saved = FALSE /\ spoilt = 0

-----------------------------------------------------------------------------
(* The prompt: the drain, then the stages of the intake hook.              *)

Newest(ts, n) == {t \in ts : Cardinality({u \in ts : u > t}) < n}
Oldest(ts, n) == {t \in ts : Cardinality({u \in ts : u < t}) < n}

Unseen == {t \in Recent(cursor, Scan) : outbox[t].kind \in TurnEnd}

SurfacedOldest == Oldest(Unseen, Surface)
Surfaced == Newest(Unseen, Surface)

Prompt ==
    /\ at = "idle"
    /\ at' = "drain"
    /\ UNCHANGED <<outbox, disk, memory, observed>>

(* The drain moves its cursor before anything it read is delivered. *)
AdvanceCursor(to) ==
    \/ cursor' = to /\ UNCHANGED spoilt
    \/ Spoil /\ UNCHANGED cursor

(* As a reader of a newest-first list takes its last entry for the newest. *)
DrainToLastRow ==
    /\ at = "drain"
    /\ findings' = Surfaced
    /\ AdvanceCursor(IF Recent(cursor, Scan) = {} THEN Len(outbox)
                     ELSE Min(Recent(cursor, Scan)))
    /\ at' = "intake"
    /\ UNCHANGED <<outbox, watermark, mark, todo, saved, shown, learnt, buried>>

Drain ==
    /\ at = "drain"
    /\ findings' = Surfaced
    /\ AdvanceCursor(Len(outbox))
    /\ at' = "intake"
    /\ UNCHANGED <<outbox, watermark, mark, todo, saved, shown, learnt, buried>>

IntakeSpeaks ==
    /\ at = "intake"
    /\ \E p \in Projects : Emit("notice", p)
    /\ UNCHANGED <<at, disk, memory, buried, spoilt>>

Deliver ==
    /\ at = "intake"
    /\ shown' = Count(shown, findings)
    /\ findings' = {}
    /\ at' = "work"
    /\ UNCHANGED <<outbox, disk, mark, todo, saved, learnt, buried, spoilt>>

(* The pre-edit gate alerts in the middle of a turn, in the ledger of the  *)
(* project the edited file belongs to: the agent reads it there and then.  *)
GateAlerts ==
    /\ at = "work"
    /\ \E p \in Projects : Emit("caught", p)
    /\ UNCHANGED <<at, disk, memory, buried, spoilt>>

-----------------------------------------------------------------------------
(* The Stop hook: a chain of stages.                                       *)

After == [design |-> "code", code |-> "mark", lesson |-> "voice",
          voice |-> "completion", completion |-> "settle"]

Stop ==
    /\ at = "work"
    /\ at' = "design"
    /\ UNCHANGED <<outbox, disk, memory, observed>>

Found == [design |-> "flaw", code |-> "flaw", voice |-> "wording",
          completion |-> "news"]

(* What saddle said since the last harvest, in the ambient project. *)
OwnWords == {t \in Recent(watermark, HarvestScan) :
                outbox[t].project = Ambient /\ outbox[t].kind # "wording"}

(* run_stage: silent when the stage found nothing, a bubble when it has    *)
(* something to say, an alert when it raised.                              *)
RaisesInSilence(kind) == Quiet

Raises(kind) == Emit(kind, Ambient)

Check(stage) ==
    /\ at = stage
    /\ \/ Quiet
       \/ /\ stage = "voice" => OwnWords # {}
          /\ Emit(Found[stage], Ambient) \/ Raises("failure")
    /\ at' = After[stage]
    /\ UNCHANGED <<disk, memory, buried, spoilt>>

(* _turn_issues: the flaws caught since the last harvest, by project. *)
Issues(p) ==
    {t \in Recent(watermark, HarvestScan) :
        outbox[t].project = p /\ outbox[t].kind \in Flaws}

TakeMark ==
    /\ at = "mark"
    /\ mark' = Len(outbox)
    /\ todo' = {p \in Projects : Issues(p) # {}}
    /\ saved' = FALSE
    /\ at' = "lesson"
    /\ UNCHANGED <<outbox, disk, findings, observed>>

(* The projects are visited one by one, the ambient one first. *)
Turn(p) == p \in todo /\ (Ambient \in todo => p = Ambient)

Harvest(p) ==
    /\ at = "lesson" /\ Turn(p)
    /\ learnt' = Count(learnt, Issues(p))
    /\ todo' = todo \ {p}
    /\ \E s \in BOOLEAN :
            /\ s => Len(outbox) < MaxBubbles     \* bound: room to say so
            /\ saved' = (saved \/ s)
    /\ UNCHANGED <<outbox, shown, at, disk, findings, mark, buried, spoilt>>

HarvestFails ==
    /\ at = "lesson" /\ todo # {}
    /\ Raises("unlearnt")
    /\ todo' = {}
    /\ saved' = FALSE
    /\ at' = "voice"
    /\ UNCHANGED <<disk, findings, mark, buried, spoilt>>

HarvestEnds ==
    /\ at = "lesson" /\ todo = {}
    /\ IF saved THEN Emit("news", Ambient) ELSE Quiet
    /\ saved' = FALSE
    /\ at' = "voice"
    /\ UNCHANGED <<disk, findings, mark, todo, buried, spoilt>>

Settle ==
    /\ at = "settle"
    /\ \/ watermark' = mark /\ UNCHANGED spoilt
       \/ Spoil /\ UNCHANGED watermark
    /\ at' = "keeper"
    /\ UNCHANGED <<outbox, cursor, memory, shown, learnt, buried>>

(* A refused stop prints the keeper's decision and nothing else. *)
KeeperBlocks ==
    /\ at = "keeper"
    /\ at' = "work"
    /\ Forget
    /\ UNCHANGED <<outbox, disk, shown, learnt, buried, spoilt>>

TurnEnds ==
    /\ at = "keeper"
    /\ \/ Quiet
       \/ Emit("news", Ambient)     \* keeper capped
    /\ at' = "idle"
    /\ Forget
    /\ UNCHANGED <<disk, buried, spoilt>>

(* The host kills the hook that is running: its memory is lost, and the    *)
(* session goes on without what the hook would have said.                  *)
Kill ==
    /\ at \notin {"idle", "work"}
    /\ Spoil
    /\ buried' = buried \union findings
    /\ Forget
    /\ at' = IF at \in {"drain", "intake"} THEN "work" ELSE "idle"
    /\ UNCHANGED <<outbox, disk, shown, learnt>>

Next ==
    \/ Prompt \/ Drain \/ IntakeSpeaks \/ Deliver \/ GateAlerts \/ Stop
    \/ \E stage \in {"design", "code", "voice", "completion"} : Check(stage)
    \/ TakeMark
    \/ \E p \in Projects : Harvest(p)
    \/ HarvestFails \/ HarvestEnds \/ Settle \/ KeeperBlocks \/ TurnEnds
    \/ Kill

Spec == Init /\ [][Next]_vars

-----------------------------------------------------------------------------

OutboxTypeOK ==
    /\ outbox \in Seq(Bubbles)
    /\ shown \in Seq(0..2) /\ learnt \in Seq(0..2)
    /\ Len(shown) = Len(outbox) /\ Len(learnt) = Len(outbox)
    /\ {cursor, watermark, mark} \subseteq 0..Len(outbox)
    /\ at \in DOMAIN After \union
              {"idle", "drain", "intake", "work", "mark", "settle", "keeper"}
    /\ (findings \union buried) \subseteq Times
    /\ todo \subseteq Projects
    /\ saved \in BOOLEAN /\ spoilt \in 0..MaxSpoils

(* What left the drain's hands: delivered, about to be, or dead with it. *)
Taken == {t \in Times : shown[t] > 0} \union findings \union buried

(* A finding of a turn's end that the cursor has passed reached the agent, *)
(* or died with the hook that had read it, or was crowded out: by as many  *)
(* newer findings as a drain delivers, or by as many newer bubbles as a    *)
(* drain reads (_drained_findings).                                        *)
OnlyCrowdedOut ==
    \A t \in Times :
        outbox[t].kind \in TurnEnd /\ t <= cursor /\ t \notin Taken =>
            \/ Cardinality({u \in Taken : u > t}) >= Surface
            \/ Len(outbox) - t >= Scan

OutboxInOrder == OutboxTypeOK /\ OnlyCrowdedOut

(* As long as no hook is killed and every position is written, a finding   *)
(* is delivered to the agent at most once and is given to a harvest at     *)
(* most once: also when the keeper sends the agent back to work, and when  *)
(* a harvest failed halfway through the projects.                          *)
AtMostOnce ==
    spoilt = 0 => \A t \in Times : shown[t] <= 1 /\ learnt[t] <= 1

(* A flaw the watermark has passed was given to a harvest, or a harvest    *)
(* that failed after it said so, or it was crowded out of what a harvest   *)
(* reads: run_stage and main's order of mark, read and write, with any     *)
(* hook killed at any step.                                                *)
NothingUnlearntInSilence ==
    \A t \in 1..watermark :
        outbox[t].kind \in Flaws /\ learnt[t] = 0 =>
            \/ \E u \in Times : u > t /\ outbox[u].kind = "unlearnt"
            \/ Len(outbox) - t >= HarvestScan
=============================================================================
