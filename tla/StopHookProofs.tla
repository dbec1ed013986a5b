--------------------------- MODULE StopHookProofs ---------------------------
(***************************************************************************)
(* Theorems about the three components that meet in the turn-end hook.     *)
(*                                                                         *)
(* The goal keeper, for any number of user messages and resumptions, any   *)
(* cap and any bound on lost writes: what its marker says of a message was *)
(* earned in that message's turn.                                          *)
(*                                                                         *)
(* The outbox and its readers, for any projects and any lengths of their   *)
(* scans: what a reader's position has passed was read, was crowded out,   *)
(* or was missed aloud, and nothing is read twice unless a hook was killed *)
(* or a position was not written.                                          *)
(*                                                                         *)
(* The gate of the code map, which the conformance stage asks, for any     *)
(* code base and any edits of it: its fixpoints are least ones, it clears  *)
(* no place that unresolved evidence reaches, it masks no mirror gap, and  *)
(* further evidence moves it one way only.                                 *)
(***************************************************************************)
EXTENDS GoalKeeper, Outbox, CodeMap, SelectionProofs

-----------------------------------------------------------------------------
(* The goal keeper.                                                        *)

\* The marker is of this message or an earlier one.
MarkerShape == keeper.anchor <= turn

\* The streak is what the marker says, but for the writes that were lost.
StreakOnRecord ==
    /\ streak <= Consecutive + lost
    /\ ~working => streak = 0

\* What the marker says of this message the keeper has done for it.
MarkerEarned ==
    ~halted /\ SameTurn =>
        /\ keeper.consecutive > 0 \/ keeper.capped => refused
        /\ keeper.capped => alert = "sent"

KeeperInv ==
    /\ TypeOK
    /\ MarkerShape
    /\ StreakOnRecord
    /\ MarkerEarned

-----------------------------------------------------------------------------
(* The invariant holds initially.                                          *)
LEMMA KeeperInvInit == KeeperInit => KeeperInv
<1> SUFFICES ASSUME KeeperInit PROVE KeeperInv
  OBVIOUS
<1> USE GoalKeeperAssumption DEF GoalKeeperAssumption, KeeperInit
<1>1. TypeOK
  <2>1. halted \in BOOLEAN /\ working \in BOOLEAN /\ refused \in BOOLEAN
    BY Zenon
  <2>2. keeper \in [anchor : 0 .. MaxTurns, consecutive : 0 .. MaxConsecutive,
                   capped : BOOLEAN]
    OBVIOUS
  <2>3. /\ turn \in 0 .. MaxTurns /\ wakes \in 0 .. MaxWakes
        /\ streak \in 0 .. MaxConsecutive + MaxLost + 1 /\ lost \in 0 .. MaxLost
        /\ alert \in {"none", "failed", "sent"} /\ verdict \in Verdicts
    BY DEF Verdicts
  <2> QED BY <2>1, <2>2, <2>3, Zenon DEF TypeOK
<1>2. MarkerShape /\ StreakOnRecord
  BY DEF MarkerShape, StreakOnRecord, SameTurn, Consecutive
<1>3. MarkerEarned
  BY DEF MarkerEarned
<1> QED BY <1>1, <1>2, <1>3 DEF KeeperInv

\* What writing the marker leaves: this turn's marker, or the one before.
MarkerKept(n, c) ==
    \/ /\ keeper' = [anchor |-> turn, consecutive |-> n, capped |-> c]
       /\ lost' = lost
    \/ keeper' = keeper /\ lost' = lost + 1 /\ lost' \in 0 .. MaxLost

\* The marker and the count of lost writes keep their types.
MarkerFits ==
    /\ keeper' \in [anchor : 0 .. MaxTurns, consecutive : 0 .. MaxConsecutive,
                    capped : BOOLEAN]
    /\ keeper'.anchor <= turn
    /\ lost' \in 0 .. MaxLost

(* A marker that is written for this turn, or lost.                        *)
LEMMA MarkerWritten ==
  ASSUME KeeperInv, NEW n \in 0 .. MaxConsecutive, NEW c \in BOOLEAN,
         SetKeeperState(n, c)
  PROVE  MarkerKept(n, c) /\ MarkerFits
<1> USE GoalKeeperAssumption DEF GoalKeeperAssumption
<1>1. MarkerKept(n, c)
  BY DEF SetKeeperState, KeeperInv, TypeOK, MarkerKept
<1>2. MarkerFits
  <2>1. CASE keeper' = keeper /\ lost' \in 0 .. MaxLost
    BY <2>1 DEF MarkerFits, KeeperInv, TypeOK, MarkerShape
  <2>2. CASE /\ keeper' = [anchor |-> turn, consecutive |-> n, capped |-> c]
             /\ lost' = lost
    BY <2>2 DEF MarkerFits, KeeperInv, TypeOK
  <2> QED BY <1>1, <2>1, <2>2 DEF MarkerKept
<1> QED BY <1>1, <1>2

(* A stop that is allowed ends the streak; what is left to show is that    *)
(* the marker it leaves was earned.                                        *)
LEMMA KeeperInvAllow ==
  ASSUME KeeperInv, NEW v \in Verdicts, Allow(v),
         keeper' \in [anchor : 0 .. MaxTurns, consecutive : 0 .. MaxConsecutive,
                      capped : BOOLEAN],
         lost' \in 0 .. MaxLost,
         keeper'.anchor <= turn,
         alert' \in {"none", "failed", "sent"},
         MarkerEarned'
  PROVE  KeeperInv'
<1> USE GoalKeeperAssumption DEF GoalKeeperAssumption
<1>1. /\ turn' = turn /\ halted' = halted /\ wakes' = wakes
      /\ working' = FALSE /\ streak' = 0 /\ refused' = refused
      /\ verdict' = v
  BY DEF Allow, Stops
<1>2. TypeOK'
  <2>1. halted' \in BOOLEAN /\ working' \in BOOLEAN /\ refused' \in BOOLEAN
    BY <1>1, Zenon DEF KeeperInv, TypeOK
  <2>2. 0 \in 0 .. MaxConsecutive + MaxLost + 1
    OBVIOUS
  <2> QED BY <1>1, <2>1, <2>2, Zenon DEF KeeperInv, TypeOK
<1>3. MarkerShape'
  BY <1>1 DEF MarkerShape
<1>4. StreakOnRecord'
  <2>1. Consecutive' \in Nat /\ lost' \in Nat
    BY DEF Consecutive
  <2>2. \A a, b \in Nat : 0 <= a + b
    OBVIOUS
  <2>3. 0 <= Consecutive' + lost'
    BY <2>1, <2>2, Zenon
  <2> QED BY <1>1, <2>3, Zenon DEF StreakOnRecord
<1> QED BY <1>2, <1>3, <1>4 DEF KeeperInv

(* Every way of the hook to answer keeps the invariant.                    *)
LEMMA KeeperInvStop == KeeperInv /\ StopHook => KeeperInv'
<1> SUFFICES ASSUME KeeperInv, StopHook PROVE KeeperInv'
  OBVIOUS
<1>a. /\ turn \in 0 .. MaxTurns
      /\ keeper \in [anchor : 0 .. MaxTurns, consecutive : 0 .. MaxConsecutive,
                     capped : BOOLEAN]
      /\ keeper.anchor <= turn
      /\ lost \in 0 .. MaxLost
      /\ alert \in {"none", "failed", "sent"}
      /\ Consecutive \in 0 .. MaxConsecutive
      /\ MaxConsecutive \in Nat \ {0}
      /\ MaxLost \in Nat
      /\ 0 \in 0 .. MaxConsecutive
  BY GoalKeeperAssumption DEF GoalKeeperAssumption, KeeperInv, TypeOK,
    MarkerShape, Consecutive
<1>1. CASE NoVerdict
  <2>1. MarkerEarned'
    BY <1>1 DEF NoVerdict, Allow, Stops, KeeperInv, MarkerEarned, SameTurn
  <2>2. /\ Allow("none") /\ "none" \in Verdicts
        /\ keeper' = keeper /\ lost' = lost /\ alert' = alert
    BY <1>1 DEF NoVerdict, Verdicts
  <2> QED BY <1>a, <2>1, <2>2, KeeperInvAllow, Zenon
<1>2. ASSUME NEW v \in {"finished", "unfinished"}, Halt(v) PROVE KeeperInv'
  <2>1. MarkerEarned'
    BY <1>2 DEF Halt, Allow, Stops, MarkerEarned
  <2>2. SetKeeperState(0, TRUE) /\ alert' = alert /\ Allow(v)
    BY <1>2 DEF Halt
  <2>3. MarkerFits
    BY <1>a, <2>2, MarkerWritten, Zenon
  <2> QED
    BY <1>a, <2>1, <2>2, <2>3, KeeperInvAllow, Zenon DEF MarkerFits, Verdicts
<1>3. CASE Rest
  <2>1. SetKeeperState(0, FALSE) /\ alert' = alert /\ refused' = refused
        /\ halted' = halted /\ turn' = turn
    BY <1>3 DEF Rest, Allow, Stops
  <2>2. MarkerKept(0, FALSE) /\ MarkerFits
    BY <1>a, <2>1, MarkerWritten, Zenon
  <2>3. MarkerEarned'
    BY <1>a, <2>1, <2>2 DEF MarkerKept, KeeperInv, MarkerEarned, SameTurn
  <2>4. Allow("finished")
    BY <1>3 DEF Rest
  <2> QED
    BY <1>a, <2>1, <2>2, <2>3, <2>4, KeeperInvAllow, Zenon
      DEF MarkerFits, Verdicts
<1>4. CASE StayQuiet
  <2>1. MarkerEarned'
    BY <1>4 DEF StayQuiet, Allow, Stops, KeeperInv, MarkerEarned, SameTurn
  <2> QED
    BY <1>4, <1>a, <2>1, KeeperInvAllow DEF StayQuiet, Verdicts
<1>5. CASE GiveUp
  <2>1. SetKeeperState(Consecutive, TRUE) /\ alert' = "sent"
        /\ refused' = refused /\ halted' = halted /\ turn' = turn
    BY <1>5 DEF GiveUp, Allow, Stops
  <2>2. ~halted /\ SameTurn /\ keeper.consecutive > 0
    BY <1>5, <1>a DEF GiveUp, MayPush, Consecutive
  <2>3. refused
    BY <2>2 DEF KeeperInv, MarkerEarned
  <2>4. MarkerEarned'
    BY <2>1, <2>3 DEF MarkerEarned
  <2>5. MarkerFits /\ Allow("unfinished")
    BY <1>5, <1>a, <2>1, MarkerWritten, Zenon DEF GiveUp
  <2> QED
    BY <1>a, <2>1, <2>4, <2>5, KeeperInvAllow, Zenon DEF MarkerFits, Verdicts
<1>6. CASE GiveUpFails
  <2>1. /\ keeper' = keeper /\ turn' = turn /\ halted' = halted
        /\ refused' = refused
        /\ alert = "sent" => alert' = "sent"
        /\ alert' \in {"none", "failed", "sent"}
    BY <1>6, <1>a DEF GiveUpFails, Allow, Stops
  <2>2. MarkerEarned'
    BY <2>1 DEF KeeperInv, MarkerEarned, SameTurn
  <2> QED
    BY <1>6, <1>a, <2>1, <2>2, KeeperInvAllow DEF GiveUpFails, Verdicts
<1>7. CASE Push
  <2>0. Consecutive + 1 \in 0 .. MaxConsecutive
    <3>1. Consecutive < MaxConsecutive
      BY <1>7 DEF Push
    <3> QED BY <1>a, <3>1
  <2>1. /\ SetKeeperState(Consecutive + 1, FALSE)
        /\ ~halted /\ ~Capped
        /\ turn' = turn /\ halted' = halted /\ alert' = alert
        /\ refused' = TRUE /\ working' = TRUE /\ wakes' = wakes
        /\ verdict' = "unfinished"
    BY <1>7 DEF Push, MayPush, Stops
  <2>2. MarkerKept(Consecutive + 1, FALSE) /\ MarkerFits
    BY <2>0, <2>1, MarkerWritten, Zenon
  <2>3. /\ streak \in Nat
        /\ streak <= Consecutive + lost
        /\ streak' = streak + 1
    <3>1. streak \in Nat /\ streak <= Consecutive + lost
      BY <1>a DEF KeeperInv, TypeOK, StreakOnRecord
    <3>2. streak <= MaxConsecutive + MaxLost
      BY <1>a, <3>1
    <3> QED BY <1>7, <3>1, <3>2 DEF Push
  <2>4. StreakOnRecord'
    <3>1. CASE keeper' = keeper /\ lost' = lost + 1
      BY <1>a, <2>1, <2>3, <3>1 DEF StreakOnRecord, Consecutive, SameTurn
    <3>2. CASE /\ keeper' = [anchor |-> turn,
                             consecutive |-> Consecutive + 1,
                             capped |-> FALSE]
               /\ lost' = lost
      <4>1. Consecutive' = Consecutive + 1
        BY <2>1, <3>2 DEF Consecutive, SameTurn
      <4> QED BY <1>a, <2>1, <2>3, <3>2, <4>1 DEF StreakOnRecord
    <3> QED BY <2>2, <3>1, <3>2 DEF MarkerKept
  <2>5. streak' \in 0 .. MaxConsecutive + MaxLost + 1
    BY <1>a, <2>3
  <2>6. halted' \in BOOLEAN /\ working' \in BOOLEAN /\ refused' \in BOOLEAN
    BY <2>1, Zenon DEF KeeperInv, TypeOK
  <2>7. TypeOK'
    BY <2>1, <2>2, <2>5, <2>6, Zenon DEF MarkerFits, KeeperInv, TypeOK, Verdicts
  <2>8. MarkerShape'
    BY <2>1, <2>2 DEF MarkerFits, MarkerShape
  <2>9. MarkerEarned'
    BY <2>1, <2>2 DEF MarkerKept, KeeperInv, MarkerEarned, SameTurn, Capped
  <2> QED BY <2>4, <2>7, <2>8, <2>9 DEF KeeperInv
<1> QED BY <1>1, <1>2, <1>3, <1>4, <1>5, <1>6, <1>7 DEF StopHook

(* Every step keeps the invariant.                                         *)
LEMMA KeeperInvNext == KeeperInv /\ [KeeperNext]_keeperVars => KeeperInv'
<1> SUFFICES ASSUME KeeperInv, [KeeperNext]_keeperVars PROVE KeeperInv'
  OBVIOUS
<1> USE GoalKeeperAssumption DEF GoalKeeperAssumption
<1>1. ASSUME NEW halt \in BOOLEAN, NewMessage(halt) PROVE KeeperInv'
  <2>0. halted' \in BOOLEAN /\ working' \in BOOLEAN /\ refused' \in BOOLEAN
    BY <1>1, Zenon DEF NewMessage
  <2>a. /\ turn' \in 0 .. MaxTurns
        /\ 0 \in 0 .. MaxLost
        /\ 0 \in 0 .. MaxConsecutive + MaxLost + 1
        /\ "none" \in {"none", "failed", "sent"}
        /\ "none" \in Verdicts
    BY <1>1 DEF NewMessage, KeeperInv, TypeOK, Verdicts
  <2>1. TypeOK'
    BY <1>1, <2>0, <2>a, Zenon DEF NewMessage, KeeperInv, TypeOK
  <2>2. keeper' = keeper /\ keeper.anchor \in Nat /\ keeper.anchor < turn'
    BY <1>1 DEF NewMessage, KeeperInv, TypeOK, MarkerShape
  <2>3. MarkerShape'
    BY <2>1, <2>2 DEF MarkerShape, TypeOK
  <2>4. StreakOnRecord'
    BY <1>1, <2>2 DEF NewMessage, StreakOnRecord, SameTurn, Consecutive
  <2>5. MarkerEarned'
    BY <2>1, <2>2 DEF MarkerEarned, SameTurn, TypeOK
  <2> QED BY <2>1, <2>3, <2>4, <2>5 DEF KeeperInv
<1>2. CASE Wake
  BY <1>2 DEF Wake, KeeperInv, TypeOK, MarkerShape, StreakOnRecord,
    MarkerEarned, SameTurn, Consecutive
<1>3. CASE StopHook
  BY <1>3, KeeperInvStop
<1>4. CASE UNCHANGED keeperVars
  BY <1>4 DEF keeperVars, KeeperInv, TypeOK, MarkerShape, StreakOnRecord,
    MarkerEarned, SameTurn, Consecutive
<1> QED BY <1>1, <1>2, <1>3, <1>4 DEF KeeperNext

(* The invariant holds of every behaviour.                                 *)
THEOREM KeeperInvariant == KeeperSpec => []KeeperInv
  BY KeeperInvInit, KeeperInvNext, PTL DEF KeeperSpec

-----------------------------------------------------------------------------
(* The keeper's variables keep their types.                                *)
THEOREM KeeperTyped == KeeperSpec => []TypeOK
<1>1. KeeperInv => TypeOK
  BY DEF KeeperInv
<1> QED BY <1>1, KeeperInvariant, PTL

(* The runaway guard of _keeper_decision for any cap: one more push in a   *)
(* row for each lost write, and no more.                                   *)
THEOREM RunawayGuardHolds == KeeperSpec => []RunawayGuard
<1>1. KeeperInv => RunawayGuard
  BY GoalKeeperAssumption DEF GoalKeeperAssumption, KeeperInv, TypeOK,
    StreakOnRecord, Consecutive, RunawayGuard
<1> QED BY <1>1, KeeperInvariant, PTL

(* Unfinished work is let go only after an attempt to alert the human in   *)
(* this turn, and silently only after an alert that went out.              *)
THEOREM GivesUpLoudlyHolds == KeeperSpec => GivesUpLoudly
<1>1. KeeperInv /\ [KeeperNext]_keeperVars =>
        [LetsGoUnfinished => alert' # "none" /\ (Capped => alert' = "sent")]_keeperVars
  <2> SUFFICES ASSUME KeeperInv, KeeperNext, LetsGoUnfinished
               PROVE  alert' # "none" /\ (Capped => alert' = "sent")
    OBVIOUS
  <2>1. StayQuiet \/ GiveUp \/ GiveUpFails
    BY DEF LetsGoUnfinished, KeeperNext, NewMessage, Wake, StopHook, NoVerdict, Halt,
      Rest, Push, Allow, Stops
  <2>2. CASE StayQuiet
    BY <2>2 DEF StayQuiet, Capped, KeeperInv, MarkerEarned
  <2>3. CASE GiveUp
    BY <2>3 DEF GiveUp
  <2>4. CASE GiveUpFails
    BY <2>4 DEF GiveUpFails, MayPush
  <2> QED BY <2>1, <2>2, <2>3, <2>4
<1> QED BY <1>1, KeeperInvariant, PTL DEF KeeperSpec, GivesUpLoudly

(* Unfinished work is let go only in a turn in which the keeper has        *)
(* refused a stop: a new message re-arms it.                               *)
THEOREM NewMessageReArmsHolds == KeeperSpec => NewMessageReArms
<1>1. KeeperInv /\ [KeeperNext]_keeperVars => [LetsGoUnfinished => refused]_keeperVars
  <2> SUFFICES ASSUME KeeperInv, KeeperNext, LetsGoUnfinished PROVE refused
    OBVIOUS
  <2>1. StayQuiet \/ GiveUp \/ GiveUpFails
    BY DEF LetsGoUnfinished, KeeperNext, NewMessage, Wake, StopHook, NoVerdict, Halt,
      Rest, Push, Allow, Stops
  <2>2. CASE StayQuiet
    BY <2>2 DEF StayQuiet, Capped, KeeperInv, MarkerEarned
  <2>3. CASE GiveUp \/ GiveUpFails
    <3>1. ~halted /\ Consecutive >= MaxConsecutive
      BY <2>3 DEF GiveUp, GiveUpFails, MayPush
    <3>2. SameTurn /\ keeper.consecutive > 0
      BY <3>1, GoalKeeperAssumption DEF GoalKeeperAssumption, Consecutive,
        KeeperInv, TypeOK
    <3> QED BY <3>1, <3>2 DEF KeeperInv, MarkerEarned
  <2> QED BY <2>1, <2>2, <2>3
<1> QED BY <1>1, KeeperInvariant, PTL DEF KeeperSpec, NewMessageReArms

-----------------------------------------------------------------------------
(* The bounds and the history variables.                                   *)

LEMMA Bounds ==
    /\ Ambient \in Projects
    /\ Surface \in Nat /\ Scan \in Nat /\ HarvestScan \in Nat
    /\ MaxBubbles \in Nat /\ MaxSpoils \in Nat
BY OutboxAssumption DEF OutboxAssumption

LEMMA TimesAre ==
    ASSUME OutboxTypeOK
    PROVE  /\ Len(outbox) \in Nat /\ Times = 1 .. Len(outbox)
           /\ DOMAIN outbox = Times /\ DOMAIN shown = Times /\ DOMAIN learnt = Times
           /\ \A t \in Times : /\ outbox[t] \in Bubbles
                               /\ shown[t] \in 0 .. 2 /\ learnt[t] \in 0 .. 2
BY DEF OutboxTypeOK, Times

LEMMA OneMore ==
    ASSUME NEW n \in 0 .. 2
    PROVE  /\ Min({n + 1, 2}) \in 1 .. 2 /\ Min({n + 1, 2}) >= n
           /\ n = 0 => Min({n + 1, 2}) = 1
<1> DEFINE S == {n + 1, 2}
<1>1. \E x \in S : \A y \in S : x =< y
  OBVIOUS
<1>2. Min(S) \in S /\ \A y \in S : Min(S) =< y
  BY <1>1 DEF Min
<1> QED BY <1>2

LEMMA CountAdds ==
    ASSUME NEW f \in Seq(0 .. 2), NEW ts
    PROVE  /\ Count(f, ts) \in Seq(0 .. 2) /\ Len(Count(f, ts)) = Len(f)
           /\ \A t \in DOMAIN f :
                 /\ t \notin ts => Count(f, ts)[t] = f[t]
                 /\ t \in ts => Count(f, ts)[t] \in 1 .. 2
                 /\ t \in ts /\ f[t] = 0 => Count(f, ts)[t] = 1
                 /\ Count(f, ts)[t] >= f[t]
<1>1. DOMAIN f = 1 .. Len(f) /\ Len(f) \in Nat /\ \A t \in DOMAIN f : f[t] \in 0 .. 2
  OBVIOUS
<1>2. DOMAIN Count(f, ts) = 1 .. Len(f)
  BY <1>1 DEF Count
<1>3. ASSUME NEW t \in DOMAIN f
      PROVE  /\ t \notin ts => Count(f, ts)[t] = f[t]
             /\ t \in ts => Count(f, ts)[t] \in 1 .. 2
             /\ t \in ts /\ f[t] = 0 => Count(f, ts)[t] = 1
             /\ Count(f, ts)[t] >= f[t]
  <2>1. Count(f, ts)[t] = IF t \in ts THEN Min({f[t] + 1, 2}) ELSE f[t]
    BY DEF Count
  <2>2. f[t] \in 0 .. 2
    BY <1>1
  <2>3. CASE t \in ts
    BY <2>1, <2>2, <2>3, OneMore
  <2>4. CASE t \notin ts
    BY <2>1, <2>2, <2>4
  <2> QED BY <2>3, <2>4
<1>4. \A t \in 1 .. Len(f) : Count(f, ts)[t] \in 0 .. 2
  BY <1>1, <1>3
<1>5. Count(f, ts) = [t \in 1 .. Len(f) |-> Count(f, ts)[t]]
  BY <1>1 DEF Count
<1> QED BY <1>1, <1>2, <1>3, <1>4, <1>5

-----------------------------------------------------------------------------
(* What a step does to the bubbles and to the counts of their readers.     *)

\* A step that says nothing, or one thing more.
Speech ==
    /\ outbox' \in Seq(Bubbles) /\ shown' \in Seq(0 .. 2) /\ learnt' \in Seq(0 .. 2)
    /\ Len(shown') = Len(outbox') /\ Len(learnt') = Len(outbox')
    /\ Len(outbox') \in {Len(outbox), Len(outbox) + 1}
    /\ \A t \in Times : outbox'[t] = outbox[t] /\ shown'[t] = shown[t] /\ learnt'[t] = learnt[t]
    /\ \A t \in Times' \ Times : shown'[t] = 0 /\ learnt'[t] = 0

LEMMA QuietIsSpeech ==
    ASSUME OutboxTypeOK, Quiet
    PROVE  Speech /\ Times' = Times
BY DEF OutboxTypeOK, Quiet, Speech, Times

LEMMA EmitIsSpeech ==
    ASSUME OutboxTypeOK, NEW kind \in Kinds, NEW project \in Projects, Emit(kind, project)
    PROVE  /\ Speech /\ Len(outbox') = Len(outbox) + 1
           /\ outbox'[Len(outbox) + 1].kind = kind
<1> DEFINE b == [kind |-> kind, project |-> project]
<1>1. b \in Bubbles /\ b.kind = kind
  BY DEF Bubbles
<1>2. /\ outbox' = Append(outbox, b) /\ shown' = Append(shown, 0)
      /\ learnt' = Append(learnt, 0)
  BY DEF Emit
<1> HIDE DEF b
<1>3. /\ outbox \in Seq(Bubbles) /\ shown \in Seq(0 .. 2) /\ learnt \in Seq(0 .. 2)
      /\ Len(shown) = Len(outbox) /\ Len(learnt) = Len(outbox) /\ Len(outbox) \in Nat
      /\ 0 \in 0 .. 2
  BY DEF OutboxTypeOK
<1>4. /\ outbox' \in Seq(Bubbles) /\ shown' \in Seq(0 .. 2) /\ learnt' \in Seq(0 .. 2)
      /\ Len(shown') = Len(outbox') /\ Len(learnt') = Len(outbox')
      /\ Len(outbox') = Len(outbox) + 1
  BY <1>1, <1>2, <1>3
<1>5. \A t \in 1 .. Len(outbox) :
         outbox'[t] = outbox[t] /\ shown'[t] = shown[t] /\ learnt'[t] = learnt[t]
  BY <1>2, <1>3
<1>6. /\ outbox'[Len(outbox) + 1] = b
      /\ shown'[Len(outbox) + 1] = 0 /\ learnt'[Len(outbox) + 1] = 0
  BY <1>2, <1>3
<1>7. Times' \ Times = {Len(outbox) + 1}
  BY <1>3, <1>4 DEF Times
<1> QED BY <1>1, <1>4, <1>5, <1>6, <1>7 DEF Speech, Times

\* A step that speaks is one of these; the others leave the outbox alone.
Speaking == IntakeSpeaks \/ GateAlerts \/ (\E stage \in {"design", "code", "voice", "completion"} :
                                               Check(stage))
            \/ HarvestFails \/ HarvestEnds \/ TurnEnds

LEMMA SpeakingIsSpeech ==
    ASSUME OutboxTypeOK, Speaking
    PROVE  Speech
<1> USE Bounds DEF Kinds
<1>1. CASE IntakeSpeaks \/ GateAlerts \/ TurnEnds
  BY <1>1, QuietIsSpeech, EmitIsSpeech DEF IntakeSpeaks, GateAlerts, TurnEnds
<1>2. ASSUME NEW stage \in {"design", "code", "voice", "completion"}, Check(stage)
      PROVE  Speech
  <2>1. Quiet \/ Emit(Found[stage], Ambient) \/ Emit("failure", Ambient)
    BY <1>2 DEF Check, Raises
  <2>2. Found[stage] \in Kinds
    BY DEF Found
  <2> QED BY <2>1, <2>2, QuietIsSpeech, EmitIsSpeech
<1>3. CASE HarvestFails
  BY <1>3, EmitIsSpeech DEF HarvestFails, Raises
<1>4. CASE HarvestEnds
  BY <1>4, QuietIsSpeech, EmitIsSpeech DEF HarvestEnds
<1> QED BY <1>1, <1>2, <1>3, <1>4 DEF Speaking

Places == {"lesson", "voice", "completion", "design", "code",
           "idle", "drain", "intake", "work", "mark", "settle", "keeper"}

LEMMA PlacesAre == DOMAIN After \union
              {"idle", "drain", "intake", "work", "mark", "settle", "keeper"} = Places
BY DEF After, Places

\* The outbox keeps what it has, and the counts only rise.
Grown ==
    /\ Times \subseteq Times' /\ Len(outbox') \in Nat /\ Len(outbox') >= Len(outbox)
    /\ \A t \in Times : /\ outbox'[t] = outbox[t]
                        /\ shown'[t] >= shown[t] /\ learnt'[t] >= learnt[t]

LEMMA SpeechGrows ==
    ASSUME OutboxTypeOK, Speech
    PROVE  Grown
<1>1. /\ Len(outbox') \in Nat /\ Len(outbox) \in Nat /\ Len(outbox') >= Len(outbox)
  BY DEF OutboxTypeOK, Speech
<1>2. Times \subseteq Times'
  BY <1>1 DEF Times
<1>3. ASSUME NEW t \in Times
      PROVE  outbox'[t] = outbox[t] /\ shown'[t] >= shown[t] /\ learnt'[t] >= learnt[t]
  <2>1. shown[t] \in 0 .. 2 /\ learnt[t] \in 0 .. 2
    BY TimesAre
  <2> QED BY <2>1 DEF Speech
<1> QED BY <1>1, <1>2, <1>3 DEF Grown

\* The parts of the type that a step's outbox does not settle.
LEMMA TypeKept ==
    ASSUME OutboxTypeOK, Grown,
           /\ outbox' \in Seq(Bubbles) /\ shown' \in Seq(0 .. 2) /\ learnt' \in Seq(0 .. 2)
           /\ Len(shown') = Len(outbox') /\ Len(learnt') = Len(outbox'),
           cursor' \in {cursor, Len(outbox)}, watermark' \in {watermark, mark},
           mark' \in {mark, 0, Len(outbox)},
           at' \in Places, findings' \union buried' \subseteq Times,
           todo' \subseteq Projects, saved' \in BOOLEAN,
           spoilt' = spoilt \/ Spoil
    PROVE  OutboxTypeOK'
<1>1. spoilt' \in 0 .. MaxSpoils
  BY Bounds DEF OutboxTypeOK, Spoil
<1>2. {cursor', watermark', mark'} \subseteq 0 .. Len(outbox')
  BY DEF OutboxTypeOK, Grown
<1>3. findings' \union buried' \subseteq Times'
  BY DEF Grown
<1> QED BY <1>1, <1>2, <1>3, PlacesAre DEF OutboxTypeOK

LEMMA SurfacedAre == Surfaced \subseteq Unseen /\ Unseen \subseteq Times
BY DEF Surfaced, Newest, Unseen, Recent

LEMMA SilentGrows ==
    ASSUME OutboxTypeOK, outbox' = outbox,
           shown' = shown \/ shown' = Count(shown, findings),
           learnt' = learnt \/ \E p \in Projects : learnt' = Count(learnt, Issues(p))
    PROVE  /\ outbox' \in Seq(Bubbles) /\ shown' \in Seq(0 .. 2) /\ learnt' \in Seq(0 .. 2)
           /\ Len(shown') = Len(outbox') /\ Len(learnt') = Len(outbox')
           /\ Grown
<1>1. /\ outbox \in Seq(Bubbles) /\ shown \in Seq(0 .. 2) /\ learnt \in Seq(0 .. 2)
      /\ Len(shown) = Len(outbox) /\ Len(learnt) = Len(outbox) /\ Len(outbox) \in Nat
  BY DEF OutboxTypeOK
<1>2. /\ shown' \in Seq(0 .. 2) /\ Len(shown') = Len(outbox)
      /\ \A t \in Times : shown'[t] >= shown[t]
  <2>1. CASE shown' = shown
    <3>1. \A t \in Times : shown[t] \in 0 .. 2
      BY TimesAre
    <3> QED BY <1>1, <2>1, <3>1
  <2>2. CASE shown' = Count(shown, findings)
    BY <1>1, <2>2, CountAdds, TimesAre
  <2> QED BY <2>1, <2>2
<1>3. /\ learnt' \in Seq(0 .. 2) /\ Len(learnt') = Len(outbox)
      /\ \A t \in Times : learnt'[t] >= learnt[t]
  <2>1. CASE learnt' = learnt
    <3>1. \A t \in Times : learnt[t] \in 0 .. 2
      BY TimesAre
    <3> QED BY <1>1, <2>1, <3>1
  <2>2. ASSUME NEW p \in Projects, learnt' = Count(learnt, Issues(p))
        PROVE  /\ learnt' \in Seq(0 .. 2) /\ Len(learnt') = Len(outbox)
               /\ \A t \in Times : learnt'[t] >= learnt[t]
    BY <1>1, <2>2, CountAdds, TimesAre
  <2> QED BY <2>1, <2>2
<1>4. Grown
  BY <1>1, <1>2, <1>3 DEF Grown, Times
<1> QED BY <1>1, <1>2, <1>3, <1>4

LEMMA OutboxStep ==
    ASSUME OutboxTypeOK, [Next]_vars
    PROVE  OutboxTypeOK' /\ Grown
<1> USE DEF memory, disk, observed
<1>0. /\ findings \union buried \subseteq Times /\ todo \subseteq Projects
      /\ saved \in BOOLEAN /\ at \in Places
  BY PlacesAre DEF OutboxTypeOK
<1>1. CASE Speaking
  <2>1. Speech /\ Grown
    BY <1>1, SpeakingIsSpeech, SpeechGrows
  <2>2. /\ cursor' = cursor /\ watermark' = watermark /\ mark' \in {mark, 0}
        /\ findings' \in {findings, {}} /\ buried' = buried
        /\ todo' \in {todo, {}} /\ saved' \in {saved, FALSE} /\ spoilt' = spoilt
    BY <1>1 DEF Speaking, IntakeSpeaks, GateAlerts, Check, HarvestFails, HarvestEnds,
                TurnEnds, Forget
  <2>3. at' \in Places
    BY <1>0, <1>1 DEF Speaking, IntakeSpeaks, GateAlerts, Check, HarvestFails, HarvestEnds,
                      TurnEnds, After, Places
  <2>4. findings' \union buried' \subseteq Times /\ todo' \subseteq Projects /\ saved' \in BOOLEAN
    BY <1>0, <2>2
  <2> QED BY <2>1, <2>2, <2>3, <2>4, TypeKept DEF Speech
<1>2. ASSUME outbox' = outbox,
             shown' = shown \/ shown' = Count(shown, findings),
             learnt' = learnt \/ \E p \in Projects : learnt' = Count(learnt, Issues(p)),
             cursor' \in {cursor, Len(outbox)}, watermark' \in {watermark, mark},
             mark' \in {mark, 0, Len(outbox)},
             at' \in Places, findings' \subseteq Times, buried' \subseteq Times,
             todo' \subseteq Projects, saved' \in BOOLEAN,
             spoilt' = spoilt \/ Spoil
      PROVE  OutboxTypeOK' /\ Grown
  <2>1. findings' \union buried' \subseteq Times
    BY <1>2
  <2> QED BY <1>2, <2>1, SilentGrows, TypeKept
<1>3. CASE Prompt
  BY <1>0, <1>2, <1>3 DEF Prompt, Places
<1>4. CASE Drain
  BY <1>0, <1>2, <1>4, SurfacedAre DEF Drain, AdvanceCursor, Places
<1>5. CASE Deliver
  BY <1>0, <1>2, <1>5 DEF Deliver, Places
<1>6. CASE Stop
  BY <1>0, <1>2, <1>6 DEF Stop, Places
<1>7. CASE TakeMark
  <2>1. todo' \subseteq Projects
    BY <1>7 DEF TakeMark
  <2> QED BY <1>0, <1>2, <1>7, <2>1 DEF TakeMark, Places
<1>8. ASSUME NEW p \in Projects, Harvest(p)
      PROVE  OutboxTypeOK' /\ Grown
  <2>1. saved' \in BOOLEAN /\ todo' \subseteq Projects
    BY <1>0, <1>8 DEF Harvest
  <2> QED BY <1>0, <1>2, <1>8, <2>1 DEF Harvest
<1>9. CASE Settle
  BY <1>0, <1>2, <1>9 DEF Settle, Places
<1>10. CASE KeeperBlocks
  BY <1>0, <1>2, <1>10 DEF KeeperBlocks, Forget, Places
<1>11. CASE Kill
  <2>1. at' \in Places
    BY <1>11 DEF Kill, Places
  <2> QED BY <1>0, <1>2, <1>11, <2>1 DEF Kill, Forget
<1>12. CASE UNCHANGED vars
  BY <1>0, <1>2, <1>12 DEF vars
<1> QED BY <1>1, <1>3, <1>4, <1>5, <1>6, <1>7, <1>8, <1>9, <1>10, <1>11, <1>12
        DEF Next, Speaking

-----------------------------------------------------------------------------
(* What a harvest has passed.                                              *)

Harvesting == {"lesson", "voice", "completion", "settle"}

Said(t) == \E u \in Times : u > t /\ outbox[u].kind = "unlearnt"
Passed(t) == Said(t) \/ Len(outbox) - t >= HarvestScan

\* A flaw that no harvest was given.
Missed(t) == outbox[t].kind \in Flaws /\ learnt[t] = 0

DrainInv == at # "intake" => findings = {}

\* The running harvest's mark is the end of what it reads; what lies between
\* the watermark and the mark was given to it, passed, or is still to do.
HarvestInv ==
    /\ at \in Harvesting => watermark <= mark
    /\ at = "lesson" => mark = Len(outbox)
    /\ at # "lesson" => todo = {}
    /\ \A t \in Times : t <= watermark /\ Missed(t) => Passed(t)
    /\ at \in Harvesting =>
           \A t \in Times : t <= mark /\ Missed(t) => Passed(t) \/ outbox[t].project \in todo

LEMMA PassedStays ==
    ASSUME OutboxTypeOK, Grown, NEW t \in Times, Passed(t)
    PROVE  Passed(t)'
<1>1. Said(t) => Said(t)'
  BY DEF Said, Grown
<1>2. Len(outbox) - t >= HarvestScan => Len(outbox') - t >= HarvestScan
  BY Bounds, TimesAre DEF Grown
<1> QED BY <1>1, <1>2 DEF Passed

LEMMA MissedBefore ==
    ASSUME OutboxTypeOK, Grown, NEW t \in Times, Missed(t)'
    PROVE  Missed(t)
<1>1. outbox'[t] = outbox[t] /\ learnt'[t] >= learnt[t] /\ learnt[t] \in 0 .. 2
  BY TimesAre DEF Grown
<1> QED BY <1>1 DEF Missed

LEMMA DrainStep ==
    ASSUME OutboxTypeOK, DrainInv, [Next]_vars
    PROVE  DrainInv'
<1> USE DEF memory, disk, observed, DrainInv
<1>1. CASE Drain
  BY <1>1 DEF Drain
<1>2. ASSUME findings' = {}
      PROVE  DrainInv'
  BY <1>2
<1>3. ASSUME findings' = findings, at = "intake" => at' = "intake"
      PROVE  DrainInv'
  BY <1>3
<1>4. CASE Prompt \/ Stop \/ IntakeSpeaks \/ GateAlerts
  BY <1>3, <1>4 DEF Prompt, Stop, IntakeSpeaks, GateAlerts
<1>5. CASE Deliver \/ KeeperBlocks \/ TurnEnds \/ Kill
  BY <1>2, <1>5 DEF Deliver, KeeperBlocks, TurnEnds, Kill, Forget
<1>6. CASE \E stage \in {"design", "code", "voice", "completion"} : Check(stage)
  BY <1>3, <1>6 DEF Check
<1>7. CASE TakeMark \/ HarvestFails \/ HarvestEnds \/ Settle
  BY <1>3, <1>7 DEF TakeMark, HarvestFails, HarvestEnds, Settle
<1>8. CASE \E p \in Projects : Harvest(p)
  BY <1>3, <1>8 DEF Harvest
<1>9. CASE UNCHANGED vars
  BY <1>3, <1>9 DEF vars
<1> QED BY <1>1, <1>4, <1>5, <1>6, <1>7, <1>8, <1>9 DEF Next

LEMMA HarvestStep ==
    ASSUME OutboxTypeOK, OutboxTypeOK', Grown, HarvestInv, [Next]_vars
    PROVE  HarvestInv'
<1> USE DEF memory, disk, observed
<1>0. /\ watermark \in 0 .. Len(outbox) /\ mark \in 0 .. Len(outbox) /\ Len(outbox) \in Nat
      /\ watermark \in Int /\ mark \in Int
      /\ Times = 1 .. Len(outbox) /\ Times' = 1 .. Len(outbox')
  BY DEF OutboxTypeOK, Times
\* What was passed up to some place stays passed.
<1>1. ASSUME NEW n \in 0 .. Len(outbox), \A t \in Times : t <= n /\ Missed(t) => Passed(t)
      PROVE  \A t \in Times' : t <= n /\ Missed(t)' => Passed(t)'
  <2> SUFFICES ASSUME NEW t \in Times', t <= n, Missed(t)' PROVE Passed(t)'
    OBVIOUS
  <2>1. t \in Times
    BY <1>0
  <2>2. Missed(t)
    BY <2>1, MissedBefore
  <2>3. Passed(t)
    BY <1>1, <2>1, <2>2
  <2> QED BY <2>1, <2>3, PassedStays
<1>2. \A t \in Times' : t <= watermark /\ Missed(t)' => Passed(t)'
  <2>1. \A t \in Times : t <= watermark /\ Missed(t) => Passed(t)
    BY DEF HarvestInv
  <2> QED BY <1>0, <1>1, <2>1
\* A step after which no harvest runs.
<1>3. ASSUME at' \notin Harvesting, todo' = {}, watermark' = watermark
      PROVE  HarvestInv'
  <2>1. \A t \in Times' : t <= watermark' /\ Missed(t)' => Passed(t)'
    BY <1>2, <1>3
  <2> QED BY <1>3, <2>1 DEF HarvestInv, Harvesting
\* A step after which nothing is left to do.
<1>4. ASSUME at' \in Harvesting \ {"lesson"}, todo' = {},
             watermark' \in {watermark, mark}, mark' = mark, watermark <= mark,
             \A t \in Times' : t <= mark /\ Missed(t)' => Passed(t)'
      PROVE  HarvestInv'
  <2>1. \A t \in Times' : t <= watermark' /\ Missed(t)' => Passed(t)'
    BY <1>2, <1>4
  <2>2. \A t \in Times' : t <= mark' /\ Missed(t)' => Passed(t)' \/ outbox'[t].project \in todo'
    BY <1>4
  <2>3. watermark' <= mark'
    BY <1>0, <1>4
  <2> QED BY <1>4, <2>1, <2>2, <2>3 DEF HarvestInv
<1>5. CASE \/ Prompt \/ Drain \/ IntakeSpeaks \/ Deliver \/ GateAlerts \/ Stop
           \/ KeeperBlocks \/ TurnEnds \/ Kill \/ Check("design") \/ Check("code")
  <2>1. watermark' = watermark
    BY <1>5 DEF Prompt, Drain, IntakeSpeaks, Deliver, GateAlerts, Stop,
                KeeperBlocks, TurnEnds, Kill, Check
  <2>2. at' \notin Harvesting
    BY <1>5 DEF Prompt, Drain, IntakeSpeaks, Deliver, GateAlerts, Stop,
                KeeperBlocks, TurnEnds, Kill, Check, After, Harvesting
  <2>3. todo' = {}
    BY <1>5 DEF Prompt, Drain, IntakeSpeaks, Deliver, GateAlerts, Stop,
                KeeperBlocks, TurnEnds, Kill, Check, HarvestInv, Forget
  <2> QED BY <1>3, <2>1, <2>2, <2>3
<1>6. CASE Check("voice") \/ Check("completion")
  <2>1. /\ at' \in Harvesting \ {"lesson"}
        /\ watermark' = watermark /\ mark' = mark /\ todo' = todo
    BY <1>6 DEF Check, After, Harvesting
  <2>2. at \in Harvesting /\ at # "lesson"
    BY <1>6 DEF Check, Harvesting
  <2>3. \A t \in Times : t <= mark /\ Missed(t) => Passed(t)
    BY <2>2 DEF HarvestInv
  <2> QED BY <1>0, <1>1, <1>4, <2>1, <2>2, <2>3 DEF HarvestInv, Harvesting
<1>7. CASE TakeMark
  <2>1. /\ outbox' = outbox /\ learnt' = learnt /\ mark' = Len(outbox) /\ at' = "lesson"
        /\ watermark' = watermark /\ todo' = {p \in Projects : Issues(p) # {}}
    BY <1>7 DEF TakeMark
  <2>2. \A t \in Times' : t <= watermark' /\ Missed(t)' => Passed(t)'
    BY <1>2, <2>1
  <2>3. ASSUME NEW t \in Times, Missed(t)
        PROVE  Passed(t) \/ outbox[t].project \in todo'
    <3>1. CASE t <= watermark
      BY <2>3, <3>1 DEF HarvestInv
    <3>2. CASE ~(Len(outbox) - t < HarvestScan)
      BY <1>0, <3>2, Bounds DEF Passed
    <3>3. CASE t > watermark /\ Len(outbox) - t < HarvestScan
      <4>1. t > Len(outbox) - HarvestScan
        BY <1>0, <3>3, Bounds
      <4>2. outbox[t].project \in Projects
        BY TimesAre DEF Bubbles
      <4>3. t \in Issues(outbox[t].project)
        BY <2>3, <3>3, <4>1 DEF Issues, Recent, Missed
      <4> QED BY <2>1, <4>2, <4>3
    <3> QED BY <1>0, <3>1, <3>2, <3>3
  <2>4. \A t \in Times' : t <= mark' /\ Missed(t)' => Passed(t)' \/ outbox'[t].project \in todo'
    BY <2>1, <2>3 DEF Times, Missed, Passed, Said
  <2>5. watermark' <= mark'
    BY <1>0, <2>1
  <2>6. mark' = Len(outbox')
    BY <2>1
  <2> QED BY <2>1, <2>2, <2>4, <2>5, <2>6 DEF HarvestInv
<1>8. ASSUME NEW p \in Projects, Harvest(p)
      PROVE  HarvestInv'
  <2>1. /\ outbox' = outbox /\ learnt' = Count(learnt, Issues(p)) /\ todo' = todo \ {p}
        /\ at = "lesson" /\ at' = at /\ watermark' = watermark /\ mark' = mark
    BY <1>8 DEF Harvest
  <2>2. watermark <= mark /\ mark = Len(outbox)
    BY <2>1 DEF HarvestInv, Harvesting
  <2>3. ASSUME NEW t \in Times, Missed(t)'
        PROVE  Passed(t) \/ outbox[t].project \in todo \ {p}
    <3>1. Missed(t)
      BY <2>3, MissedBefore
    <3>2. Passed(t) \/ outbox[t].project \in todo
      BY <1>0, <2>1, <2>2, <3>1 DEF HarvestInv, Harvesting
    <3>3. ASSUME outbox[t].project = p
          PROVE  Passed(t)
      <4>1. t \notin Issues(p)
        <5>1. t \in Issues(p) => learnt'[t] \in 1 .. 2
          BY <2>1, CountAdds, TimesAre DEF OutboxTypeOK
        <5> QED BY <2>3, <5>1 DEF Missed
      <4>2. t <= watermark \/ t <= Len(outbox) - HarvestScan
        BY <1>0, <3>1, <3>3, <4>1, Bounds DEF Issues, Recent, Missed
      <4>3. CASE t <= watermark
        BY <3>1, <4>3 DEF HarvestInv
      <4>4. CASE t <= Len(outbox) - HarvestScan
        BY <1>0, <4>4, Bounds DEF Passed
      <4> QED BY <4>2, <4>3, <4>4
    <3> QED BY <3>2, <3>3
  <2>4. \A t \in Times' : t <= watermark' /\ Missed(t)' => Passed(t)'
    BY <1>2, <2>1
  <2>5. \A t \in Times' : t <= mark' /\ Missed(t)' => Passed(t)' \/ outbox'[t].project \in todo'
    BY <2>1, <2>3 DEF Times, Passed, Said
  <2> QED BY <2>1, <2>2, <2>4, <2>5 DEF HarvestInv
<1>9. CASE HarvestFails
  <2>1. /\ Emit("unlearnt", Ambient) /\ at = "lesson" /\ at' = "voice" /\ todo' = {}
        /\ watermark' = watermark /\ mark' = mark
    BY <1>9 DEF HarvestFails, Raises
  <2>2. watermark <= mark /\ mark = Len(outbox)
    BY <2>1 DEF HarvestInv, Harvesting
  <2>3. Len(outbox') = Len(outbox) + 1 /\ outbox'[Len(outbox) + 1].kind = "unlearnt"
    BY <2>1, EmitIsSpeech, Bounds DEF Kinds
  <2>4. Len(outbox) + 1 \in Times'
    BY <1>0, <2>3
  <2>5. ASSUME NEW t \in Times', t <= mark
        PROVE  Passed(t)'
    <3>1. Len(outbox) + 1 > t
      BY <1>0, <2>2, <2>5
    <3> QED BY <2>3, <2>4, <3>1 DEF Passed, Said
  <2> QED BY <1>4, <2>1, <2>2, <2>5 DEF Harvesting
<1>10. CASE HarvestEnds
  <2>1. /\ at = "lesson" /\ at' = "voice" /\ todo = {} /\ todo' = {}
        /\ watermark' = watermark /\ mark' = mark
    BY <1>10 DEF HarvestEnds
  <2>2. watermark <= mark
    BY <2>1 DEF HarvestInv, Harvesting
  <2>3. \A t \in Times : t <= mark /\ Missed(t) => Passed(t)
    BY <2>1 DEF HarvestInv, Harvesting
  <2>4. \A t \in Times' : t <= mark /\ Missed(t)' => Passed(t)'
    BY <1>0, <1>1, <2>3
  <2> QED BY <1>4, <2>1, <2>2, <2>4 DEF Harvesting
<1>11. CASE Settle
  <2>1. /\ at = "settle" /\ at' = "keeper" /\ todo = {} /\ todo' = {}
        /\ watermark' \in {watermark, mark}
    BY <1>11 DEF Settle, HarvestInv
  <2>2. \A t \in Times : t <= mark /\ Missed(t) => Passed(t)
    BY <2>1 DEF HarvestInv, Harvesting
  <2>3. \A t \in Times' : t <= mark /\ Missed(t)' => Passed(t)'
    BY <1>0, <1>1, <2>2
  <2>4. \A t \in Times' : t <= watermark' /\ Missed(t)' => Passed(t)'
    BY <1>2, <2>1, <2>3
  <2> QED BY <2>1, <2>4 DEF HarvestInv, Harvesting
<1>12. CASE UNCHANGED vars
  BY <1>12 DEF vars, HarvestInv, Times, Missed, Passed, Said
<1> QED BY <1>5, <1>6, <1>7, <1>8, <1>9, <1>10, <1>11, <1>12 DEF Next

-----------------------------------------------------------------------------
(* Nothing is read twice.                                                  *)

\* As long as nothing was spoilt: what was shown lies behind the cursor and is
\* not about to be shown, and what a harvest was given lies behind the
\* watermark or belongs to a project the running harvest has done.
OnceInv ==
    spoilt = 0 =>
        /\ \A t \in findings : t <= cursor
        /\ \A t \in Times : shown[t] > 0 => shown[t] = 1 /\ t <= cursor /\ t \notin findings
        /\ \A t \in Times : learnt[t] > 0 =>
              /\ learnt[t] = 1
              /\ \/ t <= watermark
                 \/ at \in Harvesting /\ t <= mark /\ outbox[t].project \notin todo

LEMMA OnceStep ==
    ASSUME OutboxTypeOK, OutboxTypeOK', Grown, DrainInv, HarvestInv, OnceInv, [Next]_vars
    PROVE  OnceInv'
<1> USE DEF memory, disk, observed
<1> SUFFICES ASSUME spoilt' = 0
             PROVE  /\ \A t \in findings' : t <= cursor'
                    /\ \A t \in Times' : shown'[t] > 0 =>
                          shown'[t] = 1 /\ t <= cursor' /\ t \notin findings'
                    /\ \A t \in Times' : learnt'[t] > 0 =>
                          /\ learnt'[t] = 1
                          /\ \/ t <= watermark'
                             \/ at' \in Harvesting /\ t <= mark' /\ outbox'[t].project \notin todo'
  BY DEF OnceInv
<1>0. /\ watermark \in 0 .. Len(outbox) /\ mark \in 0 .. Len(outbox) /\ Len(outbox) \in Nat
      /\ cursor \in 0 .. Len(outbox)
      /\ Times = 1 .. Len(outbox) /\ Times' = 1 .. Len(outbox')
      /\ spoilt \in Nat /\ findings \subseteq Times
      /\ \A t \in Times : shown[t] \in 0 .. 2 /\ learnt[t] \in 0 .. 2
  BY TimesAre, Bounds DEF OutboxTypeOK, Times
<1>1. ~Spoil
  BY <1>0 DEF Spoil
<1>2. spoilt = 0
  BY <1>0, <1>1 DEF Next, vars, Prompt, Drain, AdvanceCursor, IntakeSpeaks, Deliver,
            GateAlerts, Stop, Check, TakeMark, Harvest, HarvestFails, HarvestEnds, Settle,
            KeeperBlocks, TurnEnds, Kill
<1>3. /\ \A t \in findings : t <= cursor
      /\ \A t \in Times : shown[t] > 0 => shown[t] = 1 /\ t <= cursor /\ t \notin findings
      /\ \A t \in Times : learnt[t] > 0 =>
            /\ learnt[t] = 1
            /\ \/ t <= watermark
               \/ at \in Harvesting /\ t <= mark /\ outbox[t].project \notin todo
  BY <1>2 DEF OnceInv
<1> DEFINE ShownOnce == /\ \A t \in findings' : t <= cursor'
                        /\ \A t \in Times' : shown'[t] > 0 =>
                              shown'[t] = 1 /\ t <= cursor' /\ t \notin findings'
           LearntOnce == \A t \in Times' : learnt'[t] > 0 =>
                              /\ learnt'[t] = 1
                              /\ \/ t <= watermark'
                                 \/ /\ at' \in Harvesting /\ t <= mark'
                                    /\ outbox'[t].project \notin todo'
\* A step that delivers nothing, and one that gives no harvest anything.
<1>4. ASSUME \A t \in Times : shown'[t] = shown[t], \A t \in Times' \ Times : shown'[t] = 0,
             cursor' = cursor, findings' \subseteq findings
      PROVE  ShownOnce
  BY <1>0, <1>3, <1>4
<1>5. ASSUME \A t \in Times : learnt'[t] = learnt[t], \A t \in Times' \ Times : learnt'[t] = 0,
             watermark' = watermark,
             at \in Harvesting => at' \in Harvesting /\ mark' = mark /\ todo' \subseteq todo
      PROVE  LearntOnce
  <2> SUFFICES ASSUME NEW t \in Times', learnt'[t] > 0
               PROVE  /\ learnt'[t] = 1
                      /\ \/ t <= watermark'
                         \/ at' \in Harvesting /\ t <= mark' /\ outbox'[t].project \notin todo'
    OBVIOUS
  <2>1. t \in Times
    BY <1>5
  <2>2. outbox'[t] = outbox[t]
    BY <2>1 DEF Grown
  <2> QED BY <1>3, <1>5, <2>1, <2>2
<1> SUFFICES ShownOnce /\ LearntOnce
  OBVIOUS
<1> HIDE DEF ShownOnce, LearntOnce
<1>6. CASE Speaking
  <2>1. /\ \A t \in Times : shown'[t] = shown[t] /\ learnt'[t] = learnt[t]
        /\ \A t \in Times' \ Times : shown'[t] = 0 /\ learnt'[t] = 0
    BY <1>6, SpeakingIsSpeech DEF Speech
  <2>2. /\ cursor' = cursor /\ findings' \subseteq findings /\ watermark' = watermark
    BY <1>6 DEF Speaking, IntakeSpeaks, GateAlerts, Check, HarvestFails, HarvestEnds,
                TurnEnds, Forget
  <2>3. at \in Harvesting => at' \in Harvesting /\ mark' = mark /\ todo' \subseteq todo
    BY <1>6 DEF Speaking, IntakeSpeaks, GateAlerts, Check, HarvestFails, HarvestEnds,
                TurnEnds, Harvesting, After
  <2> QED BY <1>4, <1>5, <2>1, <2>2, <2>3
\* A step that is silent and leaves the counts and the positions alone.
<1>7. ASSUME outbox' = outbox, shown' = shown, learnt' = learnt,
             cursor' = cursor, watermark' = watermark, findings' \subseteq findings,
             at \in Harvesting => at' \in Harvesting /\ mark' = mark /\ todo' \subseteq todo
      PROVE  ShownOnce /\ LearntOnce
  <2>1. Times' = Times
    BY <1>7 DEF Times
  <2> QED BY <1>4, <1>5, <1>7, <2>1
<1>8. CASE Prompt \/ Stop \/ KeeperBlocks \/ UNCHANGED vars
  BY <1>7, <1>8 DEF Prompt, Stop, KeeperBlocks, Forget, vars, Harvesting
<1>9. CASE TakeMark
  BY <1>7, <1>9 DEF TakeMark, Harvesting
<1>10. CASE Drain
  <2>1. /\ outbox' = outbox /\ shown' = shown /\ learnt' = learnt /\ findings' = Surfaced
        /\ watermark' = watermark /\ mark' = mark /\ todo' = todo
        /\ at = "drain" /\ at' = "intake"
    BY <1>10 DEF Drain
  <2>2. cursor' = Len(outbox)
    BY <1>1, <1>10 DEF Drain, AdvanceCursor
  <2>3. Times' = Times
    BY <2>1 DEF Times
  <2>4. \A t \in Surfaced : t \in Times /\ t > cursor
    BY DEF Surfaced, Newest, Unseen, Recent
  <2>5. ShownOnce
    BY <1>0, <1>3, <2>1, <2>2, <2>3, <2>4 DEF ShownOnce
  <2>6. LearntOnce
    BY <1>5, <2>1, <2>3 DEF Harvesting
  <2> QED BY <2>5, <2>6
<1>11. CASE Deliver
  <2>1. /\ outbox' = outbox /\ shown' = Count(shown, findings) /\ learnt' = learnt
        /\ findings' = {} /\ cursor' = cursor /\ watermark' = watermark
        /\ at = "intake"
    BY <1>11 DEF Deliver
  <2>2. Times' = Times
    BY <2>1 DEF Times
  <2>3. ASSUME NEW t \in Times, shown'[t] > 0
        PROVE  shown'[t] = 1 /\ t <= cursor
    <3>1. /\ t \notin findings => shown'[t] = shown[t]
          /\ t \in findings /\ shown[t] = 0 => shown'[t] = 1
      BY <2>1, CountAdds, TimesAre DEF OutboxTypeOK
    <3> QED BY <1>0, <1>3, <2>3, <3>1
  <2>4. ShownOnce
    BY <2>1, <2>2, <2>3 DEF ShownOnce
  <2>5. LearntOnce
    BY <1>5, <2>1, <2>2 DEF Harvesting
  <2> QED BY <2>4, <2>5
<1>12. ASSUME NEW p \in Projects, Harvest(p)
       PROVE  ShownOnce /\ LearntOnce
  <2>1. /\ outbox' = outbox /\ learnt' = Count(learnt, Issues(p)) /\ todo' = todo \ {p}
        /\ p \in todo /\ at = "lesson" /\ at' = at /\ watermark' = watermark /\ mark' = mark
        /\ shown' = shown /\ cursor' = cursor /\ findings' = findings
    BY <1>12 DEF Harvest, Turn
  <2>2. Times' = Times
    BY <2>1 DEF Times
  <2>3. mark = Len(outbox) /\ at' \in Harvesting
    BY <2>1 DEF HarvestInv, Harvesting
  <2>4. ASSUME NEW t \in Times, learnt'[t] > 0
        PROVE  /\ learnt'[t] = 1
               /\ t <= watermark \/ outbox[t].project \notin todo \ {p}
    <3>1. /\ t \notin Issues(p) => learnt'[t] = learnt[t]
          /\ t \in Issues(p) /\ learnt[t] = 0 => learnt'[t] = 1
      BY <2>1, CountAdds, TimesAre DEF OutboxTypeOK
    <3>2. t \in Issues(p) => t > watermark /\ outbox[t].project = p
      BY DEF Issues, Recent
    <3>3. t \in Issues(p) => learnt[t] = 0
      BY <1>0, <1>3, <2>1, <3>2
    <3> QED BY <1>3, <2>4, <3>1, <3>2, <3>3
  <2>5. LearntOnce
    BY <1>0, <2>1, <2>2, <2>3, <2>4 DEF LearntOnce
  <2> QED BY <1>4, <2>1, <2>2, <2>5
<1>13. CASE Settle
  <2>1. /\ outbox' = outbox /\ learnt' = learnt /\ at = "settle" /\ watermark' = mark
        /\ shown' = shown /\ cursor' = cursor /\ findings' = findings
    BY <1>1, <1>13 DEF Settle
  <2>2. Times' = Times
    BY <2>1 DEF Times
  <2>3. watermark <= mark
    BY <2>1 DEF HarvestInv, Harvesting
  <2>4. ASSUME NEW t \in Times, learnt[t] > 0
        PROVE  learnt[t] = 1 /\ t <= mark
    BY <1>0, <1>3, <2>3, <2>4
  <2>5. LearntOnce
    BY <2>1, <2>2, <2>4 DEF LearntOnce
  <2>6. ShownOnce
    BY <1>4, <2>1, <2>2
  <2> QED BY <2>5, <2>6
<1>14. ~Kill
  BY <1>1 DEF Kill
<1> QED BY <1>6, <1>8, <1>9, <1>10, <1>11, <1>12, <1>13, <1>14 DEF Next, Speaking

-----------------------------------------------------------------------------
(* What the drain delivers: of any set of places, the newest.              *)

LEMMA GreatestExists ==
    ASSUME NEW n \in Nat, NEW S \in SUBSET (1 .. n), S # {}
    PROVE  \E g \in S : \A y \in S : y <= g
<1> DEFINE Below == {n - y : y \in S}
<1>1. Below \in SUBSET Nat /\ Below # {}
  <2>1. \A y \in S : n - y \in Nat
    OBVIOUS
  <2>2. Below # {}
    OBVIOUS
  <2> QED BY <2>1, <2>2
<1>2. PICK x \in Below : \A y \in Below : <<y, x>> \notin OpToRel(<, Nat)
  <2> HIDE DEF Below
  <2> QED BY <1>1, NatLessThanWellFounded, WFMin
<1>3. PICK g \in S : x = n - g
  BY <1>2
<1>4. ASSUME NEW y \in S
      PROVE  y <= g
  <2>1. n - y \in Below /\ n - y \in Nat /\ x \in Nat
    OBVIOUS
  <2>2. ~(n - y < x)
    <3>1. n - y < x => <<n - y, x>> \in OpToRel(<, Nat)
      BY <2>1 DEF OpToRel
    <3> QED BY <1>2, <2>1, <3>1
  <2> QED BY <1>3, <2>2
<1> QED BY <1>4

\* What is not among the newest is crowded out by some that are: the newest of
\* those left out has enough newer ones, and they are all among the newest.
LEMMA NewestCrowdOut ==
    ASSUME NEW n \in Nat, NEW k \in Nat, NEW S \in SUBSET (1 .. n),
           NEW t \in S, t \notin Newest(S, k)
    PROVE  Cardinality({u \in Newest(S, k) : u > t}) >= k
<1> DEFINE Above(x) == {u \in S : u > x}
           Out == S \ Newest(S, k)
<1>1. IsFiniteSet(S)
  <2>1. IsFiniteSet(1 .. n)
    BY FS_Interval
  <2> QED BY <2>1, FS_Subset
<1>2. PICK g \in Out : \A y \in Out : y <= g
  BY GreatestExists
<1>3. Cardinality(Above(g)) >= k
  <2>1. IsFiniteSet(Above(g)) /\ Cardinality(Above(g)) \in Nat
    BY <1>1, FS_Subset, FS_CardinalityType
  <2>2. ~(Cardinality(Above(g)) < k)
    BY <1>2 DEF Newest
  <2> QED BY <2>1, <2>2
<1>4. Above(g) \subseteq {u \in Newest(S, k) : u > t}
  <2>1. t <= g
    BY <1>2
  <2>2. ASSUME NEW u \in Above(g)
        PROVE  u \in Newest(S, k) /\ u > t
    <3>1. u \in S /\ ~(u <= g) /\ u \in Nat /\ g \in Nat /\ t \in Nat
      BY <1>2
    <3>2. u \notin Out
      BY <1>2, <3>1
    <3> QED BY <2>1, <3>1, <3>2
  <2> QED BY <2>2
<1>5. IsFiniteSet({u \in Newest(S, k) : u > t})
  BY <1>1, FS_Subset DEF Newest
<1>6. /\ Cardinality(Above(g)) <= Cardinality({u \in Newest(S, k) : u > t})
      /\ Cardinality(Above(g)) \in Nat
      /\ Cardinality({u \in Newest(S, k) : u > t}) \in Nat
  BY <1>1, <1>4, <1>5, FS_Subset, FS_CardinalityType
<1> QED BY <1>3, <1>6

LEMMA TakenStays ==
    ASSUME OutboxTypeOK, OutboxTypeOK', Grown, DrainInv, [Next]_vars
    PROVE  Taken \subseteq Taken'
<1> USE DEF memory, disk, observed
<1>1. ASSUME NEW t \in Times, shown[t] > 0
      PROVE  t \in Taken'
  <2>1. t \in Times' /\ shown'[t] >= shown[t]
    BY DEF Grown
  <2>2. shown[t] \in 0 .. 2 /\ shown'[t] \in 0 .. 2
    BY <2>1, TimesAre DEF OutboxTypeOK, Times
  <2> QED BY <1>1, <2>1, <2>2 DEF Taken
<1>2. buried \subseteq Taken'
  <2>1. buried \subseteq buried'
    BY DEF Next, vars, Prompt, Drain, IntakeSpeaks, Deliver, GateAlerts, Stop, Check,
           TakeMark, Harvest, HarvestFails, HarvestEnds, Settle, KeeperBlocks, TurnEnds, Kill
  <2> QED BY <2>1 DEF Taken
<1>3. findings \subseteq Taken'
  <2>1. CASE Deliver
    <3>1. ASSUME NEW t \in findings
          PROVE  t \in Times' /\ shown'[t] > 0
      <4>1. t \in Times /\ shown' = Count(shown, findings)
        BY <2>1 DEF Deliver, OutboxTypeOK
      <4>2. shown'[t] \in 1 .. 2
        BY <4>1, CountAdds, TimesAre DEF OutboxTypeOK
      <4> QED BY <4>1, <4>2 DEF Grown
    <3> QED BY <3>1 DEF Taken
  <2>2. CASE Kill
    BY <2>2 DEF Kill, Taken
  <2>3. CASE Drain \/ KeeperBlocks \/ TurnEnds
    BY <2>3 DEF Drain, KeeperBlocks, TurnEnds, DrainInv
  <2>4. CASE ~(Deliver \/ Kill \/ Drain \/ KeeperBlocks \/ TurnEnds)
    <3>1. findings' = findings
      BY <2>4 DEF Next, vars, Prompt, IntakeSpeaks, GateAlerts, Stop, Check,
                  TakeMark, Harvest, HarvestFails, HarvestEnds, Settle
    <3> QED BY <3>1 DEF Taken
  <2> QED BY <2>1, <2>2, <2>3, <2>4
<1> QED BY <1>1, <1>2, <1>3 DEF Taken

LEMMA CrowdedStep ==
    ASSUME OutboxTypeOK, OutboxTypeOK', Grown, DrainInv, OnlyCrowdedOut, [Next]_vars
    PROVE  OnlyCrowdedOut'
<1> USE DEF memory, disk, observed
<1>0. /\ cursor \in 0 .. Len(outbox) /\ Len(outbox) \in Nat /\ Len(outbox') \in Nat
      /\ Times = 1 .. Len(outbox) /\ Times' = 1 .. Len(outbox')
      /\ Len(outbox') >= Len(outbox)
  BY DEF OutboxTypeOK, Times, Grown
<1>1. IsFiniteSet(Taken')
  <2>1. Taken' \subseteq 1 .. Len(outbox')
    BY <1>0 DEF Taken, OutboxTypeOK
  <2>2. IsFiniteSet(1 .. Len(outbox'))
    BY <1>0, FS_Interval
  <2> QED BY <2>1, <2>2, FS_Subset
<1>2. ASSUME NEW S \in SUBSET Taken', NEW t \in Times, Cardinality({u \in S : u > t}) >= Surface
      PROVE  Cardinality({u \in Taken' : u > t}) >= Surface
  <2>1. IsFiniteSet(S) /\ IsFiniteSet({u \in Taken' : u > t}) /\ IsFiniteSet({u \in S : u > t})
    BY <1>1, FS_Subset
  <2>2. /\ Cardinality({u \in S : u > t}) <= Cardinality({u \in Taken' : u > t})
        /\ Cardinality({u \in S : u > t}) \in Nat
        /\ Cardinality({u \in Taken' : u > t}) \in Nat
    BY <2>1, FS_Subset, FS_CardinalityType
  <2> QED BY <1>2, <2>2, Bounds
<1> SUFFICES ASSUME NEW t \in Times', outbox'[t].kind \in TurnEnd, t <= cursor', t \notin Taken'
             PROVE  \/ Cardinality({u \in Taken' : u > t}) >= Surface
                    \/ Len(outbox') - t >= Scan
  BY DEF OnlyCrowdedOut
<1>3. t \notin Taken
  BY TakenStays
\* What the cursor had passed before.
<1>4. ASSUME t <= cursor
      PROVE  \/ Cardinality({u \in Taken' : u > t}) >= Surface
             \/ Len(outbox') - t >= Scan
  <2>1. t \in Times /\ outbox'[t] = outbox[t]
    BY <1>0, <1>4 DEF Grown
  <2>2. \/ Cardinality({u \in Taken : u > t}) >= Surface
        \/ Len(outbox) - t >= Scan
    BY <1>3, <1>4, <2>1 DEF OnlyCrowdedOut
  <2>3. CASE Cardinality({u \in Taken : u > t}) >= Surface
    BY <1>2, <2>1, <2>3, TakenStays
  <2>4. CASE Len(outbox) - t >= Scan
    BY <1>0, <2>1, <2>4, Bounds
  <2> QED BY <2>2, <2>3, <2>4
\* What it passes now.
<1>5. CASE t > cursor
  <2>1. Drain /\ cursor' = Len(outbox)
    <3>1. cursor' # cursor
      BY <1>0, <1>5
    <3> QED BY <3>1 DEF Next, vars, Prompt, Drain, AdvanceCursor, IntakeSpeaks, Deliver,
              GateAlerts, Stop, Check, TakeMark, Harvest, HarvestFails, HarvestEnds, Settle,
              KeeperBlocks, TurnEnds, Kill
  <2>2. outbox' = outbox /\ findings' = Surfaced /\ Times' = Times
    BY <2>1 DEF Drain, Times
  <2>3. Surfaced \subseteq Taken'
    BY <2>2 DEF Taken
  <2>4. CASE t \in Unseen
    <3>1. Unseen \in SUBSET (1 .. Len(outbox))
      BY <1>0 DEF Unseen, Recent
    <3>2. t \notin Newest(Unseen, Surface)
      BY <2>3 DEF Surfaced
    <3>3. Cardinality({u \in Surfaced : u > t}) >= Surface
      BY <1>0, <2>4, <3>1, <3>2, NewestCrowdOut, Bounds DEF Surfaced
    <3> QED BY <1>2, <2>2, <2>3, <3>3
  <2>5. CASE t \notin Unseen
    <3>1. ~(t > Len(outbox) - Scan)
      BY <1>5, <2>2, <2>5 DEF Unseen, Recent
    <3> QED BY <1>0, <2>2, <3>1, Bounds
  <2> QED BY <2>4, <2>5
<1>6. t <= cursor \/ t > cursor
  BY <1>0
<1> QED BY <1>4, <1>5, <1>6

-----------------------------------------------------------------------------
(* The theorems.                                                           *)

OutboxInv ==
    /\ OutboxTypeOK /\ DrainInv /\ HarvestInv /\ OnceInv /\ OnlyCrowdedOut

\* What the three theorems below rest on is an invariant of the outbox.
THEOREM OutboxInvariant == Spec => []OutboxInv
<1>1. Init => OutboxInv
  <2> SUFFICES ASSUME Init PROVE OutboxInv
    OBVIOUS
  <2> USE DEF Init
  <2>1. Times = {} /\ Len(outbox) = 0
    BY DEF Times
  <2>2. OutboxTypeOK
    <3>1. /\ outbox \in Seq(Bubbles) /\ shown \in Seq(0 .. 2) /\ learnt \in Seq(0 .. 2)
          /\ Len(shown) = Len(outbox) /\ Len(learnt) = Len(outbox)
      OBVIOUS
    <3>2. /\ {cursor, watermark, mark} \subseteq 0 .. Len(outbox)
          /\ spoilt \in 0 .. MaxSpoils
      BY <2>1, Bounds
    <3>3. saved \in BOOLEAN
      OBVIOUS
    <3>4. at \in DOMAIN After \union
              {"idle", "drain", "intake", "work", "mark", "settle", "keeper"}
      OBVIOUS
    <3>5. (findings \union buried) \subseteq Times /\ todo \subseteq Projects
      OBVIOUS
    <3> QED BY <3>1, <3>2, <3>3, <3>4, <3>5 DEF OutboxTypeOK
  <2>3. DrainInv /\ HarvestInv /\ OnceInv /\ OnlyCrowdedOut
    BY <2>1 DEF DrainInv, HarvestInv, OnceInv, OnlyCrowdedOut, Harvesting
  <2> QED BY <2>2, <2>3 DEF OutboxInv
<1>2. OutboxInv /\ [Next]_vars => OutboxInv'
  BY OutboxStep, DrainStep, HarvestStep, OnceStep, CrowdedStep DEF OutboxInv
<1> QED BY <1>1, <1>2, PTL DEF Spec

\* A finding of a turn's end that the drain's cursor has passed reached the
\* agent, died with the hook that had read it, or was crowded out by as many
\* newer ones as a drain delivers or reads, with any hook killed at any step
\* and any position left unwritten: for any number of findings delivered and
\* of bubbles read back (intake_hook._drained_findings, bubble.recent).
THEOREM OutboxInOrderHolds == Spec => []OutboxInOrder
<1>1. OutboxInv => OutboxInOrder
  BY DEF OutboxInv, OutboxInOrder
<1> QED BY <1>1, OutboxInvariant, PTL

\* As long as no hook is killed and every position is written, a finding is
\* delivered at most once and given to a harvest at most once, however often
\* the keeper sends the agent back to work and wherever a harvest fails.
THEOREM AtMostOnceHolds == Spec => []AtMostOnce
<1>1. OutboxInv => AtMostOnce
  <2> SUFFICES ASSUME OutboxInv, spoilt = 0, NEW t \in Times
               PROVE  shown[t] <= 1 /\ learnt[t] <= 1
    BY DEF AtMostOnce
  <2>1. shown[t] \in 0 .. 2 /\ learnt[t] \in 0 .. 2
    BY TimesAre DEF OutboxInv
  <2> QED BY <2>1 DEF OutboxInv, OnceInv
<1> QED BY <1>1, OutboxInvariant, PTL

\* A flaw the watermark has passed was given to a harvest, or the harvest that
\* failed after it said so, or it was crowded out of what a harvest reads:
\* also with a hook killed between the mark, the harvest and the write of the
\* watermark (stop_hook.main, run_stage).
THEOREM NothingUnlearntInSilenceHolds == Spec => []NothingUnlearntInSilence
<1>1. OutboxInv => NothingUnlearntInSilence
  <2> SUFFICES ASSUME OutboxInv, NEW t \in 1 .. watermark, Missed(t)
               PROVE  Passed(t)
    BY DEF NothingUnlearntInSilence, Missed, Passed, Said
  <2>1. t \in Times /\ t <= watermark
    BY DEF OutboxInv, OutboxTypeOK, Times
  <2> QED BY <2>1 DEF OutboxInv, HarvestInv
<1> QED BY <1>1, OutboxInvariant, PTL

-----------------------------------------------------------------------------
(* Saturation: a growing step, iterated as often as there is room, ends in *)
(* the least set that holds the seed and is closed under the step.         *)

\* A set of numbers that holds 0 and each next one up to n holds them all.
LEMMA EachNext ==
    ASSUME NEW n \in Nat, NEW S, 0 \in S,
           \A k \in 0 .. n : k # n /\ k \in S => k + 1 \in S
    PROVE  \A k \in 0 .. n : k \in S
<1> DEFINE missing == {k \in 0 .. n : k \notin S}
<1>1. SUFFICES ASSUME missing # {} PROVE FALSE
  OBVIOUS
<1>2. missing \in SUBSET Nat
  OBVIOUS
<1>3. PICK m \in missing : \A y \in missing : m <= y
  <2> HIDE DEF missing
  <2> QED BY <1>1, <1>2, LeastOf
<1>4. m \in 0 .. n /\ m \notin S
  OBVIOUS
<1>5. m - 1 \in 0 .. n /\ m - 1 # n /\ (m - 1) + 1 = m /\ ~(m <= m - 1)
  BY <1>4
<1>6. m - 1 \in S
  BY <1>3, <1>5
<1> QED BY <1>4, <1>5, <1>6

\* The rounds of a saturation, as a function and as what each one is.
Rounds(room, step, seed, n) ==
    {g \in [0 .. n -> SUBSET room] :
        /\ g[0] = seed
        /\ \A k \in 1 .. n : g[k] = g[k - 1] \cup step[g[k - 1]]}

LEMMA RoundsExist ==
    ASSUME NEW room, NEW step \in [SUBSET room -> SUBSET room], NEW seed \in SUBSET room,
           NEW n \in Nat
    PROVE  Rounds(room, step, seed, n) # {}
<1> DEFINE done == {k \in Nat : Rounds(room, step, seed, k) # {}}
<1>1. 0 \in done
  <2> DEFINE g == [k \in 0 .. 0 |-> seed]
  <2>1. g \in [0 .. 0 -> SUBSET room] /\ g[0] = seed /\ 1 .. 0 = {}
    OBVIOUS
  <2>2. g \in Rounds(room, step, seed, 0)
    <3> HIDE DEF g
    <3> QED BY <2>1 DEF Rounds
  <2> QED BY <2>2
<1>2. ASSUME NEW k \in 0 .. n, k # n, k \in done
      PROVE  k + 1 \in done
  <2>1. PICK g \in Rounds(room, step, seed, k) : TRUE
    BY <1>2
  <2>2. g \in [0 .. k -> SUBSET room] /\ g[0] = seed
    BY DEF Rounds
  <2>3. \A j \in 1 .. k : g[j] = g[j - 1] \cup step[g[j - 1]]
    BY DEF Rounds
  <2> DEFINE h == [j \in 0 .. k + 1 |-> IF j = k + 1 THEN g[k] \cup step[g[k]] ELSE g[j]]
  <2>4. g[k] \in SUBSET room /\ step[g[k]] \in SUBSET room
    BY <2>2
  <2>5. h \in [0 .. k + 1 -> SUBSET room]
    <3>1. \A j \in 0 .. k + 1 : j # k + 1 => j \in 0 .. k
      OBVIOUS
    <3> QED BY <2>2, <2>4, <3>1
  <2>6. h[0] = seed
    <3>1. 0 \in 0 .. k + 1 /\ 0 # k + 1
      OBVIOUS
    <3> QED BY <2>2, <3>1
  <2>7. ASSUME NEW j \in 1 .. k + 1
        PROVE  h[j] = h[j - 1] \cup step[h[j - 1]]
    <3>1. j \in 0 .. k + 1 /\ j - 1 \in 0 .. k + 1 /\ j - 1 # k + 1
      OBVIOUS
    <3>2. h[j - 1] = g[j - 1]
      BY <3>1
    <3>3. CASE j = k + 1
      <4>1. h[j] = g[k] \cup step[g[k]] /\ j - 1 = k
        BY <3>1, <3>3
      <4> QED BY <3>2, <4>1
    <3>4. CASE j # k + 1
      <4>1. h[j] = g[j] /\ j \in 1 .. k
        BY <3>1, <3>4
      <4> QED BY <2>3, <3>2, <4>1
    <3> QED BY <3>3, <3>4
  <2>8. h \in Rounds(room, step, seed, k + 1)
    <3> HIDE DEF h
    <3> QED BY <2>5, <2>6, <2>7 DEF Rounds
  <2> QED BY <2>8
<1>3. \A k \in 0 .. n : k \in done
  <2> HIDE DEF done
  <2> QED BY <1>1, <1>2, EachNext
<1>4. n \in 0 .. n
  OBVIOUS
<1> QED BY <1>3, <1>4

LEMMA SaturateIs ==
    ASSUME NEW room, IsFiniteSet(room), NEW step \in [SUBSET room -> SUBSET room],
           NEW seed \in SUBSET room
    PROVE  \E g \in Rounds(room, step, seed, Cardinality(room)) :
               Saturate(room, step, seed) = g[Cardinality(room)]
<1> DEFINE n == Cardinality(room)
           Round(g) == g = [k \in 0 .. n |->
                               IF k = 0 THEN seed ELSE g[k - 1] \cup step[g[k - 1]]]
<1>1. n \in Nat
  BY FS_CardinalityType
<1>2. PICK f \in Rounds(room, step, seed, n) : TRUE
  BY <1>1, RoundsExist
<1>3. f \in [0 .. n -> SUBSET room] /\ f[0] = seed
  BY DEF Rounds
<1>4. \A k \in 1 .. n : f[k] = f[k - 1] \cup step[f[k - 1]]
  BY DEF Rounds
<1> HIDE DEF n
<1>5. Round(f)
  <2>1. \A k \in 0 .. n : k # 0 => k \in 1 .. n
    BY <1>1
  <2>2. \A k \in 0 .. n :
           f[k] = IF k = 0 THEN seed ELSE f[k - 1] \cup step[f[k - 1]]
    BY <1>3, <1>4, <2>1
  <2> QED BY <1>3, <2>2
<1> DEFINE g == CHOOSE g : Round(g)
<1>6. Round(g)
  BY <1>5
<1>7. Saturate(room, step, seed) = g[n]
  BY DEF Saturate, n
<1> HIDE DEF g
<1>8. g = f
  <2>1. DOMAIN g = 0 .. n /\ g = [k \in 0 .. n |-> g[k]]
    BY <1>6
  <2>2. g[0] = seed /\ \A k \in 1 .. n : g[k] = g[k - 1] \cup step[g[k - 1]]
    <3>1. \A k \in 1 .. n : k \in 0 .. n /\ k # 0
      BY <1>1
    <3>2. 0 \in 0 .. n
      BY <1>1
    <3>3. \A k \in 0 .. n : g[k] = IF k = 0 THEN seed ELSE g[k - 1] \cup step[g[k - 1]]
      BY <1>6
    <3> QED BY <3>1, <3>2, <3>3
  <2> DEFINE same == {k \in 0 .. n : g[k] = f[k]}
  <2>3. 0 \in same
    BY <1>1, <1>3, <2>2
  <2>4. ASSUME NEW k \in 0 .. n, k # n, k \in same PROVE k + 1 \in same
    <3>1. k + 1 \in 1 .. n /\ (k + 1) - 1 = k /\ k + 1 \in 0 .. n
      BY <1>1, <2>4
    <3> QED BY <1>4, <2>2, <2>4, <3>1
  <2>5. \A k \in 0 .. n : k \in same
    <3> HIDE DEF same
    <3> QED BY <1>1, <2>3, <2>4, EachNext
  <2> QED BY <1>3, <2>1, <2>5
<1> QED BY <1>2, <1>7, <1>8 DEF n

(* What a fixpoint of passdown and impact computes, without iteration: the *)
(* least set that holds the seed and is closed under the step.             *)
THEOREM SaturateLeast ==
    ASSUME NEW room, IsFiniteSet(room), NEW step \in [SUBSET room -> SUBSET room],
           NEW seed \in SUBSET room,
           \A A, B \in SUBSET room : A \subseteq B => step[A] \subseteq step[B]
    PROVE  /\ Saturate(room, step, seed) \in SUBSET room
           /\ seed \subseteq Saturate(room, step, seed)
           /\ step[Saturate(room, step, seed)] \subseteq Saturate(room, step, seed)
           /\ \A S \in SUBSET room : seed \subseteq S /\ step[S] \subseteq S
                  => Saturate(room, step, seed) \subseteq S
<1> DEFINE n == Cardinality(room)
<1>1. n \in Nat
  BY FS_CardinalityType
<1>2. PICK g \in Rounds(room, step, seed, n) : Saturate(room, step, seed) = g[n]
  BY SaturateIs
<1>3. g \in [0 .. n -> SUBSET room] /\ g[0] = seed
  BY DEF Rounds
<1>4. \A k \in 1 .. n : g[k] = g[k - 1] \cup step[g[k - 1]]
  BY DEF Rounds
<1>5. n = Cardinality(room)
  OBVIOUS
<1> HIDE DEF n
<1>6. ASSUME NEW k \in 0 .. n, k # n
      PROVE  k + 1 \in 0 .. n /\ g[k + 1] = g[k] \cup step[g[k]]
  <2>1. k + 1 \in 1 .. n /\ (k + 1) - 1 = k /\ k + 1 \in 0 .. n
    BY <1>1, <1>6
  <2>2. g[k + 1] = g[(k + 1) - 1] \cup step[g[(k + 1) - 1]]
    BY <1>4, <2>1
  <2> QED BY <2>1, <2>2
<1>7. 0 \in 0 .. n /\ n \in 0 .. n
  BY <1>1
<1>8. \A k \in 0 .. n : seed \subseteq g[k]
  <2> DEFINE good == {k \in 0 .. n : seed \subseteq g[k]}
  <2>1. 0 \in good
    BY <1>3, <1>7
  <2>2. ASSUME NEW k \in 0 .. n, k # n, k \in good PROVE k + 1 \in good
    BY <1>6, <2>2
  <2>3. \A k \in 0 .. n : k \in good
    <3> HIDE DEF good
    <3> QED BY <1>1, <2>1, <2>2, EachNext
  <2> QED BY <2>3
<1>9. ASSUME NEW S \in SUBSET room, seed \subseteq S, step[S] \subseteq S
      PROVE  \A k \in 0 .. n : g[k] \subseteq S
  <2> DEFINE good == {k \in 0 .. n : g[k] \subseteq S}
  <2>1. 0 \in good
    BY <1>3, <1>7, <1>9
  <2>2. ASSUME NEW k \in 0 .. n, k # n, k \in good PROVE k + 1 \in good
    <3>1. g[k] \in SUBSET room
      BY <1>3
    <3>2. step[g[k]] \subseteq step[S]
      BY <2>2, <3>1
    <3> QED BY <1>6, <1>9, <2>2, <3>2
  <2>3. \A k \in 0 .. n : k \in good
    <3> HIDE DEF good
    <3> QED BY <1>1, <2>1, <2>2, EachNext
  <2> QED BY <2>3
<1>10. \A k \in 0 .. n : step[g[k]] \subseteq g[k] \/ Cardinality(g[k]) >= k
  <2> DEFINE good == {k \in 0 .. n : step[g[k]] \subseteq g[k] \/ Cardinality(g[k]) >= k}
  <2>0. \A k \in 0 .. n : IsFiniteSet(g[k]) /\ Cardinality(g[k]) \in Nat
    BY <1>3, FS_Subset, FS_CardinalityType
  <2>1. 0 \in good
    BY <1>7, <2>0
  <2>2. ASSUME NEW k \in 0 .. n, k # n, k \in good PROVE k + 1 \in good
    <3>1. k + 1 \in 0 .. n /\ g[k + 1] = g[k] \cup step[g[k]]
      BY <1>6, <2>2
    <3>2. CASE step[g[k]] \subseteq g[k]
      <4>1. g[k + 1] = g[k]
        BY <3>1, <3>2
      <4>2. step[g[k + 1]] \subseteq g[k + 1]
        BY <3>2, <4>1
      <4> QED BY <3>1, <4>2
    <3>3. CASE ~(step[g[k]] \subseteq g[k])
      <4>1. Cardinality(g[k]) >= k
        BY <2>2, <3>3
      <4>2. PICK y \in step[g[k]] : y \notin g[k]
        BY <3>3
      <4>3. Cardinality(g[k] \cup {y}) = Cardinality(g[k]) + 1 /\ IsFiniteSet(g[k] \cup {y})
        BY <2>0, <4>2, FS_AddElement
      <4>4. g[k] \cup {y} \subseteq g[k + 1] /\ IsFiniteSet(g[k + 1])
        BY <2>0, <3>1, <4>2
      <4>5. Cardinality(g[k] \cup {y}) <= Cardinality(g[k + 1])
        BY <4>4, FS_Subset
      <4>6. Cardinality(g[k + 1]) >= k + 1
        <5>1. Cardinality(g[k]) \in Nat /\ k \in Nat
          BY <2>0
        <5>2. Cardinality(g[k + 1]) \in Nat
          BY <4>4, FS_CardinalityType
        <5> QED BY <4>1, <4>3, <4>5, <5>1, <5>2
      <4> QED BY <3>1, <4>6
    <3> QED BY <3>2, <3>3
  <2>3. \A k \in 0 .. n : k \in good
    <3> HIDE DEF good
    <3> QED BY <1>1, <2>1, <2>2, EachNext
  <2> QED BY <2>3
<1>11. step[g[n]] \subseteq g[n]
  <2>1. g[n] \in SUBSET room
    BY <1>3, <1>7
  <2>2. step[g[n]] \in SUBSET room
    BY <2>1
  <2>3. CASE Cardinality(g[n]) >= n
    <3>1. Cardinality(g[n]) <= Cardinality(room) /\ Cardinality(g[n]) \in Nat
      BY <2>1, FS_Subset, FS_CardinalityType
    <3>2. Cardinality(g[n]) = Cardinality(room)
      BY <1>1, <1>5, <2>3, <3>1
    <3>3. g[n] = room
      BY <2>1, <3>2, FS_Subset
    <3> QED BY <2>2, <3>3
  <2> QED BY <1>7, <1>10, <2>3
<1> QED BY <1>2, <1>3, <1>7, <1>8, <1>9, <1>11

-----------------------------------------------------------------------------
(* The value gate.                                                         *)

LEMMA NodesFinite ==
    ASSUME NEW C, IsFiniteSet(C)
    PROVE  IsFiniteSet(Defs(C)) /\ IsFiniteSet(Nodes(C))
<1>1. IsFiniteSet(Of(C, "def"))
  BY FS_Subset DEF Of
<1>2. IsFiniteSet(Defs(C))
  <2> DEFINE image == [x \in Of(C, "def") |-> x.in]
  <2>1. Defs(C) = {image[x] : x \in Of(C, "def")}
    BY DEF Defs
  <2>2. image \in Surjection(Of(C, "def"), Defs(C))
    BY <2>1 DEF Surjection
  <2> QED BY <1>1, <2>2, FS_Surjection
<1>3. IsFiniteSet({"in", "out"})
  <2>1. IsFiniteSet({"in"} \cup {"out"})
    BY FS_Singleton, FS_AddElement
  <2>2. {"in"} \cup {"out"} = {"in", "out"}
    OBVIOUS
  <2> QED BY <2>1, <2>2
<1> QED BY <1>2, <1>3, FS_Product DEF Nodes

\* A fact that says nothing of a polarity, in any surroundings.
Mute(x, pol) == x.a[1] \notin {pol, "RB", "param", "call"}

LEMMA FlowOf ==
    ASSUME NEW C, NEW D, NEW pol, Defs(C) = Defs(D),
           \A x \in C : x.k \in {"call", "return"} => x \in D \/ Mute(x, pol),
           NEW A, NEW B, A \subseteq B
    PROVE  Flow(C, pol, A) \subseteq Flow(D, pol, B)
<1>1. \A f : DefinedAs(C, f) = DefinedAs(D, f) /\ (Sole(C, f) <=> Sole(D, f))
  BY DEF DefinedAs, Sole
<1>2. ASSUME NEW x \in C, x.k \in {"call", "return"}, AtomIs(C, x, pol, A)
      PROVE  x \in D /\ AtomIs(D, x, pol, B)
  <2>1. x \in D
    BY <1>2 DEF AtomIs, Shows, Mute
  <2> QED BY <1>1, <1>2, <2>1 DEF AtomIs
<1>3. \A x \in Of(C, "call") : AtomIs(C, x, pol, A)
          => x \in Of(D, "call") /\ AtomIs(D, x, pol, B)
  BY <1>2 DEF Of
<1>4. \A x \in Of(C, "return") : AtomIs(C, x, pol, A)
          => x \in Of(D, "return") /\ AtomIs(D, x, pol, B)
  BY <1>2 DEF Of
<1> QED BY <1>1, <1>3, <1>4 DEF Flow

LEMMA ReachedIs ==
    ASSUME NEW C, IsFiniteSet(C), NEW pol
    PROVE  /\ Reached(C, pol) \in SUBSET Nodes(C)
           /\ Flow(C, pol, Reached(C, pol)) \subseteq Reached(C, pol)
           /\ \A S \in SUBSET Nodes(C) : Flow(C, pol, S) \subseteq S => Reached(C, pol) \subseteq S
<1> DEFINE step == [reached \in SUBSET Nodes(C) |-> Flow(C, pol, reached)]
<1>1. \A S : Flow(C, pol, S) \in SUBSET Nodes(C)
  BY DEF Flow, Nodes
<1>2. step \in [SUBSET Nodes(C) -> SUBSET Nodes(C)]
  BY <1>1
<1>3. \A A, B \in SUBSET Nodes(C) : A \subseteq B => step[A] \subseteq step[B]
  BY FlowOf
<1>4. IsFiniteSet(Nodes(C))
  BY NodesFinite
<1>5. Reached(C, pol) = Saturate(Nodes(C), step, {})
  BY DEF Reached
<1>6. \A S \in SUBSET Nodes(C) : step[S] = Flow(C, pol, S)
  OBVIOUS
<1> HIDE DEF step
<1>7. /\ Reached(C, pol) \in SUBSET Nodes(C)
      /\ step[Reached(C, pol)] \subseteq Reached(C, pol)
      /\ \A S \in SUBSET Nodes(C) : step[S] \subseteq S => Reached(C, pol) \subseteq S
  BY <1>2, <1>3, <1>4, <1>5, SaturateLeast
<1> QED BY <1>6, <1>7

LEMMA ReachedOf ==
    ASSUME NEW C, IsFiniteSet(C), NEW D, IsFiniteSet(D), NEW pol, Defs(C) = Defs(D),
           \A x \in C : x.k \in {"call", "return"} => x \in D \/ Mute(x, pol)
    PROVE  Reached(C, pol) \subseteq Reached(D, pol)
<1>1. Nodes(C) = Nodes(D)
  BY DEF Nodes
<1>2. Reached(D, pol) \in SUBSET Nodes(C) /\ Flow(D, pol, Reached(D, pol)) \subseteq Reached(D, pol)
  BY <1>1, ReachedIs
<1>3. Flow(C, pol, Reached(D, pol)) \subseteq Flow(D, pol, Reached(D, pol))
  BY FlowOf
<1> QED BY <1>2, <1>3, ReachedIs

\* What is reached as a parameter has the one definition of its name.
LEMMA ReachedSole ==
    ASSUME NEW C, IsFiniteSet(C), NEW pol
    PROVE  \A n \in Reached(C, pol) : n[1] = "in" => Sole(C, Fn(n[2]))
<1> DEFINE S == {n \in Nodes(C) : n[1] = "in" => Sole(C, Fn(n[2]))}
<1>1. \A A : Flow(C, pol, A) \subseteq S
  BY DEF Flow, Nodes
<1>2. S \in SUBSET Nodes(C)
  OBVIOUS
<1>3. Reached(C, pol) \subseteq S
  <2> HIDE DEF S
  <2> QED BY <1>1, <1>2, ReachedIs
<1> QED BY <1>3

LEMMA LeastIs ==
    ASSUME IsFiniteSet(code), NEW pol
    PROVE  Least(pol) = Reached(code, pol)
BY ReachedIs DEF Least

\* Where code D has the definitions and the reads of C, at most its resolved
\* values and at least its base values, it has at least its gaps.
LEMMA GapsOfMore ==
    ASSUME NEW C, NEW D, Defs(C) = Defs(D),
           Reached(D, "R") \subseteq Reached(C, "R"),
           Reached(C, "B") \subseteq Reached(D, "B"),
           \A x \in Of(C, "read") : \E y \in Of(D, "read") : y.in = x.in /\ y.to = x.to,
           \A y \in D : y.k \in {"call", "return"} =>
               \E z \in C : /\ z.k = y.k /\ z.in = y.in /\ z.to = y.to
                            /\ z.a = y.a \/ y.a[1] \notin {"R", "RB", "call"}
    PROVE  ValueGaps(C) \subseteq ValueGaps(D)
<1> DEFINE rc == Reached(C, "R")
           bc == Reached(C, "B")
           rd == Reached(D, "R")
           bd == Reached(D, "B")
<1>1. rd \ bd \subseteq rc \ bc
  OBVIOUS
<1>2. \A f : DefinedAs(C, f) = DefinedAs(D, f) /\ (Sole(C, f) <=> Sole(D, f))
  BY DEF DefinedAs, Sole
<1>3. WrappersOf(D, rd, bd) \subseteq WrappersOf(C, rc, bc)
  BY <1>1, <1>2 DEF WrappersOf
<1>4. PassedDown(rd, bd) \subseteq PassedDown(rc, bc)
  BY <1>1 DEF PassedDown
<1>5. BaseReachable(bc) \subseteq BaseReachable(bd)
  BY DEF BaseReachable
<1>6. \A y \in Of(D, "call") : \E z \in Of(C, "call") :
          z.in = y.in /\ z.to = y.to /\ (z.a = y.a \/ y.a[1] \notin {"R", "RB", "call"})
  BY DEF Of
<1>7. \A y \in Of(D, "return") : \E z \in Of(C, "return") :
          z.in = y.in /\ z.to = y.to /\ (z.a = y.a \/ y.a[1] \notin {"R", "RB", "call"})
  BY DEF Of
<1>8. HandedOn(D) \subseteq HandedOn(C)
  BY <1>6 DEF HandedOn, Shows
<1>9. ASSUME NEW v, NEW w, v \subseteq w
      PROVE  Resolving(D, v) \subseteq Resolving(C, w)
  BY <1>6, <1>7, <1>9 DEF Resolving, Shows
<1>10. ArgCovered(D, rd, bd) \subseteq ArgCovered(C, rc, bc)
  BY <1>4, <1>5, <1>8 DEF ArgCovered
<1>11. Resolving(D, WrappersOf(D, rd, bd)) \subseteq Resolving(C, WrappersOf(C, rc, bc))
  BY <1>3, <1>9
<1> QED BY <1>10, <1>11 DEF ValueGaps

LEMMA BaseNeverClearedIs ==
    ASSUME IsFiniteSet(code)
    PROVE  BaseNeverCleared
<1> DEFINE r == Reached(code, "R")
           b == Reached(code, "B")
           wrappers == WrappersOf(code, r, b)
<1>1. Least("R") = r /\ Least("B") = b
  BY LeastIs
<1>2. ASSUME NEW d, d \in Resolving(code, wrappers)
      PROVE  Resolves(d, r, b)
  <2> DEFINE pure == {Fn(n[2]) : n \in {k \in r \ b : k[1] = "out"}}
  <2>1. ASSUME NEW f \in wrappers
        PROVE  f \in pure /\ Sole(code, f)
    <3>1. PICK e \in DefinedAs(code, f) : <<"out", e>> \in r \ b
      BY DEF WrappersOf
    <3>2. Fn(e) = f /\ <<"out", e>>[1] = "out" /\ <<"out", e>>[2] = e
      BY DEF DefinedAs
    <3>3. Sole(code, f)
      BY DEF WrappersOf
    <3> QED BY <3>1, <3>2, <3>3
  <2>2. PICK x \in Of(code, "call") \cup Of(code, "return") :
            /\ x.in = d
            /\ x.to \in Resolvers \cup wrappers \/ Shows(x.a, "R") \/ x.a[2] \in wrappers
    BY <1>2 DEF Resolving
  <2> HIDE DEF pure, wrappers
  <2>3. x.to \in Resolvers \/ Shows(x.a, "R") \/ {x.to, x.a[2]} \cap {f \in pure : Sole(code, f)} # {}
    BY <2>1, <2>2
  <2> QED BY <2>2, <2>3 DEF Resolves, pure
<1>3. ASSUME NEW x \in Named(code, "read", Field), Fn(x.in) \notin Resolvers \cup Producers,
             <<"in", x.in>> \in b, ~Resolves(x.in, r, b)
      PROVE  x.in \in ValueGaps(code)
  <2>1. x.in \notin Resolving(code, wrappers)
    BY <1>2, <1>3
  <2>2. Fn(x.in) \in BaseReachable(b)
    BY <1>3 DEF BaseReachable
  <2>3. Fn(x.in) \notin ArgCovered(code, r, b)
    BY <2>2 DEF ArgCovered
  <2>4. x \in Of(code, "read") /\ x.to = Field
    BY DEF Named
  <2> QED BY <1>3, <2>1, <2>3, <2>4 DEF ValueGaps
<1>4. ASSUME NEW x \in Named(code, "read", Field), Fn(x.in) \notin Resolvers \cup Producers,
             x.in \in Defs(code) \ ValueGaps(code)
      PROVE  \/ Resolves(x.in, r, b) \/ <<"in", x.in>> \in r
             \/ \E c \in Of(code, "call") : c.to = Fn(x.in) /\ Shows(c.a, "R")
  <2>1. x \in Of(code, "read") /\ x.to = Field
    BY DEF Named
  <2>2. x.in \in Resolving(code, wrappers) \/ Fn(x.in) \in ArgCovered(code, r, b)
    BY <1>4, <2>1 DEF ValueGaps
  <2>3. CASE Fn(x.in) \in HandedOn(code)
    BY <2>3 DEF HandedOn
  <2>4. CASE Fn(x.in) \in PassedDown(r, b)
    <3>1. PICK n \in r : n[1] = "in" /\ Fn(n[2]) = Fn(x.in)
      BY <2>4 DEF PassedDown
    <3>2. Sole(code, Fn(x.in)) /\ n \in Nodes(code)
      BY <3>1, ReachedSole, ReachedIs
    <3>3. n = <<"in", n[2]>> /\ n[2] \in Defs(code)
      BY <3>1, <3>2 DEF Nodes
    <3>4. {n[2], x.in} \subseteq DefinedAs(code, Fn(x.in))
      BY <1>4, <3>1, <3>3 DEF DefinedAs
    <3>5. n[2] = x.in
      <4>1. IsFiniteSet(DefinedAs(code, Fn(x.in)))
        BY NodesFinite, FS_Subset DEF DefinedAs
      <4>2. PICK e : DefinedAs(code, Fn(x.in)) = {e}
        BY <3>2, <4>1, FS_Singleton DEF Sole
      <4> QED BY <3>4, <4>2
    <3> QED BY <3>1, <3>3, <3>5
  <2> QED BY <1>2, <2>2, <2>3, <2>4 DEF ArgCovered
<1> HIDE DEF r, b
<1> QED BY <1>1, <1>3, <1>4 DEF BaseNeverCleared

-----------------------------------------------------------------------------
(* The congruence gate.                                                    *)

LEMMA NamesFinite ==
    ASSUME NEW C, IsFiniteSet(C), NEW m
    PROVE  IsFiniteSet(NamesIn(C, m))
<1> DEFINE mine == {e \in Defs(C) : e[1] = m}
           image == [e \in mine |-> Fn(e)]
<1>1. IsFiniteSet(mine)
  BY NodesFinite, FS_Subset
<1>2. NamesIn(C, m) = {image[e] : e \in mine}
  BY DEF NamesIn
<1>3. image \in Surjection(mine, NamesIn(C, m))
  BY <1>2 DEF Surjection
<1> QED BY <1>1, <1>3, FS_Surjection

LEMMA HelpersAre ==
    ASSUME NEW C, IsFiniteSet(C), NEW m, NEW f, NEW public
    PROVE  /\ f \in Helpers(C, m, f, public)
           /\ Helpers(C, m, f, public) \subseteq {f} \cup NamesIn(C, m)
           /\ public = TRUE =>
                UNION {Callees(C, m, h) : h \in Helpers(C, m, f, public)}
                    \subseteq Helpers(C, m, f, public)
<1> DEFINE room == {f} \cup NamesIn(C, m)
           called(fs) == {g \in UNION {Callees(C, m, h) : h \in fs} : g \in Private \/ public}
           step == [fs \in SUBSET room |-> called(fs)]
<1>1. \A fs : called(fs) \in SUBSET room
  BY DEF Callees
<1>2. step \in [SUBSET room -> SUBSET room]
  BY <1>1
<1>3. \A A, B \in SUBSET room : A \subseteq B => step[A] \subseteq step[B]
  OBVIOUS
<1>4. IsFiniteSet(room) /\ {f} \in SUBSET room
  BY NamesFinite, FS_Singleton, FS_Union
<1>5. Helpers(C, m, f, public) = Saturate(room, step, {f})
  BY DEF Helpers
<1>6. \A fs \in SUBSET room : step[fs] = called(fs)
  OBVIOUS
<1> HIDE DEF step
<1> DEFINE H == Helpers(C, m, f, public)
           seed == {f}
<1>7. H \in SUBSET room /\ seed \subseteq H /\ step[H] \subseteq H
  <2>1. seed \in SUBSET room /\ H = Saturate(room, step, seed)
    BY <1>4, <1>5
  <2> HIDE DEF room, seed, H
  <2> QED BY <1>2, <1>3, <1>4, <2>1, SaturateLeast
<1>8. public = TRUE => \A fs : called(fs) = UNION {Callees(C, m, h) : h \in fs}
  OBVIOUS
<1> QED BY <1>6, <1>7, <1>8

LEMMA OwnWrites ==
    ASSUME NEW C, IsFiniteSet(C), NEW m, NEW f, NEW public
    PROVE  Writes(C, m, {f}) \subseteq EffectiveWrites(C, m, f, public)
BY HelpersAre DEF Writes, EffectiveWrites

\* A function that may become a check belongs to an innocent set.
LEMMA PromotableIsInnocent ==
    ASSUME IsFiniteSet(code), NEW m, NEW f \in NamesIn(code, m),
           Promotable(code, m, f, Replicated(code, m))
    PROVE  f \in Innocent(m)
<1> DEFINE H == Helpers(code, m, f, TRUE)
<1>1. H \in SUBSET NamesIn(code, m) /\ f \in H
  BY HelpersAre
<1>2. UNION {Callees(code, m, h) : h \in H} \subseteq H
  BY HelpersAre
<1>3. Writes(code, m, H) \cap Replicated(code, m) = {}
  BY DEF Promotable, EffectiveWrites
<1> HIDE DEF H
<1> QED BY <1>1, <1>2, <1>3 DEF Innocent

LEMMA ChecksAreLeast ==
    ASSUME IsFiniteSet(code), NEW m
    PROVE  Checks(code, m) \subseteq LeastChecks(m)
<1> DEFINE rep == Replicated(code, m)
           innocent == {f \in NamesIn(code, m) : Promotable(code, m, f, rep)}
           given == Guards \cup Idioms
           room == Guards \cup Idioms \cup NamesIn(code, m)
           step == [tokens \in SUBSET room |-> CallersIn(code, m, tokens) \cap innocent]
           closed == {S \in SUBSET NamesIn(code, m) :
                          CallersIn(code, m, S \cup given) \cap Innocent(m) \subseteq S}
           least == LeastChecks(m)
<1>1. \A tokens : CallersIn(code, m, tokens) \in SUBSET NamesIn(code, m)
  BY DEF CallersIn
<1>2. step \in [SUBSET room -> SUBSET room]
  BY <1>1
<1>3. \A A, B : A \subseteq B => CallersIn(code, m, A) \subseteq CallersIn(code, m, B)
  BY DEF CallersIn
<1>4. \A A, B \in SUBSET room : A \subseteq B => step[A] \subseteq step[B]
  BY <1>3
<1>5. IsFiniteSet(room) /\ given \in SUBSET room
  BY NamesFinite, CodeAssumption, FS_Union DEF CodeAssumption
<1>6. Checks(code, m) = Saturate(room, step, given)
  BY DEF Checks
<1>7. innocent \subseteq Innocent(m)
  BY PromotableIsInnocent
<1>8. least = given \cup {f \in NamesIn(code, m) : \A S \in closed : f \in S}
  BY DEF LeastChecks
<1> HIDE DEF least
<1>9. least \in SUBSET room /\ given \subseteq least
  BY <1>8
<1>10. step[least] \subseteq least
  <2> SUFFICES ASSUME NEW f \in step[least] PROVE f \in least
    OBVIOUS
  <2>1. f \in CallersIn(code, m, least) /\ f \in innocent
    BY <1>9
  <2>2. f \in Innocent(m) /\ f \in NamesIn(code, m)
    BY <1>7, <2>1
  <2>3. ASSUME NEW S \in closed PROVE f \in S
    <3>1. least \subseteq S \cup given
      BY <1>8
    <3>2. f \in CallersIn(code, m, S \cup given)
      BY <1>3, <2>1, <3>1
    <3> QED BY <2>2, <3>2
  <2> HIDE DEF closed
  <2> QED BY <1>8, <2>2, <2>3
<1> HIDE DEF step, room, given
<1>11. Saturate(room, step, given) \subseteq least
  BY <1>2, <1>4, <1>5, <1>9, <1>10, SaturateLeast
<1> QED BY <1>6, <1>11 DEF least

LEMMA NoMirrorGapMaskedIs ==
    ASSUME IsFiniteSet(code)
    PROVE  NoMirrorGapMasked
<1> SUFFICES
      ASSUME NEW m \in ServicesOf(code),
             NEW f \in NamesIn(code, m) \ ({MirrorApply} \cup Exempt \cup Private),
             Writes(code, m, {f}) \cap Replicated(code, m) # {},
             RawClients(code, m, f) # {},
             ~(Routed(code, f) /\ f \in CallersIn(code, m, LeastChecks(m)))
      PROVE  <<m, f>> \in CongruenceGaps(code)
  BY DEF NoMirrorGapMasked
<1>1. Gated(code, m) \subseteq CallersIn(code, m, LeastChecks(m))
  BY ChecksAreLeast DEF Gated, CallersIn
<1>2. EffectiveWrites(code, m, f, TRUE) \cap Replicated(code, m) # {}
  BY OwnWrites
<1>3. f \in Mutators(code, m, Gated(code, m))
  BY <1>2 DEF Mutators
<1>4. ~(f \in Gated(code, m) /\ Routed(code, f))
  BY <1>1
<1> QED BY <1>3, <1>4 DEF CongruenceGaps

\* Where code D differs from C only by calls and returns made outside the
\* services, the services look the same; with more raw client calls and no
\* more routes, D has at least the gaps of C.
LEMMA ServicesOfMore ==
    ASSUME NEW C, NEW D, Defs(C) = Defs(D),
           Of(C, "write") = Of(D, "write"), Of(C, "rpc") = Of(D, "rpc"),
           C \subseteq D,
           \A x \in D \ C : x.in[1] \notin ServicesOf(C) /\ ~IsRpc(C, x.in)
    PROVE  CongruenceGaps(C) \subseteq CongruenceGaps(D)
<1>1. \A f : DefinedAs(C, f) = DefinedAs(D, f)
  BY DEF DefinedAs
<1>2. ServicesOf(C) = ServicesOf(D) /\ \A m : NamesIn(C, m) = NamesIn(D, m)
  BY <1>1 DEF ServicesOf, NamesIn
<1>3. \A d : IsRpc(C, d) <=> IsRpc(D, d)
  BY DEF IsRpc
<1>4. \A f : CallersOf(C, f) \subseteq CallersOf(D, f)
  BY DEF CallersOf, Of
<1>5. \A f : Routed(C, f) <=> Routed(D, f)
  <2>1. ASSUME NEW f, Routed(D, f) PROVE Routed(C, f)
    <3>1. PICK x \in CallersOf(D, f) : IsRpc(D, x.in)
      BY <2>1 DEF Routed
    <3>2. x \in D
      BY DEF CallersOf, Of
    <3>3. x \in C
      BY <1>3, <3>1, <3>2
    <3>4. x \in CallersOf(C, f)
      BY <3>1, <3>3 DEF CallersOf, Of
    <3> QED BY <1>3, <3>1, <3>4 DEF Routed
  <2> QED BY <1>3, <1>4, <2>1 DEF Routed
<1>6. ASSUME NEW m \in ServicesOf(C)
      PROVE  \A f : {y \in Of(C, "call") : y.in = <<m, f>>} = {y \in Of(D, "call") : y.in = <<m, f>>}
  BY DEF Of
<1>7. ASSUME NEW m \in ServicesOf(C)
      PROVE  /\ Gated(C, m) = Gated(D, m)
             /\ \A gated : Mutators(C, m, gated) = Mutators(D, m, gated)
  <2>1. \A f : Callees(C, m, f) = Callees(D, m, f)
    BY <1>2, <1>6 DEF Callees
  <2>2. \A fs : Writes(C, m, fs) = Writes(D, m, fs)
    BY DEF Writes
  <2>3. \A f, public : Helpers(C, m, f, public) = Helpers(D, m, f, public)
    <3> TAKE f, public
    <3> DEFINE room == {f} \cup NamesIn(C, m)
               inC(fs) == {g \in UNION {Callees(C, m, h) : h \in fs} : g \in Private \/ public}
               inD(fs) == {g \in UNION {Callees(D, m, h) : h \in fs} : g \in Private \/ public}
    <3>1. \A fs : {Callees(C, m, h) : h \in fs} = {Callees(D, m, h) : h \in fs}
      BY <2>1
    <3>2. \A fs : inC(fs) = inD(fs)
      BY <3>1
    <3>3. [fs \in SUBSET room |-> inC(fs)] = [fs \in SUBSET room |-> inD(fs)]
      <4> HIDE DEF inC, inD
      <4> QED BY <3>2
    <3>4. Helpers(C, m, f, public) = Saturate(room, [fs \in SUBSET room |-> inC(fs)], {f})
      BY DEF Helpers
    <3>5. Helpers(D, m, f, public) = Saturate(room, [fs \in SUBSET room |-> inD(fs)], {f})
      BY <1>2 DEF Helpers
    <3> QED BY <3>3, <3>4, <3>5
  <2>4. \A f, public : EffectiveWrites(C, m, f, public) = EffectiveWrites(D, m, f, public)
    BY <2>2, <2>3 DEF EffectiveWrites
  <2>5. Replicated(C, m) = Replicated(D, m)
    BY <2>4 DEF Replicated
  <2>6. \A tokens : CallersIn(C, m, tokens) = CallersIn(D, m, tokens)
    <3>1. \A f, tokens : (\E x \in Of(C, "call") : x.in = <<m, f>> /\ x.to \in tokens)
                     <=> (\E x \in Of(D, "call") : x.in = <<m, f>> /\ x.to \in tokens)
      BY <1>6
    <3> QED BY <1>2, <3>1 DEF CallersIn
  <2>7. \A f, rep : Promotable(C, m, f, rep) <=> Promotable(D, m, f, rep)
    BY <2>4 DEF Promotable
  <2>8. Checks(C, m) = Checks(D, m)
    <3> DEFINE room == Guards \cup Idioms \cup NamesIn(C, m)
               innocentC == {f \in NamesIn(C, m) : Promotable(C, m, f, Replicated(C, m))}
               roomD == Guards \cup Idioms \cup NamesIn(D, m)
               innocentD == {f \in NamesIn(D, m) : Promotable(D, m, f, Replicated(D, m))}
    <3>1. innocentC = innocentD /\ room = roomD
      BY <1>2, <2>5, <2>7
    <3>2. [tokens \in SUBSET room |-> CallersIn(C, m, tokens) \cap innocentC]
          = [tokens \in SUBSET roomD |-> CallersIn(D, m, tokens) \cap innocentD]
      <4> HIDE DEF innocentC, innocentD, room, roomD
      <4> QED BY <2>6, <3>1
    <3>3. Checks(C, m) = Saturate(room, [tokens \in SUBSET room |->
                             CallersIn(C, m, tokens) \cap innocentC], Guards \cup Idioms)
      BY DEF Checks
    <3>4. Checks(D, m) = Saturate(roomD, [tokens \in SUBSET roomD |->
                             CallersIn(D, m, tokens) \cap innocentD], Guards \cup Idioms)
      BY DEF Checks
    <3> HIDE DEF innocentC, innocentD, room, roomD
    <3> QED BY <3>1, <3>2, <3>3, <3>4
  <2>9. Gated(C, m) = Gated(D, m)
    BY <2>6, <2>8 DEF Gated
  <2>10. \A gated : Mutators(C, m, gated) = Mutators(D, m, gated)
    <3> TAKE gated
    <3> DEFINE public == NamesIn(C, m) \ ({MirrorApply} \cup Exempt \cup Private)
               writesC(f) == IF f \in gated
                             THEN EffectiveWrites(C, m, f, TRUE) \cap Replicated(C, m) # {}
                             ELSE Writes(C, m, {f}) \cap Replicated(C, m) # {}
               writesD(f) == IF f \in gated
                             THEN EffectiveWrites(D, m, f, TRUE) \cap Replicated(D, m) # {}
                             ELSE Writes(D, m, {f}) \cap Replicated(D, m) # {}
    <3>1. \A f : writesC(f) <=> writesD(f)
      <4>1. \A f : EffectiveWrites(C, m, f, TRUE) = EffectiveWrites(D, m, f, TRUE)
        BY <2>4
      <4>2. \A f : Writes(C, m, {f}) = Writes(D, m, {f})
        BY <2>2
      <4> QED BY <2>5, <4>1, <4>2
    <3>2. Mutators(C, m, gated) = {f \in public : writesC(f)}
      BY DEF Mutators
    <3>3. Mutators(D, m, gated) = {f \in public : writesD(f)}
      BY <1>2 DEF Mutators
    <3> HIDE DEF writesC, writesD, public
    <3> QED BY <3>1, <3>2, <3>3
  <2> QED BY <2>9, <2>10
<1>8. \A m, f : RawClients(C, m, f) \subseteq RawClients(D, m, f)
  BY <1>3, <1>4 DEF RawClients
<1> QED BY <1>2, <1>5, <1>7, <1>8 DEF CongruenceGaps

-----------------------------------------------------------------------------
(* The code base under edit.                                               *)

\* All the gate rests on: the code is a finite set of facts, and edits are of facts.
CodeInv ==
    /\ IsFiniteSet(code)
    /\ \A x \in code \cup pool : IsFact(x)

LEMMA CodeInvariant == CodeSpec => []CodeInv
<1>1. CodeInit => CodeInv
  BY CodeAssumption DEF CodeInit, CodeInv, CodeAssumption
<1>2. CodeInv /\ [CodeNext]_codeVars => CodeInv'
  <2> SUFFICES ASSUME CodeInv, [CodeNext]_codeVars PROVE CodeInv'
    OBVIOUS
  <2>1. CASE CodeNext
    <3>1. PICK x \in pool : Add(x) \/ Drop(x)
      BY <2>1 DEF CodeNext
    <3>2. pool' = pool /\ code' \subseteq code \cup {x}
      BY <3>1 DEF Add, Drop
    <3>3. IsFiniteSet(code \cup {x})
      BY FS_AddElement DEF CodeInv
    <3>4. IsFiniteSet(code')
      BY <3>2, <3>3, FS_Subset
    <3> QED BY <3>2, <3>4 DEF CodeInv
  <2>2. CASE UNCHANGED codeVars
    BY <2>2 DEF codeVars, CodeInv
  <2> QED BY <2>1, <2>2
<1> QED BY <1>1, <1>2, PTL DEF CodeSpec

\* A fact with its value taken away.
Plain(x) == [x EXCEPT !.a = <<"none", "">>]

LEMMA PlainIs ==
    ASSUME NEW x, IsFact(x)
    PROVE  /\ Plain(x).k = x.k /\ Plain(x).in = x.in /\ Plain(x).to = x.to
           /\ Plain(x).a[1] = "none"
<1> DEFINE none == <<"none", "">>
<1>1. none[1] = "none"
  OBVIOUS
<1>2. Plain(x) = [x EXCEPT !.a = none]
  BY DEF Plain
<1> HIDE DEF none
<1>3. x = [k |-> x.k, in |-> x.in, to |-> x.to, a |-> x.a]
  BY DEF IsFact
<1>4. Plain(x) = [k |-> x.k, in |-> x.in, to |-> x.to, a |-> none]
  BY <1>2, <1>3
<1> QED BY <1>1, <1>4

LEMMA EvidenceIsMonotoneIs ==
    ASSUME CodeInv
    PROVE  EvidenceIsMonotone
<1> SUFFICES ASSUME NEW x \in pool \ code
             PROVE  LET more == code \cup {x}
                        plain == code \cup {Plain(x)} IN
                    /\ x.a[1] = "B" => ValueGaps(plain) \subseteq ValueGaps(more)
                    /\ x.a[1] = "R" => ValueGaps(more) \subseteq ValueGaps(code)
                    /\ /\ x.k = "call" /\ x.in[1] \in ClientSide \ ServicesOf(code)
                       /\ ~IsRpc(code, x.in)
                       => CongruenceGaps(code) \subseteq CongruenceGaps(more)
  BY DEF EvidenceIsMonotone, Plain
<1> DEFINE more == code \cup {x}
           y == Plain(x)
           plain == code \cup {y}
<1>1. y.k = x.k /\ y.in = x.in /\ y.to = x.to /\ y.a[1] = "none"
  BY PlainIs DEF CodeInv
<1>2. IsFiniteSet(code) /\ IsFiniteSet(more) /\ IsFiniteSet(plain)
  BY FS_AddElement DEF CodeInv
<1>3. x.a[1] \in {"B", "R"} => x.k \in {"call", "return"}
  BY DEF CodeInv, IsFact
<1> HIDE DEF y
<1>4. ASSUME x.a[1] = "B"
      PROVE  ValueGaps(plain) \subseteq ValueGaps(more)
  <2>1. Defs(plain) = Defs(more)
    BY <1>1, <1>3, <1>4 DEF Defs, Of
  <2>2. Mute(y, "R") /\ Mute(y, "B") /\ Mute(x, "R")
    BY <1>1, <1>4 DEF Mute
  <2>3. Reached(more, "R") \subseteq Reached(plain, "R")
    <3>1. \A z \in more : z.k \in {"call", "return"} => z \in plain \/ Mute(z, "R")
      BY <2>2
    <3> QED BY <1>2, <2>1, <3>1, ReachedOf
  <2>4. Reached(plain, "B") \subseteq Reached(more, "B")
    <3>1. \A z \in plain : z.k \in {"call", "return"} => z \in more \/ Mute(z, "B")
      BY <2>2
    <3> QED BY <1>2, <2>1, <3>1, ReachedOf
  <2>5. \A z \in Of(plain, "read") : \E u \in Of(more, "read") : u.in = z.in /\ u.to = z.to
    BY <1>1, <1>3, <1>4 DEF Of
  <2>6. \A u \in more : u.k \in {"call", "return"} =>
            \E z \in plain : /\ z.k = u.k /\ z.in = u.in /\ z.to = u.to
                             /\ z.a = u.a \/ u.a[1] \notin {"R", "RB", "call"}
    BY <1>1, <1>4
  <2> QED BY <2>1, <2>3, <2>4, <2>5, <2>6, GapsOfMore
<1>5. ASSUME x.a[1] = "R"
      PROVE  ValueGaps(more) \subseteq ValueGaps(code)
  <2>1. Defs(more) = Defs(code)
    BY <1>3, <1>5 DEF Defs, Of
  <2>2. Reached(code, "R") \subseteq Reached(more, "R")
    BY <1>2, <2>1, ReachedOf
  <2>3. Reached(more, "B") \subseteq Reached(code, "B")
    <3>1. \A z \in more : z.k \in {"call", "return"} => z \in code \/ Mute(z, "B")
      BY <1>5 DEF Mute
    <3> QED BY <1>2, <2>1, <3>1, ReachedOf
  <2>4. \A z \in Of(more, "read") : \E u \in Of(code, "read") : u.in = z.in /\ u.to = z.to
    BY <1>3, <1>5 DEF Of
  <2>5. \A u \in code : u.k \in {"call", "return"} =>
            \E z \in more : /\ z.k = u.k /\ z.in = u.in /\ z.to = u.to
                            /\ z.a = u.a \/ u.a[1] \notin {"R", "RB", "call"}
    OBVIOUS
  <2> QED BY <2>1, <2>2, <2>3, <2>4, <2>5, GapsOfMore
<1>6. ASSUME x.k = "call", x.in[1] \in ClientSide \ ServicesOf(code), ~IsRpc(code, x.in)
      PROVE  CongruenceGaps(code) \subseteq CongruenceGaps(more)
  <2>1. /\ Defs(code) = Defs(more) /\ Of(code, "write") = Of(more, "write")
        /\ Of(code, "rpc") = Of(more, "rpc")
    BY <1>6 DEF Defs, Of
  <2>2. \A z \in more \ code : z.in[1] \notin ServicesOf(code) /\ ~IsRpc(code, z.in)
    BY <1>6
  <2> QED BY <2>1, <2>2, ServicesOfMore
<1> QED BY <1>4, <1>5, <1>6 DEF y

(* The gate over any finite code base and any edits: base values are never *)
(* cleared, no mirror gap is masked, evidence moves a gate one way only    *)
(* (impact_value, passdown, impact_congruence, _guard_funcs).              *)
THEOREM GateInOrderHolds == CodeSpec => []GateInOrder
<1>1. CodeInv => GateInOrder
  BY BaseNeverClearedIs, NoMirrorGapMaskedIs, EvidenceIsMonotoneIs DEF GateInOrder, CodeInv
<1> QED BY <1>1, CodeInvariant, PTL
=============================================================================
