------------------------------ MODULE Failover ------------------------------
(***************************************************************************)
(* The chain of providers that every supervisory call goes through         *)
(* (llm/callers.py): FallbackCaller with its circuit breaker, RaceCaller,  *)
(* the concurrency gate of each provider and its deadline.                 *)
(*                                                                         *)
(* Calls share the chain, its breaker and the gates, as the targets of an  *)
(* audit do.  A call of Races asks all providers at once, another one asks *)
(* them in order.  Between two awaits a call is one step; time passes by   *)
(* CooldownEnds and Deadline, at any moment.                               *)
(***************************************************************************)
EXTENDS ProviderCall, Sequences, FiniteSets

CONSTANTS
    Calls, Races,   \* the calls, and which of them race
    Priority,       \* the configured order of provider names
    Built,          \* the providers whose factory found credentials
    SkipSet,        \* those an operator has switched off
    StyleOf,        \* provider -> its caller class
    Cap,            \* provider -> concurrent_request_cap
    Threshold,      \* _circuit_failure_threshold
    Rounds          \* call -> how often it is made (bound)

\* build_callers: the priority order without what is missing or switched off.
Chain == SelectSeq(Priority, LAMBDA p : p \in Built \ SkipSet)
Links == 1 .. Len(Chain)

ASSUME FailoverAssumption ==
    /\ Races \subseteq Calls
    /\ Chain \in Seq(Built) /\ Chain # <<>>
    /\ \A i \in Links : StyleOf[Chain[i]] \in Styles /\ Cap[Chain[i]] \in Nat \ {0}
    /\ Threshold \in Nat
    /\ Rounds \in [Calls -> Nat]

VARIABLES
    fails,      \* link -> its failures in a row, up to Threshold
    open,       \* link -> its breaker is open
    phase,      \* call -> where it is
    pass,       \* call -> 1 or 2
    link,       \* call -> the link its loop looks at
    skipped,    \* call -> pass 1 skipped an open link
    at,         \* call -> link -> the state of its attempt
    exchanges,  \* call -> link -> exchanges of its running attempt, else 0
    round,      \* call -> how often it has been made
    attempts    \* history: call -> link -> attempts in this round

breaker == <<fails, open>>
loop == <<phase, pass, link, skipped, round>>
tasks == <<at, exchanges, attempts>>
vars == <<breaker, loop, tasks>>

-----------------------------------------------------------------------------
Ended == {"returned", "failed", "raised", "cancelled"}
Running(i) == {c \in Calls : at[c][i] \in {"running", "unwinding"}}
InFlight(c) == {i \in Links : at[c][i] \in {"queued", "running"}}
Nobody == [i \in Links |-> "idle"]
NoExchange == [i \in Links |-> 0]

Init ==
    /\ fails = [i \in Links |-> 0]
    /\ open = [i \in Links |-> FALSE]
    /\ phase = [c \in Calls |-> "idle"]
    /\ pass = [c \in Calls |-> 1]
    /\ link = [c \in Calls |-> 1]
    /\ skipped = [c \in Calls |-> FALSE]
    /\ round = [c \in Calls |-> 0]
    /\ at = [c \in Calls |-> Nobody]
    /\ exchanges = [c \in Calls |-> NoExchange]
    /\ attempts = [c \in Calls |-> [i \in Links |-> 0]]

-----------------------------------------------------------------------------
(* The loop of FallbackCaller.                                             *)

Begin(c) ==
    /\ phase[c] \in {"idle"} \union Ended
    /\ at[c] = Nobody
    /\ round[c] < Rounds[c]
    /\ round' = [round EXCEPT ![c] = @ + 1]
    /\ pass' = [pass EXCEPT ![c] = 1]
    /\ link' = [link EXCEPT ![c] = 1]
    /\ skipped' = [skipped EXCEPT ![c] = FALSE]
    /\ UNCHANGED <<breaker, exchanges>>
    /\ IF c \in Races
       THEN /\ phase' = [phase EXCEPT ![c] = "waiting"]
            /\ at' = [at EXCEPT ![c] = [i \in Links |-> "queued"]]
            /\ attempts' = [attempts EXCEPT ![c] = [i \in Links |-> 1]]
       ELSE /\ phase' = [phase EXCEPT ![c] = "looking"]
            /\ attempts' = [attempts EXCEPT ![c] = [i \in Links |-> 0]]
            /\ UNCHANGED at

\* Pass 1 leaves an open link out; pass 2 leaves out one that is not open.
LeavesOut(c, i) ==
    IF pass[c] = 1 THEN Threshold > 0 /\ open[i] ELSE ~open[i]

LookOnSilently(c) ==
    /\ phase[c] = "looking"
    /\ link[c] \in Links
    /\ LeavesOut(c, link[c])
    /\ link' = [link EXCEPT ![c] = @ + 1]
    /\ UNCHANGED <<breaker, tasks, phase, pass, skipped, round>>

LookOn(c) ==
    /\ phase[c] = "looking"
    /\ link[c] \in Links
    /\ LeavesOut(c, link[c])
    /\ skipped' = [skipped EXCEPT ![c] = @ \/ pass[c] = 1]
    /\ link' = [link EXCEPT ![c] = @ + 1]
    /\ UNCHANGED <<breaker, tasks, phase, pass, round>>

Attempt(c) ==
    /\ phase[c] = "looking"
    /\ link[c] \in Links
    /\ ~LeavesOut(c, link[c])
    /\ phase' = [phase EXCEPT ![c] = "waiting"]
    /\ at' = [at EXCEPT ![c][link[c]] = "queued"]
    /\ attempts' = [attempts EXCEPT ![c][link[c]] = @ + 1]
    /\ UNCHANGED <<breaker, pass, link, skipped, round, exchanges>>

SecondPass(c) ==
    /\ phase[c] = "looking"
    /\ link[c] \notin Links
    /\ pass[c] = 1 /\ skipped[c]
    /\ pass' = [pass EXCEPT ![c] = 2]
    /\ link' = [link EXCEPT ![c] = 1]
    /\ UNCHANGED <<breaker, tasks, phase, skipped, round>>

GiveUp(c) ==
    /\ phase[c] = "looking"
    /\ link[c] \notin Links
    /\ pass[c] = 2 \/ ~skipped[c]
    /\ phase' = [phase EXCEPT ![c] = "failed"]
    /\ UNCHANGED <<breaker, tasks, pass, link, skipped, round>>

-----------------------------------------------------------------------------
(* One attempt: the gate of the provider, then its exchanges.              *)

Enter(c, i) ==
    /\ at[c][i] = "queued"
    /\ Cardinality(Running(i)) < Cap[Chain[i]]
    /\ at' = [at EXCEPT ![c][i] = "running"]
    /\ exchanges' = [exchanges EXCEPT ![c][i] = 1]
    /\ UNCHANGED <<breaker, loop, attempts>>

RecordSuccessCountsOnly(i) ==
    /\ fails' = [fails EXCEPT ![i] = 0]
    /\ UNCHANGED open

RecordSuccess(i) ==
    /\ fails' = [fails EXCEPT ![i] = 0]
    /\ open' = [open EXCEPT ![i] = FALSE]

\* A threshold of zero disables the breaker.  A failure while it is open
\* counts but does not open it for longer.
RecordFailure(i) ==
    LET count == IF fails[i] < Threshold THEN fails[i] + 1 ELSE Threshold IN
    /\ fails' = [fails EXCEPT ![i] = count]
    /\ open' = [open EXCEPT ![i] = @ \/ (Threshold > 0 /\ count >= Threshold)]

\* The first good answer of a race cancels the attempts still under way.
WinRace(c, i) ==
    at' = [at EXCEPT ![c] = [j \in Links |->
              IF j # i /\ at[c][j] = "running" THEN "unwinding" ELSE "idle"]]

Answered(c, i) ==
    /\ at[c][i] = "running"
    /\ phase[c] = "waiting"
    /\ phase' = [phase EXCEPT ![c] = "returned"]
    /\ exchanges' = [exchanges EXCEPT ![c] = NoExchange]
    /\ UNCHANGED <<pass, link, skipped, round, attempts>>
    /\ IF c \in Races
       THEN WinRace(c, i) /\ UNCHANGED breaker
       ELSE at' = [at EXCEPT ![c][i] = "idle"] /\ RecordSuccess(i)

RacerFailsUncounted(c, i) ==
    /\ phase' = [phase EXCEPT ![c] = IF InFlight(c) = {} THEN "failed" ELSE @]
    /\ UNCHANGED <<breaker, pass, link, skipped, round>>

\* A racer's failure leaves the others running; the last one's ends the race.
RacerFails(c, i) ==
    /\ phase' = [phase EXCEPT ![c] = IF InFlight(c) = {i} THEN "failed" ELSE @]
    /\ UNCHANGED <<breaker, pass, link, skipped, round>>

MoveOn(c, i) ==
    /\ RecordFailure(i)
    /\ phase' = [phase EXCEPT ![c] = "looking"]
    /\ link' = [link EXCEPT ![c] = @ + 1]
    /\ UNCHANGED <<pass, skipped, round>>

\* A failure that is not the provider's own is raised; the breaker is not told.
Raise(c) ==
    /\ phase' = [phase EXCEPT ![c] = "raised"]
    /\ UNCHANGED <<breaker, pass, link, skipped, round>>

AttemptFails(c, i, exchange, words) ==
    /\ at' = [at EXCEPT ![c][i] = "idle"]
    /\ exchanges' = [exchanges EXCEPT ![c][i] = 0]
    /\ UNCHANGED attempts
    /\ CASE c \in Races                                 -> RacerFails(c, i)
         [] c \notin Races /\ RoutesPast(exchange, words)  -> MoveOn(c, i)
         [] c \notin Races /\ ~RoutesPast(exchange, words) -> Raise(c)

Style(i) == StyleOf[Chain[i]]

Failed(c, i) ==
    /\ at[c][i] = "running"
    /\ phase[c] = "waiting"
    /\ \E exchange \in ExchangesOf(Style(i)) \ {"text"}, words \in Words :
          IF Retries(Style(i), exchange, exchanges[c][i])
          THEN /\ exchanges' = [exchanges EXCEPT ![c][i] = @ + 1]
               /\ UNCHANGED <<breaker, loop, at, attempts>>
          ELSE AttemptFails(c, i, exchange, words)

\* In JSON mode a racer whose answer is not a JSON object has not won.
NotJson(c, i) ==
    /\ c \in Races
    /\ at[c][i] = "running"
    /\ phase[c] = "waiting"
    /\ AttemptFails(c, i, "text", "nothing")

\* The wall-clock deadline of the attempt, whatever it is waiting for.
Deadline(c, i) ==
    /\ at[c][i] = "running"
    /\ phase[c] = "waiting"
    /\ AttemptFails(c, i, "silence", "nothing")

-----------------------------------------------------------------------------
\* The stage's own deadline, or its caller's end, cancels the call where it
\* waits: in a gate's queue or in an attempt.
Cancel(c) ==
    /\ phase[c] = "waiting"
    /\ phase' = [phase EXCEPT ![c] = "cancelled"]
    /\ at' = [at EXCEPT ![c] = [j \in Links |->
                IF at[c][j] = "running" THEN "unwinding" ELSE "idle"]]
    /\ exchanges' = [exchanges EXCEPT ![c] = NoExchange]
    /\ UNCHANGED <<breaker, pass, link, skipped, round, attempts>>

\* A cancelled attempt gives its gate back when its task next runs.
Unwind(c, i) ==
    /\ at[c][i] = "unwinding"
    /\ at' = [at EXCEPT ![c][i] = "idle"]
    /\ UNCHANGED <<breaker, loop, exchanges, attempts>>

CooldownEnds(i) ==
    /\ open[i]
    /\ open' = [open EXCEPT ![i] = FALSE]
    /\ UNCHANGED <<fails, loop, tasks>>

Loop(c) == LookOn(c) \/ Attempt(c) \/ SecondPass(c) \/ GiveUp(c)
AttemptEnds(c, i) == Answered(c, i) \/ Failed(c, i) \/ NotJson(c, i) \/ Deadline(c, i)

Next ==
    \/ \E c \in Calls : Begin(c) \/ Loop(c) \/ Cancel(c)
    \/ \E c \in Calls, i \in Links : Enter(c, i) \/ AttemptEnds(c, i) \/ Unwind(c, i)
    \/ \E i \in Links : CooldownEnds(i)

Spec == Init /\ [][Next]_vars

\* The event loop never idles while a task can run or a deadline has passed.
Progress ==
    \E c \in Calls :
       Loop(c) \/ \E i \in Links : Enter(c, i) \/ Deadline(c, i) \/ Unwind(c, i)

FairSpec == Spec /\ WF_vars(Progress)

-----------------------------------------------------------------------------
FailoverTypeOK ==
    /\ fails \in [Links -> 0 .. Threshold]
    /\ open \in [Links -> BOOLEAN]
    /\ phase \in [Calls -> {"idle", "looking", "waiting"} \union Ended]
    /\ pass \in [Calls -> {1, 2}]
    /\ link \in [Calls -> 1 .. Len(Chain) + 1]
    /\ skipped \in [Calls -> BOOLEAN]
    /\ \A c \in Calls : round[c] \in 0 .. Rounds[c]
    /\ at \in [Calls -> [Links -> {"idle", "queued", "running", "unwinding"}]]
    /\ exchanges \in [Calls -> [Links -> 0 .. 3]]
    /\ attempts \in [Calls -> [Links -> 0 .. 2]]

\* The breaker never shuts out a provider that has recovered: while it is open
\* the provider has failed Threshold times with no success since, whatever
\* order the results of concurrent calls arrived in.
OpenOnlyWhileFailing ==
    \A i \in Links : open[i] => fails[i] = Threshold

\* A chain call holds or awaits the gate of one provider at a time, through
\* every fail-over and cancellation, and none once it is looking on.
OneGatePerCall ==
    \A c \in Calls \ Races :
       /\ Cardinality({i \in Links : at[c][i] # "idle"}) <= 1
       /\ phase[c] = "looking" => at[c] = Nobody

\* "All callers failed" is said of providers that were all asked, unless the
\* first pass left out one whose breaker was open.
GivesUpAfterAll ==
    \A c \in Calls : phase[c] = "failed" /\ ~skipped[c] =>
        \A i \in Links : attempts[c][i] >= 1

\* What holds of every call at every moment: its types, one gate at a time,
\* and no verdict on the whole chain before the chain was asked.
CallsInOrder == FailoverTypeOK /\ OneGatePerCall /\ GivesUpAfterAll

\* Every call ends: gates are never waited for in a circle, and neither a
\* silent provider nor the breaker keeps a call going.
EveryCallEnds ==
    \A c \in Calls : phase[c] \in {"looking", "waiting"} ~> phase[c] \in Ended
=============================================================================
