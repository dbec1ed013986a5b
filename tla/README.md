# saddle: a verification project

saddle supervises a coding agent. Hooks of the agent start short-lived saddle
processes: when the user submits a prompt (`intake_hook.py`), before a tool call
(`doctrine_hook.py`), when the agent wants to stop (`stop_hook.py`). A long-lived
tool server (`mcp_server.py`) answers the agent's own calls. These processes share
nothing but small JSON files, written best-effort, and one SQLite store. Each asks
language models questions under a deadline; their admission and their fail-over
are the business of pools and chains inside the process (`llm/`).

The TLA+ modules here model that supervision: who may write what, in which order,
and what survives a failure between two steps. Source paths are relative to
`src/src/saddle/`. A language model's answer is always *any* answer.

## The system's parts

| Part (source) | State it keeps | Operations | Hard behaviour | What makes it correct |
|---|---|---|---|---|
| Design hold (`hold.py`, `intake_hook._review_outcome`) | posture file: default / hold / autonomous, scope, held ask, approval | one transition table per user prompt, after a classification; approval also settles a design | the deadline cuts the step between any two of its awaits; the ask and the approval are turns apart | a request shuts the gate until answered; one approval releases a one-time hold; the plan approved is not older than the ask |
| Pre-code gate (`doctrine_hook.py`, stage 3) | per-turn marker: anchor, outcome | review before the first code edit: council, audit, settlement | hooks of one message run in parallel; marker read before, written after a review of minutes; torn or lost marker; a posture that cannot be read | no code before consent; saddle settles only what a review named no issue of; never under a hold |
| Scope fence (`doctrine.py`, `crossproject.py`, `registry.py`, `focus.py`) | grants file, registry file, scopes of a turn | judge a tool call; grant, revoke, register | files loaded and saved as a whole without exclusion; several acts in one call | a refusal has its delete; what passes is in scope or granted by the user |
| Turn-end review (`stop_hook._proposal_outcome`) | the same marker | review of prose no edit took to the gate | refused stops send the agent back to the same turn; a failed review may be retried | one review of a turn |
| Goal keeper (`stop_hook._keeper_decision`, `completion.py`) | keeper marker: anchor, count, latch | refuse or allow a stop | lost marker writes, failing alert, resumption without a new message | bounded pushing, never silent giving up, re-armed by a new message |
| Outbox, drain, harvest (`bubble.py`, cursors in the hooks, `supervisor.run_stage`) | bubbles, cursors, watermark | emit, drain at the next prompt, harvest at the stop | cursor moved before delivery, limits on what is read and shown, hooks killed | nothing shown twice, nothing lost in silence |
| Fork ledger, replay, live goal (`dialog.py`, `dialog_store.py`, `transcript.py`, `livegoal.py`) | exchanges, forks, bindings, cursor, pending question | observe messages live and by replay, supersede, check an action, retire a goal | one message seen twice; a supersession uncovers an older binding; kill between rows and cursor | a citation names one choice; the live goal is the user's latest unretired pick |
| Intake and item ledger (`intake.py`, `item_ledger.py`, `store.py`) | items, statuses, scopes of the session | itemize, audit, merge, route, save; close and reopen todos | read before a model call, written after; other sessions in between | no ask dropped or doubled; a todo moves only by the user's word |
| Design pipeline (`orchestrator.py`, `design.py`, `council.py`, `mcp_server.py`) | designs | fold asks into goals, draft, audit, revise, save; propose, seat, criticise, synthesise, settle | jobs cut short; reviews of earlier texts; conflicts | final means reviewed, with no issue named; every ask designed; mixed panels |
| Knowledge base and rules (`dkb.py`, `llm/policy.py`) | lessons, bounded cache, designs; a rule file | harvest, remember, recall, evict; promote, demote | insertion and eviction apart; file rewritten by processes that may die | the cap holds, no lesson filed again and again, no rule lost |
| Converge loop (`converge.py`) | rounds of one design | read the gate, drive the coder, stall, exhaust | code edited by others meanwhile, crashed turns | it ends, and reports what the last reading said |
| Admission pool (`llm/pool.py`) | semaphore, lock, counters, tenant semaphores | acquire, release, tenant gate | cancellation at every await, memory pause, cooldown under the lock | no permit stranded, host cap, no endless wait |
| Provider pool, limiter, router (`llm/llm_pool.py`, `llm/router.py`) | health, in-flight counts, limits | route, queue, run, report, wait | limit cut under running calls; bursts of failures; late answers | the limit holds, no lost wake-up, one trip per window |
| Callers and fail-over (`llm/callers.py`, `llm/retry_category.py`) | breaker, provider gates | retry, fail over, race | results out of order; deadlines and cancellation in a queue | breaker open only while failing; a call ends; one gate at a time |
| Code map (`codemap/`) | none (a function of the code) | value, congruence and manifest gates | fixpoints over calls and returns; vetoes against evidence | no gap cleared by evidence that does not reach it |
| Stage runner, front ends, embedding, code audit, reports | none or rows | rendering, parsing, wording | none concurrent of their own | see "Not modelled" |

The parts meet in files and tables: the posture (written by intake, read by the
gate), the design-gate marker (gate and turn-end review), the scopes of a turn
(written by intake, read by the fence), the outbox (written by every stage, read
by drain, harvest and voice), and the store (designs written by approvals, gate,
council, tool and pipeline; items by intake).

## Modules

| Module | Models | Extends |
|---|---|---|
| `Hold` | posture and intake step | |
| `DesignGate` | pre-code gate, turn-end review, design tool, over the posture | `Hold` |
| `GoalKeeper` | goal keeper | |
| `Outbox` | bubbles, drain, harvest, voice, stages of the hooks | |
| `Dialog` | reading choices and picks, verdicts (pure) | `Selection` |
| `IntentLedger` | fork ledger, replay, live goal of a session | `Dialog`; `INSTANCE Commitment` |
| `Commitment` | what ledger and live goal promise together | |
| `Selection` | what a list keeps of itself at some places (a conditional comprehension; pure) | |
| `Backlog` | itemization, item ledger, scopes, of several sessions | `Selection` |
| `ScopeFence` | judgement of tool calls, grants and registry files | `Selection` |
| `Workspace` | sessions beside the files the fence reads | `Backlog`, `ScopeFence` |
| `KnowledgeBase`, `StandingRules` | lessons, cache, designs; the rule file | the first `Selection` |
| `DesignPipeline` | orchestration, design stage, round trip of the agent's plan | both of these |
| `Converge` | convergence loop | |
| `DesignLoop` | designs from the prompt to the code | `DesignPipeline`, `Converge` |
| `ProcessPool` | admission pool and tenant gates | |
| `ProviderCall` | retries and categories of one call (pure) | |
| `Failover` | chain, breaker, race, provider gates | `ProviderCall` |
| `ProviderRouter` | router, limiter, routed calls | |
| `ValueMap`, `MirrorMap`, `SurfaceMap` | the checks of the code map (pure), each extending the one before | |
| `CodeMap` | code under edit and its gate | `SurfaceMap` |
| `MCDesignGate`, `MCProcessPool`, `MCFailover`, `MCProviderRouter`, `MCIntentLedger`, `MCBacklog`, `MCDesignLoop`, `MCCodeMap` | instances for TLC | their module |
| `DesignGateProofs`, `IntentLedgerProofs`, `DesignLoopProofs`, `WorkspaceProofs`, `ProviderRouterProofs` | theorems | the module they are about |
| `SelectionProofs` | lemmas about lists and what they keep of themselves | `Selection` |
| `LlmCallProofs` | theorems about the two parts every call to a model passes | `ProcessPool`, `Failover` |
| `StopHookProofs` | theorems about the three parts that meet at the turn's end | `GoalKeeper`, `Outbox`, `CodeMap`, `SelectionProofs` |

### Hold

A user prompt, the turn it opens and its transcript anchor are one number; a plan is a
pair of a turn and a revision of the prose the agent wrote in it (0: none). The posture
is read once when the intake starts, and `seen` is what was read: `PostureReads` has the
posture on record and, as `read_posture` falls back to it on a file it cannot read or
parse, `DEFAULT`. `SubmitTrivial` and `SubmitReviewed` open a turn, the second lifting
the plan from the transcript as `review_turn` does: the prose of the last turn, or none
when the new prompt reached the file first. The classification is one of
`REVIEW_INTENT_KINDS`, and each row of `apply_review_intent` is an action:
`AutonomyGrant`, `Intervene`, `RequestReview`, `Unmoved`, `ApproveTalk`, `ApprovePlan`
with `SettleCommits`, `SettleReturns` and `SettleRaises`. The settlement is two steps
because the store commits in a thread before the coroutine resumes. `ReviewCutShort` is
the deadline, a provider failure or the death of the process between any two of them.
`WritePosture` may lose the write. `awaiting` is history: a request that reached the
posture file and that no approval, grant or intervention has answered.
`RequestShutsGate` is about that file; a hook that cannot read it is in `DesignGate`.

### DesignGate

`edit` gives each slot the state of the hook process of its last edit; two slots are
two tool calls of one message. `Attempts` and the actions on it are the early exits of
`_run_design_stage` in their order: hold, marker, missing plan. `StartReview` goes to
the council, or to the single audit under a hold; the `Council…`, `Audit…` and
`Settle…` actions are the outcomes of `_design_outcome`, `CouncilTooLate` the
deadline that hits after the council has stored its design. `Answer` writes the marker
and answers. `Stop…` are the exits of `_proposal_outcome`; `KeeperAnswers` lets the
goal keeper refuse the stop, so that the same turn goes on. `ProposeTool` is the agent's
`design_propose`. `Interrupt` kills the hooks in flight. All hooks of a session write
the marker through one temporary file name, so with a failing disk `MarkFired` may
also leave a marker that does not parse, which reads as none. A hook reads the posture
twice, at the hold gate (`_hold_denies_edit`) and before the review (`_session_held`), and
either read may fail by itself: `missed` says which reads of a hook did not see the hold
on record, and the hook goes on as if there were none. `passed` is history: the plans of
which some review named no issue.

An audit is clean, flags the plan and lists issues, or flags it and lists nothing
(`Verdicts`). Callers ask `has_issues`, which looks at the list, so the third is handled
as the first. `SettledIsEarned` says what this leaves: what saddle settled was reviewed,
that plan and no other, with no issue named. That the review found it clean is more than
the code gives: run `design_settled` shows it of the council and the tool, and the gate
makes the same test.

### GoalKeeper

`StopHook` has one action per exit of `_keeper_decision`, in its order: no verdict,
a halt ordered by the user, finished, capped, cap reached, push. `Wake` is a
resumption without a user message (a background job ends), which the latch of the cap
is there for. Whether a message reads as an order to halt is a flag of the message.
A push is made whether or not its marker was kept, as in the code.

### Outbox

The time of a bubble is its place in the outbox. A prompt runs `Drain` (which moves
the cursor to now and keeps the newest of what it read), the intake stages, `Deliver`;
a stop runs `Check` for each stage, `TakeMark` before the harvest reads,
`Harvest` per project, `Settle` (the watermark), and the keeper, which may send the
agent back to work with nothing but its decision. `HarvestFails` is the error that
`run_stage` turns into a bubble of its own. `Kill` ends any hook at any step; a
position may fail to be written. `shown`, `learnt` and `buried` are history.

### IntentLedger and Commitment

`log` is the transcript, `cursor` what the file of the replay says. `ReplayNext` feeds
one message to the tracker, as `replay` does; `ParkCursor`, `ObserveLive` and the live
goal follow in the order of the hook. `Kill` and `KillBetweenRows` end it: the latter
between a fork's update and its binding, which are separate commits. A message is what
`Dialog` reads in it: labelled lines, a framing line, a recommendation; a reply is a
label, a position, a deferral or anything else. `Commitment` knows nothing of rows: it
has the user's picks, those retired, and the question pending. `IntentLedger`
instantiates it with the resolved bindings, the superseded forks and the proposal.

### Backlog, ScopeFence, Workspace

`Backlog` runs a session's hook in steps: `Classify` reads the candidates, `Apply`
writes the statuses, `Itemize`, `Audit`, `Route`, `Save`, `RecordScopes`, `Deliver`
follow; sessions interleave between them. An intake's id is random in the code, so the
order in which the table returns intakes is a permutation (`rank`). `ScopeFence`
defines what a call is read to do (`ActionsFromTool`, with the parts of a shell
command), `Evaluate` with the rules in their order, and `Answer` with the grants; the
grants and registry files are read by one step and written by the next, by `Clerks`.
A path is a directory and what the rules look at in it. `Workspace` is both in one
behaviour, over the scopes the sessions' turns record.

### DesignPipeline, Converge, DesignLoop

A job is a record of the locals of the function that runs; a session has one at a time.
`Orchestrate` promotes the rules, folds the asks and designs each goal (`Draft`,
`Audit`, `Index`, `Harvest`, `File`, `Save`). `Propose` is the round trip: `Triage`,
`Seat`, `Critique`, `Synthesize`, `Floor`, `Settle`. A verdict is clean, flagged with
issues, or flagged without a named one. `StandingRules` has the rule file: a promotion
or a demotion takes the lock, reads and truncates the file in one step (`Truncate`) and
writes it back in another (`EndWrite`), by a session or by the command line (`User`:
`AddRule`, `Curate`, `Curated`). The file is read without the lock, so a reader may meet
it truncated; one that does not parse says nothing. `KnowledgeBase` bounds the list from
which a harvest knows the titles (`Listed`): the code reads the 1000 newest rows of any
kind. Which rows are the oldest is left open, and a harvest that misses a title counts
as a spoil. `Converge` re-reads the open sites after each turn of the coder and compares
signatures with the history of the drive; `EditCode` is anybody's edit. `Abandon`,
`PromoteFails` and `CurateFails` are the ends of a process, or of its write, between two
steps.

### ProcessPool

A unit of work passes its tenant's gate and makes its calls; a call awaits the hard cap
(`slot`), the admission lock (`lock`), memory (`memory`) or the cooldown, and runs
(`in`). What lies between two awaits is one step. `CancelWaiting`, `CancelHolding` and
`CancelCooldown` are the `except BaseException` paths of `acquire`; `MemoryDeadline` its
`raise`. A reading of host memory is any of three levels each time.

### ProviderCall and Failover

`ProviderCall` gives per caller class the exchanges it may see, which of them it retries
and in which category the last one ends. `Failover` runs calls over the chain:
`LookOn` passes over a link whose breaker is open, `Attempt` queues for its gate,
`Answered`, `Failed`, `NotJson` and `Deadline` end an attempt, `SecondPass` asks the
links left out. A call of `Races` asks all links at once and cancels the losers,
which give their gates back when they next run (`Unwind`).

### ProviderRouter

`Route` selects by health, order and load, and queues; `WakeUp`, `Answered`, `Failed`,
the `Cancel…` actions and `LookAgain` follow. The condition of the limiter wakes
everyone, and a woken call looks again. `health` carries the streak, the cool-down, the
canary and the number of trips of a provider. Time is `CooldownEnds` and `BudgetEnds`.

### ValueMap, MirrorMap, SurfaceMap, CodeMap

A code base is a set of facts, which is what the parsers hand to the checks. The
fixpoints of `passdown` and `impact` are iterated functions (`Saturate`); `CodeMap`
compares them with least closed sets written without iteration (`Least`,
`LeastChecks`). An edit adds or drops one fact.

## Runs

Bounds are constants of the instance and named in the `.cfg`.

| Run | Shows | Bounds and why they suffice |
|---|---|---|
| `gate_parallel` | `ConsentBeforeCode`, `SettledIsEarned`, `NoHookSettlesUnderHold` under two parallel hooks, failed reads of the posture, lost and torn markers, reviews that fail or flag and list nothing, refused stops, the design tool | 2 turns: the marker and the hold of an earlier turn; 2 slots: any interleaving of two hooks (three add no new pair) |
| `gate_turn` | the posture's `RequestShutsGate`, `OpenHoldStands`, `ApprovedPlanAnswersGoal`; `OneReviewPerTurn`, `StrictGateReviewsAgain` for edits one at a time, in both gate modes | 3 turns: ask, approval, second ask; one revision: a plan is absent or present; writes and reads of the posture may fail |
| `keeper` | `RunawayGuard`, `GivesUpLoudly`, `NewMessageReArms`, `ComesToRest` | the code's cap of 3; 3 messages, 3 resumptions, 2 lost writes in a row of laps |
| `pool` | `PermitsInOrder` (`NoSlotStranded` and `NoPermitStranded`), `HostCap`, `EveryUnitLeaves`; deadlock is checked | 2 slots against 4 calls of 3 units and 2 tenants, so that slot, lock and gate are all contended; one unit makes two calls, as the council does |
| `failover` | `CallsInOrder`, `OpenOnlyWhileFailing`, `EveryCallEnds` | two links of different caller classes with gates of one; a chained call made twice, another once, and a race, so that each finds the breaker and the gates as another left them; a threshold of 2 |
| `router` | `PoolInOrder`, `NoLostWakeup`, `OneTripPerWindow`, `EveryRoutedCallEnds` | two calls and two providers with limits of 1 to 2; two failures degrade, two trips reach the longest cool-down; one provider bounds its exchanges and one does not |
| `intent` | `LedgerInOrder`, `NeverSilent`, and `CommitmentHolds`, the refinement | three prompts (offer, pick, retirement) and two offers: one fork superseded over an older one; kills anywhere |
| `outbox` | `OutboxInOrder`, `AtMostOnce`, `NothingUnlearntInSilence` | 4 bubbles against limits of 1, 2 and 3: findings are crowded out of each of them; one kill or lost position |
| `ledger` | `WorkspaceInOrder`, `UserMovesTodos` | two sessions, three prompts of which two are decomposed, a task, a directive and a remark; a reply names one ask and one audit may name another, so up to 4 todos against a candidate cap of 2 and a list limit of 3; a second audit is in the proof only; two processes at the grants and the registry |
| `design` | `DesignsInOrder`, `MemoryInOrder`, `VerdictIsGated`, `EveryJobEnds` | two sessions and two jobs: an orchestration beside any of the six kinds, or two jobs of one session in turn; the command line beside them; two rules, a cache of 1 against 2 references, a title list of 1 row; three rounds, a stall after 2 |
| `codemap` | `GateInOrder`, `EveryFindingHasAnEdit` | three code bases, up to 4 edited facts present: a helper between two functions and a name made ambiguous; a mirror service with a wrapper of a check; a surface of the other kinds |

The keeper's cap is the code's own; the other limits of the code (6, 30, 50) are
replaced by 1 to 3, since what can go wrong is at the limit. `CHECK_DEADLOCK FALSE`
stands where the bound on turns or rounds ends every behaviour; elsewhere the behaviour
goes on or an action `Rest` marks its end.

What `GateInOrder`, `WorkspaceInOrder` and the other "in order" invariants are made of
is in their modules: each conjunct has a name and a comment of its own. `ledger` and
`codemap` also evaluate pure functions on every input of a small set: every tool call in
every scope and under every grants file that comes about, and every edit of every code
base.

One run ends in a counterexample: something the source says of itself that the code does
not do.

| Run | Property | What happens |
|---|---|---|
| `design_settled` | `SettledAuditedClean` | "Callers settle ONLY an approach that audited clean" (`design.py:850`), but they test whether the verdict names an issue (`mcp_server.py:547`, `council.py:490`, `doctrine_hook.py:494`): a plan flagged without a named issue is settled as final, where `design_for` leaves the same verdict unsettled |

### Fairness

Most runs assume none. `keeper` assumes weak fairness of the stop hook only: the agent's
loop ends each lap in an attempt to stop, and the hook is bounded by its deadlines;
nothing is assumed of verdicts, users or resumptions. `pool` assumes that asyncio serves
the waiters of a semaphore and of a lock in their order (strong fairness of taking the
gate, the slot and the lock), that sleeps end, and that a running call ends: the calls
behind a tenant gate go through the fail-over chain, which puts its deadline on each
(`llm/callers.py:224`, unless it is switched off). Nothing is assumed of memory: it may
stay short for ever, and then the deadline ends the wait. `failover` assumes that the
event loop does not idle while a task can run or a deadline has passed (`Progress`), and
nothing of providers, which may stay silent. `router` assumes that every task that can
run does and that budgets and cool-downs end. Of exchanges it assumes an end only with
the providers in `Deadlined`, whose clients bound them (the idle and total limits of a
stream, the timeout of an HTTP request): the pool awaits its callers without a deadline
(`llm/llm_pool.py:573`), and the default lead, the local CLI
(`llm/claude_agent.py:290`), has none of its own and may hang. `EveryRoutedCallEnds`
therefore says that a call ends or stays for ever with one such provider, and so that a
hung exchange holds up no call of another provider. The process pool under the clients
is left out here: hung calls that hold all its slots would hold up the others too.
`design` assumes that a session that has a job gets on with it, for the same deadlines;
that a session waiting for the rule file's lock is not passed over for ever (strong
fairness of `Promote`: the others take it once for each rule of a job, or for a command
of the user, and it is free in between), and that a command which has truncated the file
writes it (weak fairness of `CommandLine`; no wait lies between); nothing of what models
reply, of the coder, or of those who edit the code.

## Proofs

Checked by TLAPS for every value of the constants that satisfies the module's named
assumption.

* `DesignGateProofs`. `HoldInv` is the inductive invariant of the posture: types,
  `ReviewShape` (the intake process runs exactly while it has the floor; the plan it
  carries is of the turn before; a step that settles is under a hold) and `HeldShape`
  (what is held was asked in a turn that has begun). `ApprovedPlanAnswersGoal` is not
  inductive without them: that the goal is not newer than the plan follows from the held
  ask being of an earlier turn than the running review. A settlement in flight has
  already answered the request, which `RequestShutsGate` needs. `GateInv` is the same
  beside the gate, with `SlotOK`: the agent waits for a hook in flight, so the posture
  on record is still the one the hook found, and a hook that goes on under a shut gate
  is one whose own read missed it; what it settles was not held, as far as it could
  read, and is in `passed`. From it `SettledIsEarned`, `ConsentBeforeCode` and
  `NoHookSettlesUnderHold` for any number of parallel hooks and failed reads. So a
  failed read costs the one edit whose hook it was: it moves no posture, opens no other
  hook, and does not let a hook settle whose read before the review succeeds.
  `StrictGateReviewsAgain` is proved for edits one at a time and `OneReviewPerTurn` for
  those with markers that are written: the code gives neither to two hooks of one
  message, nor the second when a marker is lost ("Places" below), and `gate_turn` checks
  them under the same restrictions. `ReviewInv` says when a review of this turn may
  still start, `OutcomeInv` what an outcome about to be recorded says of the last
  review.
* `StopHookProofs`, the goal keeper. `KeeperInv` adds to the types that the marker is of
  this message or an earlier one, that the streak is at most the marker's count plus the
  writes lost (`StreakOnRecord`), and that what the marker claims for this message was
  earned (`MarkerEarned`). From it `RunawayGuard`, and the action properties
  `GivesUpLoudly` and `NewMessageReArms`, for any cap.
* `StopHookProofs`, the outbox. A reader takes the newest of what lies behind its
  position, so what it leaves was crowded out by as many newer bubbles, and stays so: an
  outbox only grows and what was taken stays taken. That with no kill a bubble is
  delivered at most once needs that what a drain holds lies behind the cursor and was
  not delivered, and likewise for the harvest and its watermark.
* `StopHookProofs`, the code map. `SaturateLeast`: a growing step, iterated as often as
  its room has members, ends in the least set that holds the seed and is closed under the
  step; as long as a round adds something there are at least as many members as rounds.
  So what a polarity reaches is the least set closed under one hop (`LeastIs`), and a
  check the gate accepts is one of the least checks (`ChecksAreLeast`). The monotone
  parts compare two code bases: `ReachedOf` for facts that say nothing of a polarity,
  `GapsOfMore` for the value gate and `ServicesOfMore` for the congruence gate. The
  invariant `CodeInv` only says that the code is a finite set of facts. So `GateInOrder`
  holds of any finite code base and any edits.
* `IntentLedgerProofs`. `ShapeInv` (types; a cursor is a place in the log, a binding is
  of a fork on file, a fork's number is that of an exchange) carries the refinement:
  each step of the ledger is a step of `Commitment` or a stutter
  (`CommitmentImplemented`). That the ledger's newest resolved binding is the live pick
  is a least-number argument, by the minimum the library's well-founded theorems give.
  That `LedgerInOrder` holds of any messages rests on `ParsesToChoices`: what is read
  out of a fork is a choice, its labels all different and the recommended one among
  them.
* `DesignLoopProofs`. One conjunct per part. `JobOK` says what a job holds at each stage:
  no conflict outside the floor, a verdict once it settles, goals that cover the asks not
  yet done; `Folded` adds an ask of its own for each ask the reply leaves out.
  `DriveOK`: between its gates a drive has gaps, and its report says what the last gate
  found. `RulesInv`: whoever holds the lock, session or command line, has the
  whole file in its buffer, until a write is cut short. `LessonsInv`: the lessons on file
  under a title and the sessions that read the titles without it are together no more than
  the sessions and the readings of a list too short. `CacheInv`: no topic is in
  the cache twice, and its rows exceed the cap by no more than the evictions to come and
  the jobs cut short. An insertion adds a row and an eviction to come; `ColdestCut` says
  that what a purge leaves fits, also where the overflow was counted with the expired rows
  still there; a recall only reorders. That no eviction is lost needs `DriversInv`: a
  session whose loop runs has no other job. So `DesignsInOrder`, `VerdictIsGated` and
  `MemoryInOrder` hold of any sessions, asks, rules, topics, cap, families, rounds and
  retries. The cap is positive: with 0 the code keeps no cap.
* `LlmCallProofs`, admission. The two permit counts (`NoSlotStranded`,
  `NoPermitStranded`) for any finite sets of units and calls and any caps, by counting:
  each step moves at most the calls of one unit, and the cardinality of the sets `At(S)`
  and `Inside(t)` changes by the amount the semaphore does. The invariant also needs
  that the calls of a unit outside its gate are idle. `HostCap` and the bounds of the
  types follow.
* `LlmCallProofs`, the chain. `BreakerInv`: the types of the breaker's two arrays, and
  that an open breaker has its count at the threshold. Only an attempt that ends and the
  end of a cool-down move them; a success resets both at once, a failure opens only at
  the threshold and leaves the count there, so the order in which concurrent results
  arrive does not matter (`OpenOnlyWhileFailing`, any chain and calls). `CallInv` adds
  the gates, by counting, and which links a call in its first or second pass has asked
  (`CallsInOrder`).
* `ProviderRouterProofs`. `LimiterInv` (`AbsoluteCap` and types): a place is taken below
  the limit, and a release lowers the count at least as far as it may lower the limit.
  `HealthInv`: a record of outcomes is typed and its canary is on probation; each entry
  that changes follows the one before it without a trip while it cools, which gives
  `CanaryOnProbation` and the action property `OneTripPerWindow`. The in-flight counts
  are those of the calls they stand for, and every release or raise of a limit wakes
  whoever sleeps (`PoolInOrder`, `NoLostWakeup`).
* `SelectionProofs`. What lists keep of themselves: `MembersAre` says that
  `Members` is a sequence of the members at the chosen places, in order, from `NthIs`
  (the k-th of n places exists and is unique, by a least-number argument), and
  `MembersOnce` that a list without repetitions keeps none; `SeqIs` and `ConcatIs` turn
  sequences into functions on intervals and back.
* `WorkspaceProofs`. `BacklogInv` is the
  inductive invariant of the ledger: the table's rows are typed and no two share intake
  and place (`TableInv`), and per session the snapshot holds todos of this project, the
  word is about the snapshot (`LedgerInv`), and the extracted items are what was named
  (`ItemsInv`). No two rows share intake and place, so `Newer` orders them in a line, and
  at most `CandidateCap` rows have fewer than that many before them: a counting argument
  for what the code's slice does. An audit appends only asks
  that are not there, so no ask is repeated beyond the reply that first named it. From it
  `BacklogInOrder` and the action property `UserMovesTodos`. The judgement of calls is
  proved case by case of the four seeded rules (`GuardDecides`), then for a whole call
  from its first blocking act (`Faulty` is empty under any grants on offer), and
  `NarrowerIsStricter` from the antitone `Inside`. `FilesInv`: as long as no two clerks
  met, at most one has a copy in hand, and that copy is the file plus its own change
  (`AloneInv`); once they met only the types remain (`HandsInv`). Together
  `WorkspaceInOrder`, for any sessions, projects, directories, offers, clerks and bounds.

The assumptions on constants are those of the modules: bounds are natural numbers, sets
that are counted are finite, a preference is a sequence, a declared surface names sites,
only a call or a return hands a value over.

Only model-checked: the liveness properties (`ComesToRest`, `EveryUnitLeaves`,
`EveryCallEnds`, `EveryRoutedCallEnds`, `EveryJobEnds`), which are out of the prover's
reach; and `EveryFindingHasAnEdit`, which is about the edits at hand in each of the three
code bases.

## Places where the code and its words part

Found while modelling; the models do what the code does.

* Hold: an approval is lost when the deadline cancels its settlement: `hold.py:476` says
  "settle failure must not lose the approval", but catches no cancellation.
* Gate: hooks of one message both review a turn (`doctrine_hook.py:635`); a refused stop
  has marked the turn reviewed, so the strict gate lets its edits pass
  (`stop_hook.py:240`); `design_propose` settles without reading the posture
  (`mcp_server.py:553`); a hook that cannot read or parse the posture lets its edit pass
  while a request is on record (`hold.py:147`, `doctrine_hook.py:280`, both documented as
  failing open); a plan flagged without a named issue is settled (`doctrine_hook.py:494`).
* Keeper: a finished verdict clears the latch of the cap within the same turn
  (`stop_hook.py:672`).
* Pool: the council makes two calls inside one permit of a tenant (`council.py:310`);
  admission resumes below the ceiling, not below the resume mark (`llm/pool.py:237`).
* Fail-over: the second pass leaves out a link whose cool-down ended during the first
  (`llm/callers.py:1311`); a share of the deadline is computed before the wait at the
  gate.
* Router: a call cancelled in the queue leaves the in-flight count raised
  (`llm/llm_pool.py:568`); the limit grows after any saturated call that was not
  throttled, a failed one too, where the class speaks of clean ones; the wall-clock
  budget of a routed call (`llm/llm_pool.py:87`) is read between two tries only, so an
  exchange that hangs is not cut by it.
* Intent: a prompt is observed live and again by the next replay; a cursor whose message
  is gone from the transcript silences replay for good; only the newest six findings of a
  replay are shown.
* Outbox: the cursor moves before delivery (`intake_hook.py:343`), and findings beyond
  the newest are not shown later; the alert of a failed turn-end stage carries no origin
  and is never drained (`supervisor.py:273`); the watermark moves also after a failed
  harvest (`stop_hook.py:807`).
* Backlog: statuses are compared with a snapshot and written unconditionally
  (`item_ledger.py:203`); the limit on items cuts a list ordered by random ids; a failed
  itemization, or a failed record of the scopes (`intake_hook.py:398`), leaves the
  scopes of an earlier turn, where `intake_hook.py:378` and `focus.py:93` promise that a
  failure narrows to the single focus, "stricter, never looser".
* Design: a dry run still files lessons and rules; a fresh row of a full cache is the
  coldest and is evicted at once; a title another session files after the titles were
  read, or too old for the list that was read (`design.py:577`), is filed twice; the
  rule file can be read or left truncated; a crashed turn reports the gaps of the
  reading before it.
* Fence: code-safety rules are "NEVER overridden by a grant" (`doctrine_hook.py:749`,
  `crossproject.py:30`), but a call is judged by the first rule that refuses, and for a
  delete outside the focus that is the scope rule: a granted one passes with the code it
  deletes, and shadows the refusal of a later act of the same call
  (`doctrine_hook.py:752`). `Justified` claims no more than what is left; grants and
  registrations are lost or come back when two processes write at once.
* Code map: a second definition of a name in another module withdraws the base veto, but
  not the one-hop evidence that goes by name, so a gap may fall silent; authority checks
  are matched by name across modules; malformed rows of a manifest are dropped with a
  log line.

## Not modelled, and why

* The text of prompts, heralds, findings and logs; parsing of model answers.
* The two parsers of the code map (`pyref.py`, `gdref.py`): their output, the facts, is
  the input of the models.
* Environment switches that turn a stage off, and the opt-out (0) of the pool's memory
  deadline: without a stage there is nothing to show.
* Transcripts without a readable anchor: the gate and the keeper then skip their marker.
* The choice of the ledger a finding is filed under.
* Real time: a deadline, a cool-down or a budget may end at any moment, so no property
  bounds a duration.
* Embedding and retrieval, seeding, recall and reports, the topic map (read by a report
  only), the code audit (one sequential pass), search and image clients: numerics,
  one-shot reads and parsers, without shared protocol state. Front ends: wording and
  wiring.
* The stages of one hook are modelled apart (`Hold`, `Outbox`, `IntentLedger`,
  `Backlog`): they share no state but the prompt, and run one after the other.
