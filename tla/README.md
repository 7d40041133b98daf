# Verification of kaiban-distributed

TLA+ models of the distributed runtime in `src/src/` and of the runs in
`src/examples/`, checked by TLC on small instances, with theorems proved by TLAPS
for every value of the constants. Paths below are relative to the repository's
`src/src/` unless they say otherwise.

## 1. The system and its parts

A workflow driver (`WorkflowOrchestrator`, or a gateway's A2A executor) publishes
task messages on a broker queue per agent (BullMQ, Kafka or AMQP). Worker nodes
run one `AgentActor` per agent; each takes tasks from its mailbox, asks its
guards, runs its handler with retries and publishes a completion on
`kaiban-events-completed` or a dead-letter record on `kaiban-events-failed`. The
`CompletionRouter` of whoever dispatched the task takes the result from those two
queues. An operator's emergency stop travels beside the tasks: saved in Redis,
then published on a Pub/Sub channel each node subscribes to. Everything runs on
single-threaded event loops: the interleavings are between awaits, and between
processes.

| Part | State it keeps | Operations | Talks to | What is hard | What makes it correct |
|---|---|---|---|---|---|
| `application/actor/AgentActor.ts` | in-flight controllers, `stoppedAt`, `stopping`, breaker | `start`, `processTask` (guards, attempts, publishes), `emergencyStop`, `stop` | driver (callbacks, publish), handler, guards, breaker | stops between any two awaits, timeouts against results, publishes that reject, redelivery | nothing stopped runs; each task leaves one verdict; the breaker counts timeouts and used-up attempts only; the drain ends |
| `infrastructure/security/sliding-window-breaker.ts` | timestamps, open flag | `recordFailure`, `recordSuccess`, `isOpen` | the actor | lazy pruning, the failure exactly a window old | opens at the threshold, recovers when the window empties |
| `shared/completion-router.ts` | resolvers, rejecters and timers by task id; two subscribed flags | `wait`, `waitAll`, result callbacks, abort listeners | driver, orchestrator | results against timers against aborts, failing subscribes, duplicate and stolen results | every wait settles; nobody waits unheard; a stop ends the whole fan-in |
| `shared/orchestrator.ts`, `shared/budget.ts` | checkpoint, totals, stop, load promise, save chain, generation | `runStep`, `memoize`, `recordSpend`, `clear`, crash and resume | router, checkpoint store | parallel steps, `clear()` in the middle, failed loads and saves, crash between spend and save | spend counted once; saved steps not paid again; a cleared run stays cleared; the cap survives a crash |
| `infrastructure/messaging/*-driver.ts` | queues, workers, consumers | `publish`, `subscribe`, `unsubscribe` | broker | redelivery, stalled jobs, partly failed subscribes, draining | at-least-once; unsubscribe waits for active tasks |
| `infrastructure/control/control-channel.ts`, `shared/emergency-stop.ts` | saved stop in Redis; subscriber's last stop and readiness | `issueStopAll`, `ControlSubscriber.start`, catch-up on `ready` | gateway, nodes | save then publish is not atomic; Pub/Sub is at most once; reconnects | no node takes work covered by a stop saved before it started; all connected nodes learn of it |
| `shared/agent-node.ts`, `shared/process-drain.ts`, `resilience/graceful-shutdown.ts` | nodes of the process, shutdown steps and deadline | start, drain, exit | actor, control channel, publisher | a step that hangs, a deadline, a second signal | stop is attached before tasks are taken; every step is tried; the process exits |
| `adapters/state/agent-state-publisher.ts` | attempt sequence, caps, reported stops | `wrapHandler`, `publishStopped`, heartbeat | Redis, gateway | attempts superseded by newer ones, late results, bounded memory | the newest attempt's state wins; a stop is reported once |
| `adapters/gateway/SocketGateway.ts` | board snapshot, sockets | delta merge, decision forwarding | Redis, browsers | deltas in any order | the snapshot holds the last of each field |
| `shared/hitl.ts` | one decision being waited for | Pub/Sub, list poll, terminal, timeout | Redis, operator | three sources race; stale list entries | one decision, of this round |
| `economics/rate-cost-limiter.ts`, `economics/cost-reservation.ts` | points per scope and window | reserve, settle, release | Redis, admission gate | one scope of several fails | caps hold; refused reservations cost nothing |
| `governance/*` | registry, kill switch, audit chain | evaluate, register, revoke, append | actor | concurrent appends | a refusal wins; the chain is unbroken |
| `infrastructure/federation/a2a-*.ts` | task store | `execute`, `cancelTask` | router, remote agents | cancel against result | one terminal state |
| `infrastructure/federation/mcp-*.ts` | session table | open, sweep | remote clients | count before an await, add after | the session limit holds |
| `resilience/dlq-replay.ts`, `shared/dispatch.ts` | none of their own | replay, dispatch | broker | replays of settled tasks | task ids are kept |
| `infrastructure/kaibanjs/*` | keys, the models of an attempt | `createKaibanTaskHandler`, `startTeam` | actor, KaibanJS, token provider | an aborted attempt works on beside the next | its own keys and usage; nothing after the abort |
| `adapters/state/distributedMiddleware.ts` | the last state seen | attach, detach, publish | KaibanJS store, tracker | lost deltas | what changed last is known |
| `economics/model-router.ts`, `cache-accounting.ts`, `shared/budget.ts` | none | route, price, compare | handlers, orchestrator | boundaries | the cheapest that fits; the price of the right model |
| `src/examples/blog-team`, `src/examples/global-research` | phases done, research context, pending review | run, review, revise, resume, fail | orchestrator, boards, humans | stops and crashes in every phase | only what a human or the editor approved is published; nothing is paid twice |
| `memory/secure-memory-store.ts` | entries with TTL and trust | put, get, sweep | agents | little: sequential | no expired or untrusted read |

Modelled whole or in part: all of these but the secure memory store. Dispatch and
RPC, the security adapters (signing, firewall heuristics, TLS and tokens),
configuration and entry points are not modelled; section 5 and `PROJECT.json` say why.

## 2. Modules

### AgentActor (`AgentActor.tla`, instances in `MCAgentActor.tla`)

A delivery is one hand-over of a task message by the driver. `pc[d]` is where
`processTask` stands with it:

| `pc` | in the code | leaves by |
|---|---|---|
| `queued` | with the broker | `Ignore` (other agent), `RefuseInterrupted`, `RefuseByBreaker`, `Admit` |
| `firewall`, `gate` | awaiting the semantic firewall, the admission gate | `FirewallAnswers`, `GateAnswers` |
| `attempt` | at the head of the loop of `executeWithRetries` | `BeginAttempt` |
| `running` | in `executeTask`, a controller in `inFlight` | `HandlerResolves`, `HandlerThrows`, `HandlerTimesOut`, the aborts of `EmergencyStop` and `Stop` |
| `publishing` | awaiting the completion publish | `CompletionPublished`, `CompletionRejected` |
| `backoff` | in the sleep between attempts | `BackoffElapses` |
| `dlq` | awaiting `publishToDlq` | `DeadLetterPublished`, `DeadLetterRejected` |
| `acked`, `rejected` | `processTask` has resolved, or rejected | - , `Redeliver` (the broker's) |

`AttemptFails` is the catch block with `finalError`. `fault[d]` is the error
class of the dead-letter record once that is decided. `EmergencyStop(t)` and
`Stop` move every covered in-flight task at once because an abort settles
`executeTask` in the same turn, whatever the handler does with its signal.
`completed`, `deadLetters` and `reported` record what others can see.

Abstracted: payloads and their capping, log records; the lengths of back-off and
timeout (they elapse whenever they may); a handler that itself throws an
`EmergencyStopError`. Timestamps are natural numbers; one that is not finite,
which every stop covers, behaves as 0. `HandlerResolves` is the settling of
`executeTask` with the `recordSuccess` that follows in the same turn, up to the
await of the publish.

### StoppableWorker

What an emergency stop promises, without any of the machinery: a worker has a phase
(`new`, `open`, `closed` by a drain), the latest stop it knows, the tasks whose handler
runs and those that are over. `Run(k)` begins only what is not covered and not over;
`Stop(t)` ends exactly what it covers, and only when it is later than every stop before;
nothing clears `stoppedAt` but the replacement of the process (`Replace`, switched by
`Replaceable`). Two modules implement it:

| Abstract | in `AgentActor` (`Worker`) | in `ControlChannel` (`Worker(n)`, one for each node) |
|---|---|---|
| `phase` | the subscription | `open` once `startAgentNode` is `up` |
| `stoppedAt` | `stoppedAt` | the node's `stoppedAt` |
| `running` | `InFlight` | the node's `running` |
| `ended` | `Over`: acknowledged, or dead-lettered by a stop | `ended`, of all nodes |
| `Open` | `Start` | `StartReads`, with the saved stop |
| `Run` | `BeginAttempt` | `TakeTask` |
| `Return` | the handler resolves, throws, times out | `TaskFinishes`, `TaskReturns` |
| `Settle` | refusals, acknowledgements, dead-letter records | a refused `TakeTask`; what other nodes end |
| `Stop` | `EmergencyStop` | `Receive` and `CatchUpReads` of a later stop |
| `Drain` | `Stop` | - (a node that drains leaves) |
| `Replace` | - | `Boot`, `StartFails`, `Leave` |

Everything else stutters: guards, back-off and publishes in the actor; the connection,
its messages and the gateway's steps in the channel. That both implement one module is
what allows `ControlChannel` to stand a node's actor for `AgentActor`.

### CompletionRouter (`MCCompletionRouter.tla`)

`waiter[t]` stands for the three maps keyed by task id, which the code always
sets and clears together; `status[w]` is the promise a call got. `Wait(calls)` is
what one turn of the event loop registers: a single `wait()` or all those of
`waitAll`. `Settle` is `clearPending` and the settling of the promise. `Abort`
runs the listeners of a signal in their order, the stale ones of settled waits
included. The broker holds published results and hands each to a router once;
`ResultTaken` is a competing router on the same queue that drops it.

### WorkflowOrchestrator (`MCWorkflowOrchestrator.tla`)

One instance of the class at a time, its store outliving it. `checkpoints[g]` is
the checkpoint object of generation `g`: `clear()` starts a new object while
steps begun before it still hold the old one. `saveChain` is the promise chain
that serialises saves and clears, `job` what its head awaits. `Crash` ends the
instance between any two steps, with a running save or clear perhaps applied,
and constructs a fresh one. `charged` and `wiped` are history variables: the
spend the run must account for, and that the store was cleared.

Abstracted: tokens and cost are one number; results are their task id; `memoize`
is `runStep` with a producer; the router is what a wait can do (resolve, fail, be
refused as a duplicate, be aborted); an own abort signal of a step is a failed
wait. `ClearsIn` counts the clears waiting in the save chain: each takes one of the
`MaxClears` generations. `isResuming` and the read-only getters have no action.

### ControlChannel (`MCControlChannel.tla`)

`command[t]` is where `issueStopAll` stands with the command of moment `t`: its
save and its publish are separate steps, either may fail with its effect applied
or not, and several commands may be under way at once. `node[n]` is a worker
node: the phase of `startAgentNode`, the subscriber's connection and the messages
on it, the `catchUp` loops that have not yet read the saved stop, and the actor
reduced to `stoppedAt` and the tasks it runs (`TaskReturns` is an attempt that ended and
will be made again, here or at another node). Pub/Sub reaches whoever is
subscribed at that moment; a lost connection loses its messages. `ioredis` sends
the SUBSCRIBE again before the `ready` event, but on another connection than
`catchUp`'s GET, so `Subscribed` and `CatchUpReads` come in either order. A read
and its answer are one step: an answer under way only arrives later, and
`stoppedAt` only grows. A failed catch-up read changes nothing, and is the absence
of a step. `TakeTask` hands a task to one node at a time, which is more than the brokers
promise; that other nodes only settle tasks rests on it, the clauses about stops do not.
An orchestrator with a stop signal is the same subscriber with one task, sent at its
`startedAt`, which a stop at or after that moment ends.

History in a node: the saved stop when it started (`atStart`) and when its
connection was last ready (`atReady`), and whether it never lost it (`steady`).

Abstracted: signatures and tokens; acknowledgements are in `BoardView`, the
ingress limits in `GatewayIngress`; the drain is one step, dead-lettering or giving back what
runs. `AgentActor` models what a stop does to a task at each of its stages.

### Two suites: `MCViews` and `MCEdges`

The modules below are small and share no state with each other. A suite holds the
variables of several; `focus`, chosen in the initial state, says which one takes the
steps of a behaviour, and the others stay as they began. Its reachable states are
the disjoint union of theirs, so a run of it answers what a run of each module
would. `MCViews` has what people see and decide, `MCEdges` what a node admits,
stores, bridges and ends. Each module also states its `TypeOK`; the suites do not
run them, the proofs use them.

### What people see and decide (`MCViews`)

| Module | Code | State and actions |
|---|---|---|
| `AgentState` | `adapters/state/agent-state-publisher.ts` | Attempts of one agent that outlive their timeout or stop. `Begin` is the head of `wrapHandler` with the caps; `Resolve`, `EndStopped`, `EndFailed` are its ends with the accounting of late results; `ReportStop` is `publishStopped`; `Heartbeat` repeats `current`. `row` and `card` are what the board merges from the deltas; `spent` is history. |
| `BoardView` | `adapters/gateway/SocketGateway.ts`, `src/board/src`, the viewers of the examples | `ReceiveDelta` merges a delta into the gateway's snapshot and queues it for each board; `Connect` sends the snapshot first; `Deliver` is the board's own merge (React board and viewers differ in what they keep); `NoteStop` and acknowledgements, each counted, since a node may send several of one stop (`heard`); `Disconnect`, `Restart` of the gateway. |
| `HumanReview` | `shared/hitl.ts`, `forwardHitlDecision` | A decision of a board is pushed on the list, published, then acknowledged; `waitForHITLDecision` races channel, `BRPOP`, terminal and the stop signal over several rounds. A decision that lost a round, or came after it, meets the next one. The reply of a `BRPOP` may be lost with what Redis took from the list (`PopLost`, kept in `dropped`), and so may the subscription. |
| `ReviewRun` | the examples' `orchestrator.ts`, review part | Extends `HumanReview` with the run around it: memoized phases, at most one revision, `endFailedRun`, crash and resume, what the board shows. The clear after a decision (`clearing`) and the one inside `endFailedRun` (`wiping`) may fail: the first is then a failed run, the second its last step. |
| `ResearchPipeline` | `src/examples/global-research/phases.ts`, `orchestrator.ts`, `context` | The searches fanned out, the draft, governance, editor, decision, revision, each memoized with a snapshot of the context; stops, failures and crashes; a phase cut by a stop whose dispatch goes on beside the end (`laggard`). Each search task has a card: DONE with a result, or an empty one, BLOCKED when its worker failed it or an emergency stop ended it there. A failing clear makes a finished run a failed one. |
| `StateStream` | `adapters/state/distributedMiddleware.ts`, `AgentStatusTracker` | A team's store whose changes become deltas of the parts that changed; publishes fail, the subscriber goes away and comes back. |

### The edges of a node (`MCEdges`)

| Module | Code | State and actions |
|---|---|---|
| `SlidingWindowBreaker` | `infrastructure/security/sliding-window-breaker.ts` | Timestamps, lazy pruning, a clock. It implements `BreakerWindow`, the count and flag `AgentActor` is modelled against, by the number of timestamps in the window. |
| `Admission` | `governance/action-gate.ts`, `policy-engine.ts`, `registry.ts`, `economics/rate-cost-limiter.ts`, `cost-reservation.ts` | An evaluation asks policy, registry and cost in order; `Consume` is one store call on one scope (global, tenant, agent; first requests, then cost), `Compensate` gives back what was taken, `StoreFails` fails closed; `Decide` takes the most severe verdict and writes the audit record. Agents are revoked and expire between. |
| `ProcessDrain` | `resilience/graceful-shutdown.ts`, `shared/process-drain.ts`, `main/gateway.ts` | Each sequence runs its steps in order against one deadline; a step may throw or hang. A worker drains all its nodes once, then flushes and exits; a gateway begins a sequence for every signal. |
| `A2AExecutor` | `infrastructure/federation/a2a-executor.ts`, `a2a-task-store.ts` | `execute` (in-flight entry, submitted, publish, wait, end) against `cancelTask`, with saves that fail with or without effect. `Save` is `emitTask`: the Task event (`reported`), then its save. `finals` are the final status updates published. |
| `McpSessions` | `infrastructure/federation/mcp-http.ts`, `mcp-server.ts` | Opening: idle sessions are closed one after another, then the limit is read, then `initialize` is awaited; `dispatch_task` asks for consent. |
| `GatewayIngress` | `adapters/gateway/GatewayApp.ts`, rate limiter, stop ingress | Limiters of routes, holders and refused attempts: a map of timestamps, swept once per window, cut to its least recent keys. |
| `KafkaMailbox` | `infrastructure/messaging/kafka-driver.ts`, `resilience/dlq-replay.ts` | `publish` with retries, `subscribe` in three awaits, `eachMessage`, offsets that go on when the handler returns, evictions, replay of dead letters, records of others on the topic. |
| `TeamTask` | `infrastructure/kaibanjs/*` | Attempts of one task as KaibanJS teams: keys asked from the provider (`AskKey`), the model built with them, calls, the abort that settles the attempt while its team is still in a call, rotation of the keys. |
| `Economics` | `economics/model-router.ts`, `cache-accounting.ts`, budgets, anomaly, price by name | Functions on one `question`; `PricesAreSound` compares them with reference definitions over all questions of the instance. |

### Mutants

Operators whose comment begins with "Mutant:" are not part of any specification:
each is one action with a plausible bug, and for every property there is one
that breaks it (`PROJECT.json`, "mutants"). They show what each property is
sensitive to.

## 3. What the runs check

| Run | Question | Answer |
|---|---|---|
| `ActorStops` | Do stops, a drain, timeouts that may be retried and a breaker that opens leave the actor consistent? | The actor implements `StoppableWorker` (`ImplementsWorker`), each task has one verdict (of a broker that keeps nothing it rejected), the breaker counts only tasks that timed out or used up their attempts, every delivery settles, `stop()` returns. |
| `ActorRedelivery` | And when the broker redelivers and a publish may be stored yet reject? | Nothing is acknowledged without a trace; stops are reported exactly; a late or older stop releases nothing. |
| `ActorPublishFails` | Is a task whose handler succeeded kept from running again? | No (finding 1). |
| `Router` | Two calls for one task, a fan-in under a stop, subscribes that fail, results lost, late and doubled. | Whoever waits is known and listened for, every wait settles, a stop ends the fan-in. |
| `RouterReusedTask` | Does an abort reject a wait whose task id was waited for before under the same signal? | No (finding 2). |
| `Orchestrator` | Three calls on two steps, two of them with one task, outside spend, a clear, failing store, stop, crash. | Spend is exact (of parallel steps with one task id one is charged, `NoTaskPaidTwice`), a cleared run stays cleared, a saved step is not paid again, the cap survives the crash. |
| `OrchestratorLive` | Does every step that was called end? | Yes, unless the process dies. |
| `Control` | Two stops saved and published with failures between; a node that starts, loses its connection twice, catches up, leaves and starts again. | It implements `StoppableWorker` whichever way a stop comes (`NodesImplementWorker`), obeys what was saved before its start and what it has read since (`NodesObeySaved`), and hears all that is published while connected. |
| `ControlReconnect` | Does a reconnected node miss no published stop? | It may (finding 3). |
| `Views` | Late attempts, stops and caps of one agent; boards that connect, fall behind and reconnect; reviews with boards, terminal, stops and crashes; a research run; a lossy state stream. | The ten properties below. |
| `StateRetry` | Does the retry of a task own its card? | No (finding 4). |

`Views` (590,740 states):

| Property | Says |
|---|---|
| `EverySpentTokenCounts` | The tallies the caps are compared with hold every token spent, also of late, failed and capped attempts, once. |
| `StoppedIsShown` | A task whose last attempt an emergency stop ended is shown STOPPED, also when the bounded memory of reports has forgotten it. |
| `LateEndKeepsTheAgent` | The end of a replaced attempt leaves the agent's row to the newer one. |
| `BoardsAreTruthful` | A board with nothing on its way shows the gateway's snapshot (it is asked of those states only, and `Deliver` leads to one from any other); the acknowledgements shown for a stop are all those received of that stop and none of another (not the number of nodes, `AcksCountNodes`). |
| `OnlyApprovedIsPublished` | A draft is published only by a decision of its own review; a late, repeated or left-over one never publishes the revised draft. |
| `NoPendingReviewUnlessResumed` | After the run the board shows no pending decision, unless the run was resumed after a crash. |
| `AckedDecisionEndsTheWait` | A decision acknowledged while the review waited ends the wait (leads-to), unless the reply that brought it was lost (`AckedDecisionIsRecoverable`). |
| `RunKeepsItsBooks` | Over crashes and resumes the totals are what the results the run goes on with have cost; nothing is dispatched at the cap, nothing is written without a search result, and a report that governance rejected is not published. |
| `StopEndsTheRun` | A stop ends the run STOPPED and reports no phase as failed, but for two gaps of the code (section 5); a search task is BLOCKED only beside one with a result (`StoppedSearchNotBlocked`). |
| `StreamHeals` | A lost delta costs no more than its parts, until they change again. |

`Edges` (745,612 states):

| Property | Says |
|---|---|
| `ImplementsWindow` | The breaker class implements `BreakerWindow`: it opens at the threshold and closes only when fewer are left in the window (`StaysOpenForTheWindow`). |
| `BudgetsHold` | What is reserved fits every scope, and what is refused over budget is given back; a store error leaves what it took. |
| `GateFailsClosed` | What passes was asked of every validator, none refused or failed, and is in the audit log once. |
| `ExitIsHonest` | Exit code 0 means every step ended without an error; no node is cut off before its deadline. |
| `DrainExits` | A drain that began ends the process, whichever steps throw or hang (leads-to). |
| `OneEndPerTask` | One execution at a time, which its cancel finds; an execution cut by a cancel publishes no end of its own, neither as a Task event nor as a final update, and no execution publishes two final updates. |
| `SessionsAreSafe` | Sessions above the limit are those admitted beside another open; nothing is dispatched without the consent of its client. |
| `LimitsAreOwn` | A limit counts what it let in, all of it and nobody else's, over sweeps and evictions. |
| `OffsetsAreHonest` | The group is past a task only when its handler returned; a consumer is started once per connection, whatever start is retried. |
| `AttemptsAreClean` | An attempt works with the keys of its provider, begins no call after its abort, and reports its own usage. |
| `PricesAreSound` | Routing, caps, cache accounting, anomaly and price by name agree with their reference definitions. |

All runs allow the system to stop (`CHECK_DEADLOCK FALSE`): tasks, calls, results
and crashes are finite in an instance, so a run ends when they are used up. That
nobody is left waiting is what the liveness properties say.

### Findings

1. `AgentActor.ts:340`: the completion publish is inside the attempt's `try`, so a
   publish that rejects is retried by running the handler again, and after the
   last attempt the task is dead-lettered although it succeeded. The roadmap
   lists this defect (`docs/roadmap/V2.1-ROADMAP.md:796`).
2. `completion-router.ts:199`: the abort listener of a settled wait stays on its
   signal; on abort it clears the entry of a later wait of the same task id,
   whose promise then never settles (line 178: "aborting rejects the wait and
   cleans up").
3. `control-channel.ts:225`: after a reconnect the saved stop is read at once, on
   the reader's connection, while the SUBSCRIBE is on its way on the other one. A
   stop saved and published between the two is neither read nor received until
   the next reconnect. `start()` awaits the subscribe first and has no such gap.
   ES-3 (`docs/roadmap/V2.1-ROADMAP.md:696-698`) says a node that missed the
   message still refuses the tasks sent before the stop.
4. `agent-state-publisher.ts:527`: `publishSupersededFailure` asks only whether the
   agent works on the same task now. When the retry has already ended, the late
   handler publishes BLOCKED over its DONE card; line 522 says the retry owns the
   card and nothing is published.

### Comments the code does not keep

Eight properties state a comment of the source that the code contradicts at a smaller
scale than the findings. Each has a cfg of its own, beside the runs, in which TLC finds the
trace within seconds: `tlc -config <cfg> <module>.tla`.

| Config, module | Property | The code | The comment |
|---|---|---|---|
| `BoardAcks`, `BoardView` | `AcksCountNodes` | A node acknowledges the live message of a stop, and the saved one of the same command too when that killed a task, once per agent (`emergency-stop.ts:74-90`); the gateway adds one for each (`SocketGateway.ts:207-210`). | "how many nodes acknowledged" (`src/board/src/components/control/EmergencyStopBanner.tsx:9`) |
| `ReviewReply`, `ReviewRun` | `AckedDecisionIsRecoverable` | `BRPOP` removes the decision before its reply is sent (`hitl.ts:142`); a connection lost in between loses it, and the wait goes on when the channel did not bring it either. | "always recoverable via BRPOP" (`SocketGateway.ts:348-351`) |
| `ReviewClear`, `ReviewRun` | `PublishedReviewStays` | A `clear()` that rejects after a published decision (`src/examples/global-research/orchestrator.ts:190`) goes to `endFailedRun`, which shows the FINISHED run STOPPED and turns its review's card from DONE to STOPPED: a decision does not reset `pendingReviewTaskId`. | "waiting for a human decision, if any" (`state-publisher.ts:98`) |
| `SearchStopped`, `ResearchPipeline` | `StoppedSearchNotBlocked` | `searchPhaseComplete` knows errors only: when a worker's emergency stop ended one search and another has a result, the stopped task is published BLOCKED (`phases.ts:126`). | "must not re-publish the task as BLOCKED" (`phases.ts:45-47`) |
| `BreakerCloses`, `SlidingWindowBreaker` | `StaysOpenForTheWindow` | The breaker closes when fewer than `threshold` failures remain in the window (lines 41, 62). | "remains open until the window duration passes without new failures" (lines 10-11) |
| `CancelAtTheEnd`, `A2AExecutor` | `CancelIsTheOnlyEnd` | A cancel that comes while the end is being saved finds the entry, and both publish their end (`a2a-executor.ts:123`). | "do not double-emit" (line 128) |
| `KafkaConnect`, `KafkaMailbox` | `ConnectsDisconnected` | A `consumer.subscribe` that fails (`kafka-driver.ts:159`) leaves the consumer connected with no topic set, and the next `subscribe()` connects it again. | "always disconnected at this point" (lines 147-149) |
| `SessionsOpen`, `McpSessions` | `LiveSessionsAtMost` | Sessions are counted before an await and added after it (`mcp-http.ts:144`): opens that overlap pass the limit together. | "Live sessions at most" (line 37) |

### Bounds, and why they are enough

- Actor: two addressed tasks and one for another agent, two stop moments, one
  covering the first task only and one both. Two tasks are what a stop needs to
  cover one and spare the other, and what a breaker needs to be opened by one
  and refuse the other. The third shares the mailbox. `RetryAttempts` 3 (2 where
  redelivery multiplies the states) has a first, a middle and a last attempt.
  `MaxRedeliveries` 1 is a second pass over a delivery whose first one may have
  left a record. `Concurrency` 2 in `ActorStops` lets handlers overlap;
  `ActorRedelivery` uses the 1 of the BullMQ and Kafka drivers.
- Router: two calls for one task and a fan-in of two; one result per task, which
  meets every state a wait can be in. A second result for a task finds no waiter
  and is dropped like one that came after the timeout.
- Orchestrator: two steps, a retry of the first whose dispatch resolves with the
  task of the second, one clear, one outside spend, one crash; the cap is what
  two tasks cost. `OrchestratorLive` leaves the outside spend away.
- Control: one node, since nodes share only the queue and the saved key and every
  property is about one of them - to a node, what the others end is `Settle` (the theorems
  hold for any number, and two nodes with one lost connection and one departure, six
  million states, were checked once); two tasks,
  one covered by both stops and one by the later only; two lost connections, so
  that two catch-up loops overlap; two departures, so that it starts three times.
- Views. Agent: two tasks and three attempts, so that a late attempt meets a retry
  of its own task and an attempt of the other; caps of 3 and 2 tokens are reached
  by the second use; `MaxStops` 1 forgets the
  first of two reported stops, `MaxTracked` 2 keeps both tallies. Board: one board, one card, three
  inputs, two nodes acknowledging two stops, two connections. Review: two
  reviews, two waits, one board decision, which may be late or repeated by the list
  and the channel; two phases before it and two processes. Research: two searchers,
  so that results come in either order; two runs, one crash between; costs up to 1
  against a cap of 4. Stream: one member, one job, two changes, one absence.
- Edges. Breaker: a window of 3 with 4 failures against a threshold of 2 in 10
  ticks: it opens, closes and opens again. Admission: two evaluations of costs 1
  and 2 that share every scope, limits of 2 requests, 2 points and 3, so that one fits below another's
  scope and not above. Drain: two sequences of three steps, two signals. A2A: two
  requests and two cancels for one task. MCP: three clients at a limit of 1, so
  that two pass it together; idle after 1 of 2 ticks. Ingress: two addresses, two
  holders, four requests in three moments, a map of one key that evicts. Kafka: two
  tasks and a foreign record, two sends, three records, two failures. Team: two
  attempts of two calls, one rotation.
- The eight configs about comments take the least in which the case happens: one board and
  two nodes; the reviews of `Views`; two searchers in one run; the breaker of `Edges`; one
  request and one cancel; one task and one failure; two clients at a limit of one.

### Fairness

- Actor: `WF` on each delivery's own steps except the handler's (`RuntimeStep`):
  timers fire, promises continue, guards and publishes answer one way or the
  other. A handler may hang for ever. `WF` on `Unsubscribed`: the driver's close
  resolves when its tasks are done. None on deliveries, redeliveries, stops.
- Router: `WF` on each call's timer and on the continuation of `waitAll`. None on
  workers, the broker, subscribes, callers or signals: a wait settles without them.
- Orchestrator: `WF` on each step under way (its dispatch answers, the router's
  timer ends its wait) and on the store's answers. Crashes, clears and calls are
  free.
- Control: Redis comes back (`Reconnect`, `Subscribed`), a catch-up read is retried
  until it succeeds, messages on a live connection are handled. None on gateways:
  a stop that was saved and never published is caught up on, too.
- Views: `WF` on `Listens`: the wait polls its list and handles what `BRPOP`
  answers. None on the channel, the terminal, people or boards.
- Edges: `WF` on `DrainGoesOn`: the deadline's timer fires and the drain's
  continuations run. Steps may hang for ever.

## 4. What is proved

Eight proof modules. Every theorem holds for any value of the constants its
module's named `ASSUME` admits (`ActorAssumption`, `ControlAssumption`,
`OrchestratorAssumption`, ...), any further hypothesis is named in its statement.
Every safety invariant and action property of the passing runs but one is proved.

`AgentActorProofs.tla`, for any set of deliveries, any timestamps, stop moments,
retry limit, threshold, concurrency and number of redeliveries:

| Theorem | Says |
|---|---|
| `TypeCorrect` | `TypeOK` is invariant |
| `ActorIsWorker` | the actor implements `StoppableWorker` (`ImplementsWorker`) |
| `ActorObeysStops` | `StopIsObeyed` of the worker it implements is invariant |
| `StoppedWorkIsOver` | `StoppedWorkNeverRuns` is invariant |
| `StopsLast` | `StopsAreForever` holds of every step |
| `StopsAreAccounted` | `StopsReportedExactly` is invariant |
| `NothingIsDropped` | `NothingSilentlyDropped` is invariant |
| `VerdictIsUnique` | `OneVerdict` is invariant |
| `OnlyFailuresCount` | `OnlyFailedTasksCounted` is invariant, for finitely many deliveries |

The argument. `TypeOK` is not inductive: nothing in it keeps `attempt[d]` within
`RetryAttempts` when a loop begins another attempt, so `Typed` adds `AttemptsLeft`
(a delivery about to begin an attempt has one left). The other invariants speak
about what each kind of step does to a delivery's stage and records, not about
which action did it, so `NextMoves` first reduces every action to one of seven
shapes (`Ignored`, `Proceeds`, `GivenUp`, `Completed`, `DeadLettered`, `Rejected`,
`Requeued`) or to a background step that settles nothing. `StopsReportedExactly`
and `NothingSilentlyDropped` follow from `Accounts`: a delivery about to be
dead-lettered has its fault decided, a fault or record that says
`emergency_stop` is covered by the stop - for ever, since `stoppedAt` only grows -
and a delivery acknowledged has its trace, over redeliveries too. `OneVerdict` needs
`VerdictsAreLast`: while publishes reject only what the broker did not store, a
delivery with a verdict is acknowledged and never moves again. `OnlyFailuresCount`
counts passes over deliveries as the elements of a finite set (`Units`), so that a step which
adds a failure adds an element and no induction is needed; `Undecided` (a delivery still
under way has no fault) makes the pass that adds one a new one.

`ActorIsWorker` is a step simulation. `WorkerMove` says what any step of one delivery is to
a worker - what is over stays over, a handler starts only where no stop and no drain
forbids it, a fault that blames a stop has one that covers the task - and
`DeliverySimulates` maps it to `Run`, `Return` or `Settle` by what it does to `InFlight`.
The invariant it needs, `WorkerInv`, adds three facts that the state alone does not
show: a delivery under way has no fault (`Undecided`), the drain and the subscription
go together and nothing is taken before the start (`DrainIsKnown`), and an
`emergency_stop` fault is covered for ever (`StoppedIsCovered`). The last is what makes a
redelivery harmless: a task that a stop ended comes back from the broker, but to `Run` it
again would need a stop that no longer covers it.

`ControlChannelProofs.tla`, for any nodes, tasks, timestamps and stop moments and any
number of lost connections and departures:

| Theorem | Says |
|---|---|
| `ControlTypeCorrect` | `TypeOK` is invariant |
| `StartersAreBound` | `SavedStopBindsStarters` is invariant |
| `SavedCoversPublished` | `PublishedIsSaved` is invariant |
| `SteadyNodesMissNothing` | `SteadyNodesHearEverything` is invariant |
| `CaughtUpNodesObey` | `CaughtUpNodesObeySaved` is invariant |
| `NodesObey` | `NodesObeySaved`, the two together, is invariant |
| `NodesAreWorkers` | every node implements `StoppableWorker` (`NodesImplementWorker`) |
| `EachNodeIsWorker` | `Worker(n)!Spec` holds of every node n |
| `NodesObeyStops` | `StopIsObeyed` of every node's worker is invariant |

The inductive invariant `Inv` is one predicate on a node's state, `Informed`, for all
nodes: what runs is not covered by `stoppedAt`, only a started node runs
anything, the histories lie below the saved stop, a node that was never cut off
is subscribed from `reading` on and knows or holds each published stop. It needs
`PublishedIsSaved`: a read is as good as every message published before it.
`LoopsCounted` bounds the catch-up loops by the connections lost. `OneNodeMoves`
reduces a node's step to its new state; `StopArrives` and `SavedStopArrives` do so
for the steps that end in `onStop`.

`NodesAreWorkers` needs one invariant more, `Apart`: no task runs at two nodes, and none
that is over runs. `Moves(n)` is what the others see of a step of node n: what it ends ran
there or nowhere, so to each other node it is `Settle` (`OthersSettle`). To node n itself
it is a stop or nothing (`StopIsWorkerStop`), a replacement (`ReplacedNode`), the run or
return of a task (`TaskSimulates`), or nothing (`UntouchedNode`). The theorem states
`Worker(n)!Init` and, of every step, `Worker(n)!Next` or a stutter for all nodes at once,
the form in which TLC accepts the property; `EachNodeIsWorker` concludes `Worker(n)!Spec`.

`CompletionRouterProofs.tla`, for any calls, tasks and signals: `RouterTypeCorrect`,
`FanInStopped` (`FanInEndsWithItsStop`) and `PendingIsServed` (`WaitersAreServed`). The
last is stated under `SignalledOnce`: no task that is waited for under a signal is
waited for by another call, which is what finding 2 makes necessary. The
invariant adds: every entry belongs to a call that waits for its task
(`EntriesWait`), a call settled as aborted had its signal fire (`AbortedBySignal`), a
`waitAll` that returned has every call settled (`ReturnedIsSettled`).

`WorkflowOrchestratorProofs.tla`, for any steps, calls, clears and crashes:
`OrchestratorTypeCorrect`, `ClearIsFinal` (`ClearedRunStaysCleared`), `SpendStaysExact`
(`SpendIsExact`), `NotPaidAgain` (`SavedStepNotPaidAgain`) and `CapIsKept`
(`CapSurvivesRestart`). What is under way is described by `ChainIsSound` (what runs is
the head of the save chain, and every clear in the chain has a generation left),
`LoadIsSound` (the store is written after the load, and a load that a clear overtook is
not applied), `KnowsTheStore` (until a clear, a loaded instance knows every step and all
spend the store holds), `CapIsNoticed` and `LateSteps` (checkpoints after a clear hold
only steps called after it). That the saved spend covers the saved steps needs `Paid`:
the totals cover what the loaded checkpoint holds, a task joins a checkpoint with its
cost in the same turn, and a record being saved was covered when it was taken. That no
task of a checkpoint is paid twice needs no more than the router's refusal of a second
wait and the look at the checkpoint before it, but of every other step that it neither
begins a wait nor adds a task to the checkpoint of one that waits (`NotedTask`,
`OncePaidByTheRest`). The cost of tasks is the cardinality of a set of units, finite
because the steps are.

`EdgeProofs.tla`, `BudgetProofs.tla` (the parts of `Edges`), `StateProofs.tla` and
`RunProofs.tla` (the parts of `Views`), each theorem for every value of the suite's
constants under the hypothesis named beside it:

| Theorem | Says | Hypothesis |
|---|---|---|
| `BreakerRefines` | the sliding window implements `BreakerWindow` (`ImplementsWindow`) | `BreakerSane` |
| `BudgetsStayHeld`, `GateStaysClosed` | `BudgetsHold`, `GateFailsClosed` | `GateSane` |
| `PreferenceIsOrder` | the router's preference is a strict order, total on different ids: the order of the candidates cannot matter | whole numbers |
| `SavingsAddUp` | `CacheSavingsAddUp`, of `PricesAreSound`, for any token counts and prices | whole numbers, a discount of 0, a half or 1 |
| `DrainTypeCorrect`, `ExitTellsTheTruth` | `ExitIsHonest` | `DrainSane` |
| `ExecutorTypeCorrect`, `TaskHasOneEnd` | `OneEndPerTask` | `CallsDiffer` |
| `SessionsTypeCorrect`, `SessionsStaySafe` | `SessionsAreSafe` | `SessionsSane` |
| `IngressTypeCorrect`, `LimitsStayOwn` | `LimitsAreOwn` | `IngressSane` |
| `MailboxTypeCorrect`, `MailboxIsHonest` | `OffsetsAreHonest` | `MailboxSane` |
| `AttemptsTypeCorrect`, `AttemptsStayClean` | `AttemptsAreClean` | `TeamSane` |
| `AgentTypeCorrect`, `EverySpentTokenIsCounted` | `EverySpentTokenCounts` | `AgentSane` |
| `StoppedStaysShown`, `LateEndLeavesTheAgent` | `StoppedIsShown`; the action property `LateEndKeepsTheAgent` | `AgentSane` |
| `BoardTypeCorrect`, `BoardsStayTruthful` | `BoardsAreTruthful` | `BoardSane` |
| `StreamTypeCorrect`, `StreamAlwaysHeals` | `StreamHeals` | `StreamSane` |
| `ReviewTypeCorrect`, `OnlyTheApprovedIsPublished`, `NothingPendsAfterTheRun` | `OnlyApprovedIsPublished`, `NoPendingReviewUnlessResumed` | `ReviewSane` |
| `PipelineTypeCorrect`, `BooksStayKept`, `StopsEndTheRun` | `RunKeepsItsBooks`, `StopEndsTheRun` | `PipelineSane` |

The hypotheses say that bounds, limits and costs are numbers, that the clients,
evaluations, nodes and tasks of a behaviour are finitely many, that a value for nobody is
nobody, and what the constructors insist on (a threshold, a window, a send, a step,
a searcher and a budget of at least one). `GateSane` adds that the scopes'
keys differ: each scope is a limiter with a `keyPrefix` of its own, so a tenant never
shares a key with an agent. The instances of `Views` and `Edges` satisfy all of them.
`WorkRunsAlone`, `GateRunsAlone` and `ViewsRunAlone` carry a component's invariant to
the suite: its specification holds of the behaviours that chose it, and in the
others its variables stay as they began.

What each inductive invariant adds to its property, and why:

- Breaker: failures are numbered and not from the future, so that a new one is a new
  element of the set and the count in the window grows by exactly one.
- Admission: `BudgetsHold` compares sums over evaluations with what the store holds,
  so every evaluation is described exactly: `TakenInOrder` (what it took is a first
  part of its scopes, or while it gives back, those without the one that refused) and
  `PointsAreHeld` (a scope's counter is what is granted of it and charged to it, and
  more only after a store error; what is granted is within the limit). The sums are
  cardinalities of sets of points, so adding one evaluation is `FS_Union` and needs no
  induction. `GateFailsClosed` needs `WorstIsWorst` (the verdict kept is no milder than any
  heard) and `LoggedOnce`.
- Drain: the result of a sequence is followed from its steps (`CleanIsClean`) through
  the drain (`NotYet`) to the flush (`FlushIsLast`) and the exit code (`CleanExit`).
- A2A: the in-flight entry belongs to the one execution that runs, an execution that a
  cancel cut unwinds, a lost save is known to be lost, and an end goes out as a Task event
  before it does as a final update (`EndIsReported`).
- MCP: a session that is registered, or looked at by the idle loop, has finished opening
  (`SessionsAreOver`); consent is asked only of clients that can give it.
- Ingress: the Map and the history agree on the current window: what is remembered was
  let in, and unless the key was evicted all that was let in is remembered.
- Kafka: a started consumer is connected and has its topic set (`StartedIsWired`), which
  is what refuses the second subscribe; the delivered record is the first the group is
  not past.
- Team: a key asked for is the provider's of a moment after `Begin` (`FreshKeys`), a team
  runs exactly while its attempt is built (`OneTeam`), and an attempt begins when those
  before it have settled (`BeginsAfter`).
- Agent: only the last attempt can run (`OneRuns`), the stop still to be reported is its
  (`OwedIsLast`), and a remembered stop stays on the card unless an attempt beside or
  after it had the right to write there (`RememberedIsShown`). The tallies are the
  cardinality of the tokens spent, one entry per task.
- Board: the messages on their way to a board, merged one by one into what it shows, end in
  the snapshot (`Reaches`, by the views in between); an acknowledgement is never of a
  newer stop than the gateway knows (`AcksAreKnown`), and the count is the length of what
  was heard of that stop, however often one node is in it. Each step of the gateway changes
  snapshot and board alike (`DeltaIsShown`, `NoticeIsShown`), and a snapshot settles a board
  that starts fresh as well as one that is up to date (`SnapshotSettles`).
- Stream: of the deltas on their way the last with a part decides, and it is the store's.
- Review: what lies in a task's list was sent for that task (`OnItsList`), what ended a
  wait was sent for its task (`DecidedBySends`), and a wait is about the draft at hand
  (`RoundInv`): this is why a decision that comes late, or twice, by list and channel
  publishes nothing else. A lost reply (`dropped`) was a send like any other, and a clear
  leaves what the review decided.
- Research: the totals are what the results of the phases so far have cost, phase by
  phase (`Checkpoint`, `Going`), and the cards of the phases are clean of BLOCKED
  while the run goes on and after a stop (`OnBoard`). Each search task has answered at most
  once (`Once`), so its card says how it ended, and a result keeps its card DONE
  (`SearchCards`).

A proof that failed found an error of the model: in `ResearchPipeline`, the last search
answer of a run in which no search had a result was written twice in one step (once as
received, once as forgotten by `endFailedRun`), so the step could not happen and that
end of the run was never explored. It is now a case of its own, and `Views` checks it.

Only model-checked: the liveness properties (fairness and ENABLED are beyond the
prover), and of `PricesAreSound` what folds over sequences and sets: that `pickBest`
finds the candidate that `PreferenceIsOrder` makes unique, the longest key of a name,
the sums of `CapsStay` and `AnomaliesStandOut`. They would need an induction over data.

## 5. What is not modelled

- Secure memory store: a map with TTL and trust checks, sequential, used by nothing
  else in the repository. Dispatch and RPC: one publish with a fresh id, one HTTP
  request. Security adapters: stateless judgements of one message, signature or
  token; the modelled parts let them answer anything. Configuration, wiring and
  entry points: no state that changes.
- The BullMQ and AMQP drivers, beyond what they promise the actor and the router: a
  message is delivered at least once, a publish that rejects may have been stored,
  closing waits for active tasks.
- The hash chain of the audit log (appends are sequential in one process), the end
  of a budget window and `release()` (nobody calls it), `effectiveCacheHitRate`, the
  texts of results, errors and prompts.

### Observations

Met while modelling; where a property has an exception for one, its comment says so.

- Admission: a store error leaves the points taken from the earlier scopes, so
  "no partial reservation leaks" (`docs/economics/ECONOMICS.md:42`, ADR-019) holds of
  refusals only. A task that the policy refuses still reserves its cost.
  `buildWorkerAdmissionGate` wires policy and cost only, not the registry.
- Drain: a SIGTERM before registration is swallowed when telemetry listens
  (`telemetry.ts:83`) and kills the process when it does not. A node registered after
  the drain began is not drained.
- Actor: a completion publish that rejects on the last attempt counts as a breaker
  failure (`AgentActor.ts:340`, `369`), just after `recordSuccess` was called for its
  handler: a broker that refuses completions opens the breakers of healthy agents.
- A2A: a failed reply to a save makes an execution that completed publish failed, and
  with a cancel at that moment both (`CancelIsTheOnlyEnd`); `a2a-executor.ts:20-22` says a terminal
  task is never regressed.
- Kafka: a `consumer.run` that fails leaves the topic set, and the retry of the same
  subscribe is refused. (For one that fails earlier see `ConnectsDisconnected`.)
- Research run: a search phase cut while it dispatches publishes RUNNING after
  STOPPED (`phases.ts:41-45` says otherwise); with `AUTO_PUBLISH` a stop that lands while
  the editor's result is saved is not noticed; the spend of results that were not
  memoized is forgotten by a crash; a governance verdict UNKNOWN passes.
  When a worker's stop ended every search, the phase throws a general error ("All searcher
  tasks failed"): the run is logged FAILED and keeps its checkpoint. A clear that fails
  after a decision may leave the checkpoint, and the next run then asks for a decision on
  the report that was published.
- Review: a decision carries its task and not its round, so one left over from an earlier
  round decides the next round of the same task.
- Team task: the usage of an attempt that was aborted or ended in an error is not
  reported.
- Orchestrator: of two parallel steps with one task id the second is refused by the
  router; the header (line 15) says it reuses the first result
  (`SecondStepReusesResult` states it). Nothing is charged twice by that
  (`NoTaskPaidTwice`): the refused step rejects, and its retry finds the result.

### What could come next

1. A task-delivery contract (a task that was accepted gets a verdict someone can wait
   for) as an abstract specification, with dispatch, a broker with stalled jobs, the
   actor and the router composed under it.
2. Theorems about what a step may change (action properties) where only states are
   spoken of now: what a redelivery may undo, what a restart of the gateway may forget.
3. The task of `CompletionRouter` as what `WorkflowOrchestrator` waits for: the outcomes of
   a wait are free there, and could be the router's.

## 6. Reproducing

`tlc -config <run>.cfg <module>.tla` with the pairs of `PROJECT.json` "runs". The
longest run, `ActorRedelivery`, has over eight million states and takes two to three minutes.
`tlapm <module>.tla` proves the eight `*Proofs` modules: `AgentActorProofs`,
`ControlChannelProofs`, `CompletionRouterProofs` and `WorkflowOrchestratorProofs` in about a
minute each or less, `EdgeProofs`, `BudgetProofs`, `StateProofs` and `RunProofs` in three
to seven minutes each.
