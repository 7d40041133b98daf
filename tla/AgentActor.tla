------------------------------ MODULE AgentActor ------------------------------
(* One worker's actor, src/src/application/actor/AgentActor.ts, between the   *)
(* broker that delivers its tasks and the handler that runs them: the guards  *)
(* before a task, the attempts and the back-off between them, the completion  *)
(* and dead-letter publishes, the emergency stop and the graceful stop.       *)
(*                                                                            *)
(* A step is a run of the event loop between two awaits: whatever processTask *)
(* does up to its next await is one action.  The circuit breaker is the       *)
(* counting one of BreakerWindow; SlidingWindowBreaker shows that the class   *)
(* with its clock implements it.                                              *)
EXTENDS Integers, FiniteSets

CONSTANTS
    Deliveries,       \* deliveries of task messages to this actor's mailbox
    Addressed,        \* those whose agentId is this actor's id or "*"
    SentAt,           \* the timestamp each one carries (epoch ms, any clock)
    StopTimes,        \* the moments the emergency stops that may arrive carry
    RetryAttempts,    \* RETRY_ATTEMPTS
    RetryOnTimeout,   \* the retryOnTimeout option
    Threshold,        \* failures in the window that open the breaker
    Concurrency,      \* tasks the driver hands over at once (BullMQ, Kafka: 1)
    LostAcks,         \* may a publish that reached the broker still reject?
    MaxRedeliveries   \* bound: times the broker redelivers a rejected delivery

ASSUME ActorAssumption ==
    /\ Addressed \subseteq Deliveries
    /\ SentAt \in [Deliveries -> Nat]
    /\ StopTimes \subseteq Nat
    /\ RetryAttempts \in Nat \ {0}
    /\ Threshold \in Nat \ {0}
    /\ Concurrency \in Nat \ {0}
    /\ MaxRedeliveries \in Nat
    /\ RetryOnTimeout \in BOOLEAN
    /\ LostAcks \in BOOLEAN

VARIABLES
    pc,            \* where each delivery is in processTask
    attempt,       \* the loop counter of executeWithRetries
    fault,         \* the error its dead-letter record carries, once decided
    completed,     \* deliveries with a completion on kaiban-events-completed
    deadLetters,   \* <<delivery, error>> records on kaiban-events-failed
    reported,      \* deliveries onEmergencyStop was called for
    failures,      \* the circuit breaker: failures in its window,
    opened,        \*   and its flag
    stoppedAt,     \* the latest emergency stop, NeverStopped until the first
    stopping,      \* set by stop()
    subscription,  \* of the driver to this mailbox
    redeliveries   \* times the broker gave each delivery back

vars == <<pc, attempt, fault, completed, deadLetters, reported, failures,
          opened, stoppedAt, stopping, subscription, redeliveries>>

outcomeVars == <<completed, deadLetters, reported>>
breakerVars == <<failures, opened>>
controlVars == <<stoppedAt, stopping, subscription>>

-----------------------------------------------------------------------------
NeverStopped == -1
None         == "none"

Breaker == INSTANCE BreakerWindow

Stages == {"queued", "firewall", "gate", "attempt", "running", "publishing",
           "backoff", "dlq", "acked", "rejected"}

\* Deliveries the broker holds or has settled; the others are in processTask.
Settled == {"acked", "rejected"}
Active  == {d \in Deliveries : pc[d] \notin Settled \cup {"queued"}}

\* inFlight: the running handlers, by abort controller.
InFlight == {d \in Deliveries : pc[d] = "running"}

GuardRefusals == {"circuit_breaker_open", "blocked_by_semantic_firewall",
                  "blocked_by_admission_gate"}
Stops  == {"emergency_stop", "actor_stopped"}

\* What rejected the last attempt: lastError, once the attempts are used up.
LastErrors == {"handler_error", "publish_error"}

Faults == {None, "task_timeout", "budget_exceeded"}
            \cup LastErrors \cup GuardRefusals \cup Stops

\* The endings recordFailure is called for.
CountedFaults == LastErrors \cup {"task_timeout"}

SentBeforeStop(d) == SentAt[d] <= stoppedAt

\* Why no attempt of d may start: an emergency stop first, then a drain.
Interruption(d) == IF SentBeforeStop(d) THEN "emergency_stop"
                   ELSE IF stopping THEN "actor_stopped" ELSE None

MoveTo(d, stage)   == pc' = [pc EXCEPT ![d] = stage]
DeadLetter(d, why) == /\ MoveTo(d, "dlq")
                      /\ fault' = [fault EXCEPT ![d] = why]

-----------------------------------------------------------------------------
Init ==
    /\ pc = [d \in Deliveries |-> "queued"]
    /\ attempt = [d \in Deliveries |-> 0]
    /\ fault = [d \in Deliveries |-> None]
    /\ completed = {} /\ deadLetters = {} /\ reported = {}
    /\ Breaker!Closed
    /\ stoppedAt = NeverStopped /\ stopping = FALSE
    /\ subscription = "none"
    /\ redeliveries = [d \in Deliveries |-> 0]

Start ==
    /\ subscription = "none"
    /\ subscription' = "open"
    /\ UNCHANGED <<pc, attempt, fault, outcomeVars, breakerVars, stoppedAt, stopping,
                   redeliveries>>

\* The driver calls processTask, while draining too: a fetch may be under way
\* when unsubscribe is called.
Delivered(d) ==
    /\ subscription \in {"open", "closing"}
    /\ pc[d] = "queued"
    /\ Cardinality(Active) < Concurrency
    /\ attempt' = [attempt EXCEPT ![d] = 0]
    /\ UNCHANGED <<outcomeVars, controlVars, redeliveries>>

Ignore(d) ==
    /\ Delivered(d)
    /\ d \notin Addressed
    /\ MoveTo(d, "acked")
    /\ UNCHANGED <<fault, breakerVars>>

\* Mutant: the early return without publishToDlq.
RefuseInterruptedSilently(d) ==
    /\ Delivered(d)
    /\ d \in Addressed
    /\ Interruption(d) # None
    /\ MoveTo(d, "acked")
    /\ UNCHANGED <<fault, breakerVars>>

RefuseInterrupted(d) ==
    /\ Delivered(d)
    /\ d \in Addressed
    /\ Interruption(d) # None
    /\ DeadLetter(d, Interruption(d))
    /\ UNCHANGED breakerVars

RefuseByBreaker(d) ==
    /\ Delivered(d)
    /\ d \in Addressed
    /\ Interruption(d) = None
    /\ Breaker!StillOpen
    /\ Breaker!Refresh
    /\ DeadLetter(d, "circuit_breaker_open")

Admit(d) ==
    /\ Delivered(d)
    /\ d \in Addressed
    /\ Interruption(d) = None
    /\ ~Breaker!StillOpen
    /\ Breaker!Refresh
    /\ MoveTo(d, "firewall")
    /\ fault' = [fault EXCEPT ![d] = None]

\* A guard answers: it lets d pass, blocks it, or throws (processTask rejects).
\* An absent guard is one that always lets d pass.
GuardAnswers(d, guard, next, refusal) ==
    /\ pc[d] = guard
    /\ \/ MoveTo(d, next) /\ UNCHANGED fault
       \/ DeadLetter(d, refusal)
       \/ MoveTo(d, "rejected") /\ UNCHANGED fault
    /\ UNCHANGED <<attempt, outcomeVars, breakerVars, controlVars, redeliveries>>

FirewallAnswers(d) ==
    GuardAnswers(d, "firewall", "gate", "blocked_by_semantic_firewall")
GateAnswers(d) ==
    GuardAnswers(d, "gate", "attempt", "blocked_by_admission_gate")

-----------------------------------------------------------------------------
\* Mutant: the loop calls the handler without looking for a stop.
BeginAttemptUnchecked(d) ==
    /\ pc[d] = "attempt"
    /\ MoveTo(d, "running")
    /\ attempt' = [attempt EXCEPT ![d] = @ + 1]
    /\ UNCHANGED <<fault, outcomeVars, breakerVars, controlVars, redeliveries>>

\* executeWithRetries: the loop head looks for a stop, then calls the handler.
BeginAttempt(d) ==
    /\ pc[d] = "attempt"
    /\ IF Interruption(d) # None
       THEN DeadLetter(d, Interruption(d)) /\ UNCHANGED attempt
       ELSE /\ MoveTo(d, "running")
            /\ attempt' = [attempt EXCEPT ![d] = @ + 1]
            /\ UNCHANGED fault
    /\ UNCHANGED <<outcomeVars, breakerVars, controlVars, redeliveries>>

\* finalError: what ends the task on this attempt, None when it may run again.
FinalError(d, err) ==
    IF err = "budget_exceeded" THEN err
    ELSE IF err = "task_timeout"
         THEN IF RetryOnTimeout /\ Interruption(d) = None
                    /\ attempt[d] < RetryAttempts
              THEN None ELSE err
    ELSE Interruption(d)

\* Mutant: recordFailure for every error that ends the task.
AttemptFailsCountingAll(d, err) ==
    LET final == FinalError(d, err) IN
    \/ /\ final # None
       /\ DeadLetter(d, final)
       /\ Breaker!RecordFailure
    \/ /\ final = None
       /\ attempt[d] < RetryAttempts
       /\ MoveTo(d, "backoff")
       /\ UNCHANGED <<fault, breakerVars>>
    \/ /\ final = None
       /\ attempt[d] = RetryAttempts
       /\ DeadLetter(d, err)
       /\ Breaker!RecordFailure

\* The catch of executeWithRetries, and what follows the loop.
AttemptFails(d, err) ==
    LET final == FinalError(d, err) IN
    \/ /\ final # None
       /\ DeadLetter(d, final)
       /\ IF final = "task_timeout" THEN Breaker!RecordFailure
                                    ELSE UNCHANGED breakerVars
    \/ /\ final = None
       /\ attempt[d] < RetryAttempts
       /\ MoveTo(d, "backoff")
       /\ UNCHANGED <<fault, breakerVars>>
    \/ /\ final = None
       /\ attempt[d] = RetryAttempts
       /\ DeadLetter(d, err)
       /\ Breaker!RecordFailure

HandlerResolves(d) ==
    /\ d \in InFlight
    /\ MoveTo(d, "publishing")
    /\ Breaker!Refresh
    /\ UNCHANGED <<attempt, fault, outcomeVars, controlVars, redeliveries>>

\* The handler throws an ordinary error or a NonRetryableError.
HandlerThrows(d) ==
    /\ d \in InFlight
    /\ \E err \in {"handler_error", "budget_exceeded"} : AttemptFails(d, err)
    /\ UNCHANGED <<attempt, outcomeVars, controlVars, redeliveries>>

\* Mutant: executeTask without its timer.
HandlerNeverTimesOut(d) == FALSE

HandlerTimesOut(d) ==
    /\ d \in InFlight
    /\ AttemptFails(d, "task_timeout")
    /\ UNCHANGED <<attempt, outcomeVars, controlVars, redeliveries>>

\* Mutant: no return after the completion publish, the loop goes on.
CompletionPublishedNoReturn(d) ==
    /\ pc[d] = "publishing"
    /\ MoveTo(d, IF attempt[d] < RetryAttempts THEN "backoff" ELSE "acked")
    /\ completed' = completed \cup {d}
    /\ UNCHANGED <<attempt, fault, deadLetters, reported, breakerVars,
                   controlVars, redeliveries>>

\* The publish is inside the same try: when it rejects, the attempt has failed.
CompletionPublished(d) ==
    /\ pc[d] = "publishing"
    /\ MoveTo(d, "acked")
    /\ completed' = completed \cup {d}
    /\ UNCHANGED <<attempt, fault, deadLetters, reported, breakerVars,
                   controlVars, redeliveries>>

CompletionRejected(d) ==
    /\ pc[d] = "publishing"
    /\ AttemptFails(d, "publish_error")
    /\ \/ UNCHANGED completed
       \/ LostAcks /\ completed' = completed \cup {d}
    /\ UNCHANGED <<attempt, deadLetters, reported, controlVars, redeliveries>>

\* Mutant: stop() clears the back-off timers and strands who waits for them.
BackoffElapsesUnlessStopping(d) ==
    /\ pc[d] = "backoff"
    /\ ~stopping
    /\ MoveTo(d, "attempt")
    /\ UNCHANGED <<attempt, fault, outcomeVars, breakerVars, controlVars,
                   redeliveries>>

BackoffElapses(d) ==
    /\ pc[d] = "backoff"
    /\ MoveTo(d, "attempt")
    /\ UNCHANGED <<attempt, fault, outcomeVars, breakerVars, controlVars,
                   redeliveries>>

\* Mutant: onEmergencyStop decided by the stop instead of by the record.
DeadLetterReportsCovered(d) ==
    /\ pc[d] = "dlq"
    /\ MoveTo(d, "acked")
    /\ deadLetters' = deadLetters \cup {<<d, fault[d]>>}
    /\ reported' = IF SentBeforeStop(d) THEN reported \cup {d} ELSE reported
    /\ UNCHANGED <<attempt, fault, completed, breakerVars, controlVars,
                   redeliveries>>

DeadLetterPublished(d) ==
    /\ pc[d] = "dlq"
    /\ MoveTo(d, "acked")
    /\ deadLetters' = deadLetters \cup {<<d, fault[d]>>}
    /\ reported' = IF fault[d] = "emergency_stop" THEN reported \cup {d}
                                                  ELSE reported
    /\ UNCHANGED <<attempt, fault, completed, breakerVars, controlVars,
                   redeliveries>>

\* publishToDlq rejects, so processTask does: the broker's job has failed.
DeadLetterRejected(d) ==
    /\ pc[d] = "dlq"
    /\ MoveTo(d, "rejected")
    /\ \/ UNCHANGED deadLetters
       \/ LostAcks /\ deadLetters' = deadLetters \cup {<<d, fault[d]>>}
    /\ UNCHANGED <<attempt, fault, completed, reported, breakerVars,
                   controlVars, redeliveries>>

\* The broker's answer to a rejected delivery (Kafka: the offset is not moved).
Redeliver(d) ==
    /\ pc[d] = "rejected"
    /\ redeliveries[d] < MaxRedeliveries
    /\ MoveTo(d, "queued")
    /\ redeliveries' = [redeliveries EXCEPT ![d] = @ + 1]
    /\ UNCHANGED <<attempt, fault, outcomeVars, breakerVars, controlVars>>

-----------------------------------------------------------------------------
\* An aborted task settles at once, whatever its handler does with the signal.
Abort(tasks, why) ==
    /\ pc' = [d \in Deliveries |-> IF d \in tasks THEN "dlq" ELSE pc[d]]
    /\ fault' = [d \in Deliveries |-> IF d \in tasks THEN why ELSE fault[d]]

\* Mutant: stops are applied in the order they arrive.
EmergencyStopUnordered(t) ==
    /\ t # stoppedAt
    /\ stoppedAt' = t
    /\ Abort({d \in InFlight : SentAt[d] <= t}, "emergency_stop")
    /\ UNCHANGED <<attempt, outcomeVars, breakerVars, stopping, subscription,
                   redeliveries>>

\* emergencyStop(t); one no later than a stop already applied changes nothing.
EmergencyStop(t) ==
    /\ t > stoppedAt
    /\ stoppedAt' = t
    /\ Abort({d \in InFlight : SentAt[d] <= t}, "emergency_stop")
    /\ UNCHANGED <<attempt, outcomeVars, breakerVars, stopping, subscription,
                   redeliveries>>

\* stop(): the process drain calls it once, on a started actor.
Stop ==
    /\ subscription = "open"
    /\ stopping' = TRUE
    /\ subscription' = "closing"
    /\ Abort(InFlight, "actor_stopped")
    /\ UNCHANGED <<attempt, outcomeVars, breakerVars, stoppedAt, redeliveries>>

\* unsubscribe resolves once the driver's active tasks have settled.
Unsubscribed ==
    /\ subscription = "closing"
    /\ Active = {}
    /\ subscription' = "closed"
    /\ UNCHANGED <<pc, attempt, fault, outcomeVars, breakerVars, stoppedAt,
                   stopping, redeliveries>>

FailuresExpire ==
    /\ Breaker!Expire
    /\ UNCHANGED <<pc, attempt, fault, outcomeVars, controlVars, redeliveries>>

-----------------------------------------------------------------------------
\* What the runtime does for a delivery, and what its handler does.
RuntimeStep(d) ==
    \/ FirewallAnswers(d) \/ GateAnswers(d)
    \/ BeginAttempt(d)
    \/ HandlerTimesOut(d)
    \/ CompletionPublished(d) \/ CompletionRejected(d)
    \/ BackoffElapses(d)
    \/ DeadLetterPublished(d) \/ DeadLetterRejected(d)

TaskStep(d) ==
    \/ RuntimeStep(d)
    \/ HandlerResolves(d) \/ HandlerThrows(d)

BrokerStep(d) ==
    \/ Ignore(d) \/ RefuseInterrupted(d) \/ RefuseByBreaker(d) \/ Admit(d)
    \/ Redeliver(d)

Next ==
    \/ \E d \in Deliveries : TaskStep(d) \/ BrokerStep(d)
    \/ \E t \in StopTimes : EmergencyStop(t)
    \/ Start \/ Stop \/ Unsubscribed
    \/ FailuresExpire

\* The runtime's own steps: timers fire, guards and publishes answer.  The handler
\* need not settle by itself, and neither the broker nor an operator owes the
\* actor a delivery or a stop.
Fairness ==
    /\ \A d \in Deliveries : WF_vars(RuntimeStep(d))
    /\ WF_vars(Unsubscribed)

Spec == Init /\ [][Next]_vars /\ Fairness

-----------------------------------------------------------------------------
TypeOK ==
    /\ pc \in [Deliveries -> Stages]
    /\ attempt \in [Deliveries -> 0 .. RetryAttempts]
    /\ fault \in [Deliveries -> Faults]
    /\ completed \subseteq Deliveries
    /\ deadLetters \subseteq Deliveries \X Faults
    /\ reported \subseteq Deliveries
    /\ Breaker!WindowTypeOK
    /\ stoppedAt \in {NeverStopped} \cup StopTimes
    /\ stopping \in BOOLEAN
    /\ subscription \in {"none", "open", "closing", "closed"}
    /\ redeliveries \in [Deliveries -> Nat]

\* No handler runs for a task sent at or before the latest emergency stop, nor
\* once the actor drains: stops that land while a guard is asked, during the
\* back-off or while a publish is under way included (processTask's checks, the
\* loop head of executeWithRetries, and the aborts of emergencyStop and stop).
StoppedWorkNeverRuns ==
    \A d \in InFlight : ~SentBeforeStop(d) /\ ~stopping

\* A delivery the actor acknowledged has a completion or a dead-letter record:
\* every early return of processTask and every path out of executeWithRetries
\* leaves a trace a caller can wait for.
NothingSilentlyDropped ==
    \A d \in Addressed :
        pc[d] = "acked" => \/ d \in completed
                           \/ \E why \in Faults \ {None} : <<d, why>> \in deadLetters

\* The operator's view of a stop is exact: once acknowledged, a task is reported as
\* stopped if and only if it has an emergency_stop record, and such a record only
\* exists for a task the stop covers - however often the broker redelivers it.
StopsReportedExactly ==
    \A d \in Deliveries :
        /\ <<d, "emergency_stop">> \in deadLetters => SentBeforeStop(d)
        /\ pc[d] = "acked" =>
              (d \in reported <=> <<d, "emergency_stop">> \in deadLetters)

\* When a rejected publish means the broker has nothing, a task gets one verdict:
\* a completion or one dead-letter record, over all its attempts and redeliveries.
OneVerdict ==
    ~LostAcks =>
        /\ \A d \in completed : \A why \in Faults : <<d, why>> \notin deadLetters
        /\ \A r, s \in deadLetters : r[1] = s[1] => r = s

\* What opens the breaker: tasks that timed out and tasks that used up their
\* attempts, whatever rejected the last one - the handler, or the broker that would
\* not take the completion of a handler that succeeded.  Never a task that a budget,
\* a guard or a stop ended, and each task once for every time it is delivered.
OnlyFailedTasksCounted ==
    LET Passes(d) == redeliveries[d] + (IF fault[d] \in CountedFaults THEN 1 ELSE 0)
    IN  /\ failures <= Cardinality(UNION {{d} \X (1 .. Passes(d)) : d \in Deliveries})
        /\ \A d \in Deliveries : fault[d] \in LastErrors => attempt[d] = RetryAttempts

\* A stop is never undone: a task it covers stays covered, so a late, repeated or
\* older stop command cannot release work that an earlier one ended.
StopsAreForever ==
    [][\A d \in Deliveries : SentBeforeStop(d) => SentBeforeStop(d)']_vars

\* A delivery taken from the broker is acknowledged or rejected in the end, even
\* by a handler that never settles: the timer of executeTask bounds it.
EveryDeliverySettles ==
    \A d \in Deliveries : (d \in Active) ~> (pc[d] \in Settled)

\* stop() returns: the drain waits for no task that a stop did not settle.
DrainEnds == stopping ~> (subscription = "closed")

-----------------------------------------------------------------------------
(* The actor as a worker under the emergency stop. *)

\* A delivery the broker will not hand over again, or that a stop has ended.
Over == {d \in Deliveries : pc[d] = "acked" \/ fault[d] = "emergency_stop"}

WorkerPhase ==
    CASE subscription = "none" -> "new"
      [] subscription = "open" -> "open"
      [] OTHER                 -> "closed"

Worker == INSTANCE StoppableWorker
    WITH Tasks <- Deliveries, Moments <- StopTimes, Replaceable <- FALSE,
         phase <- WorkerPhase, running <- InFlight, ended <- Over

\* The actor keeps what an emergency stop promises, whatever a stop meets - a
\* guard being asked, an attempt, a publish, the back-off, the drain, a delivery
\* that comes again: no covered task runs, a task a stop ended is over for ever,
\* and a task it does not cover is not touched.
ImplementsWorker == Worker!Spec

\* V2.1-ROADMAP.md, defect 8: a task whose handler has produced its result is not
\* run again because the completion could not be published.
ResultNotReproduced ==
    [][\A d \in Deliveries : pc[d] = "publishing" => pc'[d] # "backoff"]_vars
=============================================================================
