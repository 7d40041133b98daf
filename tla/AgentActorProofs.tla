--------------------------- MODULE AgentActorProofs ---------------------------
(* Type correctness and the safety properties of AgentActor, for any set of   *)
(* deliveries, any stop moments and every setting of its options.             *)
EXTENDS AgentActor, FiniteSetTheorems, TLAPS

-----------------------------------------------------------------------------
\* A task on its way to an attempt has one left.
AttemptsLeft ==
    \A d \in Deliveries :
        pc[d] \in {"firewall", "gate", "attempt", "backoff"}
            => attempt[d] < RetryAttempts

Typed == TypeOK /\ AttemptsLeft

LEMMA TypedInit == Init => Typed
<1> SUFFICES ASSUME Init PROVE Typed
  OBVIOUS
<1>1. Breaker!WindowTypeOK
  BY DEF Init, Breaker!Closed, Breaker!WindowTypeOK
<1>2. /\ pc \in [Deliveries -> Stages]
      /\ attempt \in [Deliveries -> 0 .. RetryAttempts]
      /\ fault \in [Deliveries -> Faults]
      /\ redeliveries \in [Deliveries -> Nat]
  BY ActorAssumption DEF Init, Stages, Faults, None
<1>3. /\ completed \subseteq Deliveries /\ reported \subseteq Deliveries
      /\ deadLetters \subseteq Deliveries \X Faults
      /\ stoppedAt \in {NeverStopped} \cup StopTimes
      /\ stopping \in BOOLEAN
      /\ subscription \in {"none", "open", "closing", "closed"}
  BY Zenon DEF Init
<1>4. AttemptsLeft
  BY DEF Init, AttemptsLeft
<1> QED
  BY <1>1, <1>2, <1>3, <1>4 DEF Typed, TypeOK

\* Whatever is done to it, the breaker keeps a count and a flag.
LEMMA BreakerTyped ==
    ASSUME Breaker!WindowTypeOK,
           \/ Breaker!RecordFailure \/ Breaker!Refresh \/ Breaker!Expire
           \/ UNCHANGED breakerVars
    PROVE  Breaker!WindowTypeOK'
<1>1. failures' \in Nat
  BY DEF Breaker!WindowTypeOK, Breaker!RecordFailure, Breaker!Refresh,
         Breaker!Expire, breakerVars
<1>2. opened' \in BOOLEAN
  BY Zenon DEF Breaker!WindowTypeOK, Breaker!RecordFailure, Breaker!Refresh,
               Breaker!StillOpen, Breaker!Expire, breakerVars
<1> QED
  BY <1>1, <1>2 DEF Breaker!WindowTypeOK

\* An attempt that fails leaves a delivery in the back-off or in the dead letters.
LEMMA AttemptFailsTyped ==
    ASSUME Typed, NEW d \in Deliveries, d \in InFlight \/ pc[d] = "publishing",
           NEW err \in {"handler_error", "budget_exceeded", "task_timeout",
                        "publish_error"},
           AttemptFails(d, err)
    PROVE  /\ pc' \in [Deliveries -> Stages]
           /\ fault' \in [Deliveries -> Faults]
           /\ Breaker!WindowTypeOK'
           /\ pc'[d] \in {"backoff", "dlq"}
           /\ pc'[d] = "backoff" => attempt[d] < RetryAttempts
           /\ \A e \in Deliveries \ {d} : pc'[e] = pc[e]
<1> DEFINE final == FinalError(d, err)
<1>1. final \in Faults
  BY DEF FinalError, Interruption, Faults, Stops, None
<1>2. Breaker!WindowTypeOK'
  BY BreakerTyped DEF AttemptFails, Typed, TypeOK
<1>3. CASE final # None /\ DeadLetter(d, final)
  BY <1>1, <1>2, <1>3 DEF Typed, TypeOK, DeadLetter, MoveTo, Stages
<1>4. CASE attempt[d] < RetryAttempts /\ MoveTo(d, "backoff") /\ UNCHANGED fault
  BY <1>2, <1>4 DEF Typed, TypeOK, MoveTo, Stages
<1>5. CASE DeadLetter(d, err)
  BY <1>2, <1>5 DEF Typed, TypeOK, DeadLetter, MoveTo, Stages, Faults, LastErrors
<1> QED
  BY <1>3, <1>4, <1>5 DEF AttemptFails

\* The aborts of a stop: every aborted task goes to the dead letters.
LEMMA AbortTyped ==
    ASSUME Typed, NEW tasks, NEW why \in Faults, Abort(tasks, why)
    PROVE  /\ pc' \in [Deliveries -> Stages]
           /\ fault' \in [Deliveries -> Faults]
           /\ \A d \in Deliveries : pc'[d] # "dlq" => pc'[d] = pc[d]
BY DEF Typed, TypeOK, Abort, Stages

LEMMA TypedNext == Typed /\ [Next]_vars => Typed'
<1> SUFFICES ASSUME Typed, [Next]_vars PROVE Typed'
  OBVIOUS
<1> USE ActorAssumption DEF Typed, outcomeVars, controlVars
<1>0. \/ Breaker!RecordFailure \/ Breaker!Refresh \/ Breaker!Expire
      \/ UNCHANGED breakerVars
      => Breaker!WindowTypeOK'
  BY BreakerTyped DEF TypeOK
<1>1. ASSUME NEW d \in Deliveries, TaskStep(d) PROVE Typed'
  <2>1. CASE FirewallAnswers(d)
    BY <1>0, <2>1 DEF FirewallAnswers, GuardAnswers, MoveTo, DeadLetter, TypeOK,
                AttemptsLeft, Stages, Faults, GuardRefusals
  <2>2. CASE GateAnswers(d)
    BY <1>0, <2>2 DEF GateAnswers, GuardAnswers, MoveTo, DeadLetter, TypeOK,
                AttemptsLeft, Stages, Faults, GuardRefusals
  <2>3. CASE BeginAttempt(d)
    BY <1>0, <2>3 DEF BeginAttempt, Interruption, MoveTo, DeadLetter, TypeOK,
                AttemptsLeft, Stages, Faults, Stops, None
  <2>4. CASE HandlerResolves(d)
    BY <1>0, <2>4 DEF HandlerResolves, MoveTo, TypeOK, AttemptsLeft, Stages
  <2>5. CASE HandlerThrows(d)
    <3>1. PICK err \in {"handler_error", "budget_exceeded"} : AttemptFails(d, err)
      BY <1>0, <2>5 DEF HandlerThrows
    <3> QED
      BY <2>5, <3>1, AttemptFailsTyped DEF HandlerThrows, TypeOK, AttemptsLeft
  <2>6. CASE HandlerTimesOut(d)
    BY <2>6, AttemptFailsTyped DEF HandlerTimesOut, TypeOK, AttemptsLeft
  <2>7. CASE CompletionPublished(d)
    BY <1>0, <2>7 DEF CompletionPublished, MoveTo, TypeOK, AttemptsLeft, Stages
  <2>8. CASE CompletionRejected(d)
    BY <2>8, AttemptFailsTyped DEF CompletionRejected, TypeOK, AttemptsLeft
  <2>9. CASE BackoffElapses(d)
    BY <1>0, <2>9 DEF BackoffElapses, MoveTo, TypeOK, AttemptsLeft, Stages
  <2>10. CASE DeadLetterPublished(d)
    BY <1>0, <2>10 DEF DeadLetterPublished, MoveTo, TypeOK, AttemptsLeft, Stages
  <2>11. CASE DeadLetterRejected(d)
    BY <1>0, <2>11 DEF DeadLetterRejected, MoveTo, TypeOK, AttemptsLeft, Stages
  <2> QED
    BY <1>1, <2>1, <2>2, <2>3, <2>4, <2>5, <2>6, <2>7, <2>8, <2>9, <2>10, <2>11
    DEF TaskStep, RuntimeStep
<1>2. ASSUME NEW d \in Deliveries, BrokerStep(d) PROVE Typed'
  <2>1. CASE Ignore(d) \/ RefuseInterrupted(d)
    BY <1>0, <2>1 DEF Ignore, RefuseInterrupted, Delivered, Interruption, MoveTo,
                DeadLetter, TypeOK, AttemptsLeft, Stages, Faults, Stops, None
  <2>2. CASE RefuseByBreaker(d) \/ Admit(d)
    BY <1>0, <2>2 DEF RefuseByBreaker, Admit, Delivered, MoveTo, DeadLetter, TypeOK,
                AttemptsLeft, Stages, Faults, GuardRefusals, None
  <2>3. CASE Redeliver(d)
    BY <1>0, <2>3 DEF Redeliver, MoveTo, TypeOK, AttemptsLeft, Stages
  <2> QED
    BY <1>2, <2>1, <2>2, <2>3 DEF BrokerStep
<1>3. ASSUME NEW t \in StopTimes, EmergencyStop(t) PROVE Typed'
  <2>1. "emergency_stop" \in Faults
    BY DEF Faults, Stops
  <2> QED
    BY <1>0, <1>3, <2>1, AbortTyped DEF EmergencyStop, TypeOK, AttemptsLeft
<1>4. CASE Stop
  <2>1. "actor_stopped" \in Faults
    BY DEF Faults, Stops
  <2> QED
    BY <1>0, <1>4, <2>1, AbortTyped DEF Stop, TypeOK, AttemptsLeft
<1>5. CASE Start \/ Unsubscribed
  BY <1>0, <1>5 DEF Start, Unsubscribed, TypeOK, AttemptsLeft
<1>6. CASE FailuresExpire
  BY <1>0, <1>6 DEF FailuresExpire, TypeOK, AttemptsLeft
<1>7. CASE UNCHANGED vars
  BY <1>0, <1>7 DEF vars, breakerVars, TypeOK, AttemptsLeft
<1> QED
  BY <1>1, <1>2, <1>3, <1>4, <1>5, <1>6, <1>7 DEF Next

\* Every variable keeps its type, the attempt counter its bound: no task is
\* handed to its handler more often than RETRY_ATTEMPTS per delivery.
THEOREM TypeCorrect == Spec => []TypeOK
<1>1. Typed => TypeOK
  BY DEF Typed
<1> QED
  BY <1>1, TypedInit, TypedNext, PTL DEF Spec

-----------------------------------------------------------------------------
\* What a step of one delivery can do to it, whichever action takes it: the
\* proofs below split on these moves instead of on the sixteen actions.
Working == {"firewall", "gate", "attempt", "running", "publishing", "backoff"}

\* A rejected completion publish may have reached the broker.
CompletionMayAppear(d) ==
    /\ UNCHANGED <<deadLetters, reported>>
    /\ \/ UNCHANGED completed
       \/ LostAcks /\ pc[d] = "publishing" /\ completed' = completed \cup {d}

Ignored(d) ==
    /\ pc[d] = "queued" /\ d \notin Addressed /\ pc'[d] = "acked"
    /\ UNCHANGED <<completed, deadLetters, reported>>

Proceeds(d) ==
    /\ pc[d] \in Working \cup {"queued"} /\ pc'[d] \in Working
    /\ pc[d] = "queued" => d \in Addressed /\ ~SentBeforeStop(d)
    /\ pc'[d] = "running" => ~SentBeforeStop(d) /\ ~stopping
    /\ CompletionMayAppear(d)

GivenUp(d) ==
    /\ pc[d] \in Working \cup {"queued"} /\ pc'[d] = "dlq"
    /\ fault'[d] # None
    /\ fault'[d] = "emergency_stop" => SentBeforeStop(d)
    /\ pc[d] = "queued" =>
          /\ d \in Addressed
          /\ SentBeforeStop(d) => fault'[d] = "emergency_stop"
    /\ CompletionMayAppear(d)

Completed(d) ==
    /\ pc[d] = "publishing" /\ pc'[d] = "acked"
    /\ completed' = completed \cup {d}
    /\ UNCHANGED <<deadLetters, reported>>

DeadLettered(d) ==
    /\ pc[d] = "dlq" /\ pc'[d] = "acked"
    /\ deadLetters' = deadLetters \cup {<<d, fault[d]>>}
    /\ reported' = IF fault[d] = "emergency_stop" THEN reported \cup {d}
                                                  ELSE reported
    /\ UNCHANGED completed

Rejected(d) ==
    /\ pc[d] \in Working \cup {"dlq"} /\ pc'[d] = "rejected"
    /\ \/ UNCHANGED deadLetters
       \/ /\ LostAcks /\ pc[d] = "dlq"
          /\ deadLetters' = deadLetters \cup {<<d, fault[d]>>}
    /\ UNCHANGED <<completed, reported>>

Requeued(d) ==
    /\ pc[d] = "rejected" /\ pc'[d] = "queued"
    /\ UNCHANGED <<completed, deadLetters, reported>>

OnlyMoves(d) ==
    /\ \A e \in Deliveries \ {d} : pc'[e] = pc[e] /\ fault'[e] = fault[e]
    /\ UNCHANGED <<stoppedAt, stopping>>

Move(d) == \/ Ignored(d) \/ Proceeds(d) \/ GivenUp(d) \/ Completed(d)
           \/ DeadLettered(d) \/ Rejected(d) \/ Requeued(d)

\* A failed attempt goes back to the loop or ends the task, for a stop only when
\* the stop covers it.
LEMMA AttemptFailsMoves ==
    ASSUME Typed, NEW d \in Deliveries, pc[d] \in {"running", "publishing"},
           NEW err \in {"handler_error", "budget_exceeded", "task_timeout",
                        "publish_error"},
           AttemptFails(d, err)
    PROVE  /\ \A e \in Deliveries \ {d} : pc'[e] = pc[e] /\ fault'[e] = fault[e]
           /\ \/ pc'[d] = "backoff"
              \/ /\ pc'[d] = "dlq" /\ fault'[d] # None
                 /\ fault'[d] = "emergency_stop" => SentBeforeStop(d)
<1> DEFINE final == FinalError(d, err)
<1>1. final = "emergency_stop" => SentBeforeStop(d)
  BY DEF FinalError, Interruption, None
<1>2. CASE final # None /\ DeadLetter(d, final)
  BY <1>1, <1>2 DEF Typed, TypeOK, DeadLetter, MoveTo
<1>3. CASE MoveTo(d, "backoff") /\ UNCHANGED fault
  BY <1>3 DEF Typed, TypeOK, MoveTo
<1>4. CASE DeadLetter(d, err)
  BY <1>4 DEF Typed, TypeOK, DeadLetter, MoveTo, None
<1> QED
  BY <1>2, <1>3, <1>4 DEF AttemptFails

LEMMA TaskStepMoves ==
    ASSUME Typed, NEW d \in Deliveries, TaskStep(d)
    PROVE  OnlyMoves(d) /\ Move(d)
<1> USE DEF Typed, TypeOK, OnlyMoves, Move, Working, outcomeVars, controlVars
<1>1. CASE FirewallAnswers(d)
  BY <1>1 DEF FirewallAnswers, GuardAnswers, MoveTo, DeadLetter, Proceeds, GivenUp,
              Rejected, CompletionMayAppear, None
<1>2. CASE GateAnswers(d)
  BY <1>2 DEF GateAnswers, GuardAnswers, MoveTo, DeadLetter, Proceeds, GivenUp,
              Rejected, CompletionMayAppear, None
<1>3. CASE BeginAttempt(d)
  BY <1>3 DEF BeginAttempt, Interruption, MoveTo, DeadLetter, Proceeds, GivenUp,
              CompletionMayAppear, None
<1>4. CASE HandlerResolves(d)
  BY <1>4 DEF HandlerResolves, InFlight, MoveTo, Proceeds, CompletionMayAppear
<1>5. CASE HandlerThrows(d)
  <2>1. PICK err \in {"handler_error", "budget_exceeded"} : AttemptFails(d, err)
    BY <1>5 DEF HandlerThrows
  <2> QED
    BY <1>5, <2>1, AttemptFailsMoves
    DEF HandlerThrows, InFlight, Proceeds, GivenUp, CompletionMayAppear
<1>6. CASE HandlerTimesOut(d)
  BY <1>6, AttemptFailsMoves
  DEF HandlerTimesOut, InFlight, Proceeds, GivenUp, CompletionMayAppear
<1>7. CASE CompletionPublished(d)
  BY <1>7 DEF CompletionPublished, MoveTo, Completed
<1>8. CASE CompletionRejected(d)
  BY <1>8, AttemptFailsMoves
  DEF CompletionRejected, Proceeds, GivenUp, CompletionMayAppear
<1>9. CASE BackoffElapses(d)
  BY <1>9 DEF BackoffElapses, MoveTo, Proceeds, CompletionMayAppear
<1>10. CASE DeadLetterPublished(d)
  BY <1>10 DEF DeadLetterPublished, MoveTo, DeadLettered
<1>11. CASE DeadLetterRejected(d)
  BY <1>11 DEF DeadLetterRejected, MoveTo, Rejected
<1> QED
  BY <1>1, <1>2, <1>3, <1>4, <1>5, <1>6, <1>7, <1>8, <1>9, <1>10, <1>11
  DEF TaskStep, RuntimeStep

LEMMA BrokerStepMoves ==
    ASSUME Typed, NEW d \in Deliveries, BrokerStep(d)
    PROVE  OnlyMoves(d) /\ Move(d)
<1> USE DEF Typed, TypeOK, OnlyMoves, Move, Working, outcomeVars, controlVars
<1>1. CASE Ignore(d)
  BY <1>1 DEF Ignore, Delivered, MoveTo, Ignored
<1>2. CASE RefuseInterrupted(d)
  BY <1>2 DEF RefuseInterrupted, Delivered, Interruption, MoveTo, DeadLetter,
              GivenUp, CompletionMayAppear, None
<1>3. CASE RefuseByBreaker(d)
  BY <1>3 DEF RefuseByBreaker, Delivered, Interruption, MoveTo, DeadLetter, GivenUp,
              CompletionMayAppear, None
<1>4. CASE Admit(d)
  BY <1>4 DEF Admit, Delivered, Interruption, MoveTo, Proceeds,
              CompletionMayAppear, None
<1>5. CASE Redeliver(d)
  BY <1>5 DEF Redeliver, MoveTo, Requeued
<1> QED
  BY <1>1, <1>2, <1>3, <1>4, <1>5 DEF BrokerStep

\* The steps that are no delivery's own: they may end running tasks, and a stop
\* they raise covers every task that goes on running least of all.
Background ==
    /\ UNCHANGED <<completed, deadLetters, reported>>
    /\ \A d \in Deliveries :
          /\ \/ pc'[d] = pc[d] /\ fault'[d] = fault[d]
             \/ /\ pc[d] = "running" /\ pc'[d] = "dlq" /\ fault'[d] # None
                /\ fault'[d] = "emergency_stop" => SentBeforeStop(d)'
          /\ pc'[d] = "running" => /\ SentBeforeStop(d)' => SentBeforeStop(d)
                                   /\ stopping' => stopping
          /\ SentBeforeStop(d) => SentBeforeStop(d)'

LEMMA NextMoves ==
    ASSUME Typed, [Next]_vars
    PROVE  \/ \E d \in Deliveries : OnlyMoves(d) /\ Move(d)
           \/ Background
<1> USE ActorAssumption DEF Typed, TypeOK, outcomeVars, controlVars
<1>1. CASE \E d \in Deliveries : TaskStep(d) \/ BrokerStep(d)
  BY <1>1, TaskStepMoves, BrokerStepMoves
<1>2. ASSUME NEW t \in StopTimes, EmergencyStop(t) PROVE Background
  <2>1. stoppedAt \in Int /\ t \in Int /\ \A d \in Deliveries : SentAt[d] \in Int
    BY DEF NeverStopped
  <2> QED
    BY <1>2, <2>1 DEF EmergencyStop, Abort, InFlight, Background, SentBeforeStop, None
<1>3. CASE Stop
  BY <1>3 DEF Stop, Abort, InFlight, Background, SentBeforeStop, None
<1>4. CASE Start \/ Unsubscribed \/ FailuresExpire \/ UNCHANGED vars
  BY <1>4 DEF Start, Unsubscribed, FailuresExpire, vars, Background, SentBeforeStop
<1> QED
  BY <1>1, <1>2, <1>3, <1>4 DEF Next

-----------------------------------------------------------------------------
LEMMA StoppedStaysOver == StoppedWorkNeverRuns /\ Typed /\ [Next]_vars => StoppedWorkNeverRuns'
<1> SUFFICES ASSUME StoppedWorkNeverRuns, Typed, [Next]_vars
             PROVE  StoppedWorkNeverRuns'
  OBVIOUS
<1>1. ASSUME NEW d \in Deliveries, OnlyMoves(d), Move(d)
      PROVE  StoppedWorkNeverRuns'
  BY <1>1 DEF StoppedWorkNeverRuns, InFlight, SentBeforeStop, OnlyMoves, Move,
              Ignored, Proceeds, GivenUp, Completed, DeadLettered, Rejected, Requeued
<1>2. CASE Background
  BY <1>2 DEF StoppedWorkNeverRuns, InFlight, Background
<1> QED
  BY <1>1, <1>2, NextMoves

\* No handler runs for a task that a stop or the drain covers, in any
\* interleaving of stops with the guards, the attempts and the back-off.
THEOREM StoppedWorkIsOver == Spec => []StoppedWorkNeverRuns
<1>1. Init => StoppedWorkNeverRuns
  BY DEF Init, StoppedWorkNeverRuns, InFlight
<1> QED
  BY <1>1, StoppedStaysOver, TypedInit, TypedNext, PTL DEF Spec

\* A stop is never undone, whatever order stop commands arrive in.
THEOREM StopsLast == Spec => StopsAreForever
<1> DEFINE Kept == \A d \in Deliveries : SentBeforeStop(d) => SentBeforeStop(d)'
<1>1. Typed /\ [Next]_vars => [Kept]_vars
  BY NextMoves DEF OnlyMoves, Background, SentBeforeStop
<1> QED
  BY <1>1, TypedInit, TypedNext, PTL DEF Spec, StopsAreForever

-----------------------------------------------------------------------------
\* The account of one delivery: what its place in processTask says of its fault
\* and of the records that name it.  A record of a stop may exist before the task
\* is settled (its publish was rejected after reaching the broker); the stop still
\* covers the task then, so its redelivery ends in the same verdict.
Account(d) ==
    /\ pc[d] \in Working \cup {"dlq"} => d \in Addressed
    /\ pc[d] = "dlq" => fault[d] # None
    /\ pc[d] = "dlq" /\ fault[d] = "emergency_stop" => SentBeforeStop(d)
    /\ <<d, "emergency_stop">> \in deadLetters =>
          /\ d \in Addressed
          /\ SentBeforeStop(d)
          /\ pc[d] \in {"queued", "dlq", "rejected", "acked"}
          /\ pc[d] = "dlq" => fault[d] = "emergency_stop"
          /\ pc[d] = "acked" => d \in reported
    /\ d \in reported => pc[d] = "acked" /\ <<d, "emergency_stop">> \in deadLetters

Accounts == \A d \in Deliveries : Account(d)

LEMMA AccountsInit == Init => Accounts
BY DEF Init, Accounts, Account, Working

LEMMA AccountsNext == Typed /\ Accounts /\ [Next]_vars => Accounts'
<1> SUFFICES ASSUME Typed, Accounts, [Next]_vars PROVE Accounts'
  OBVIOUS
<1>1. ASSUME NEW d \in Deliveries, OnlyMoves(d), Move(d) PROVE Accounts'
  <2>1. ASSUME NEW e \in Deliveries \ {d} PROVE Account(e)'
    <3>1. /\ <<e, "emergency_stop">> \in deadLetters'
             <=> <<e, "emergency_stop">> \in deadLetters
          /\ e \in reported' <=> e \in reported
      BY <1>1, <2>1 DEF Move, Ignored, Proceeds, GivenUp, Completed, DeadLettered,
                        Rejected, Requeued, CompletionMayAppear
    <3>2. pc'[e] = pc[e] /\ fault'[e] = fault[e] /\ stoppedAt' = stoppedAt
      BY <1>1, <2>1 DEF OnlyMoves
    <3>3. Account(e)
      BY <2>1 DEF Accounts
    <3> QED
      BY <3>1, <3>2, <3>3 DEF Account, SentBeforeStop
  <2>2. Account(d)'
    <3> stoppedAt' = stoppedAt
      BY <1>1 DEF OnlyMoves
    <3> Account(d)
      BY <1>1 DEF Accounts
    <3> USE DEF Account, Working, SentBeforeStop
    <3>1. CASE Ignored(d)
      BY <3>1 DEF Ignored
    <3>2. CASE Proceeds(d)
      BY <3>2 DEF Proceeds, CompletionMayAppear
    <3>3. CASE GivenUp(d)
      BY <3>3 DEF GivenUp, CompletionMayAppear
    <3>4. CASE Completed(d)
      BY <3>4 DEF Completed
    <3>5. CASE DeadLettered(d)
      BY <3>5 DEF DeadLettered
    <3>6. CASE Rejected(d)
      BY <3>6 DEF Rejected
    <3>7. CASE Requeued(d)
      BY <3>7 DEF Requeued
    <3> QED
      BY <1>1, <3>1, <3>2, <3>3, <3>4, <3>5, <3>6, <3>7 DEF Move
  <2> QED
    BY <2>1, <2>2 DEF Accounts
<1>2. CASE Background
  BY <1>2 DEF Background, Accounts, Account, Working
<1> QED
  BY <1>1, <1>2, NextMoves

\* What the operator is told of a stop is exact: a settled task is reported as
\* stopped if and only if it has a record of the stop, and only if the stop
\* covers it - however publishes fail and the broker redelivers.
THEOREM StopsAreAccounted == Spec => []StopsReportedExactly
<1>1. Accounts => StopsReportedExactly
  BY DEF Accounts, Account, StopsReportedExactly
<1> QED
  BY <1>1, AccountsInit, AccountsNext, TypedInit, TypedNext, PTL DEF Spec

\* No delivery of this actor is acknowledged without a completion or a record a
\* waiter is told of.
THEOREM NothingIsDropped == Spec => []NothingSilentlyDropped
<1>1. Init => NothingSilentlyDropped
  BY ActorAssumption DEF Init, NothingSilentlyDropped
<1>2. NothingSilentlyDropped /\ Accounts /\ Typed /\ [Next]_vars
        => NothingSilentlyDropped'
  <2> SUFFICES ASSUME NothingSilentlyDropped, Accounts, Typed, [Next]_vars,
                      NEW e \in Addressed, pc'[e] = "acked"
               PROVE  \/ e \in completed'
                      \/ \E why \in Faults \ {None} : <<e, why>> \in deadLetters'
    BY DEF NothingSilentlyDropped
  <2> e \in Deliveries
    BY ActorAssumption
  <2>1. CASE pc[e] = "acked"
    <3>1. completed \subseteq completed' /\ deadLetters \subseteq deadLetters'
      BY NextMoves DEF Background, Move, Ignored, Proceeds, GivenUp, Completed,
                       DeadLettered, Rejected, Requeued, CompletionMayAppear
    <3> QED
      BY <2>1, <3>1 DEF NothingSilentlyDropped
  <2>2. CASE pc[e] # "acked"
    <3>1. Completed(e) \/ DeadLettered(e)
      BY <2>2, NextMoves DEF Background, OnlyMoves, Move, Ignored, Proceeds, GivenUp,
                             Completed, DeadLettered, Rejected, Requeued, Working
    <3>2. pc[e] = "dlq" => fault[e] \in Faults \ {None}
      BY DEF Accounts, Account, Typed, TypeOK
    <3> QED
      BY <3>1, <3>2 DEF Completed, DeadLettered
  <2> QED
    BY <2>1, <2>2
<1> QED
  BY <1>1, <1>2, AccountsInit, AccountsNext, TypedInit, TypedNext, PTL DEF Spec

-----------------------------------------------------------------------------
\* Without lost acknowledgements a verdict is published as its task is settled.
VerdictsAreLast ==
    ~LostAcks => \A d \in Deliveries :
        (d \in completed \/ \E why \in Faults : <<d, why>> \in deadLetters)
            => pc[d] = "acked"

VerdictInv == OneVerdict /\ VerdictsAreLast

\* A step that publishes nothing and leaves the settled tasks alone.
LEMMA VerdictsKept ==
    ASSUME VerdictInv, UNCHANGED <<completed, deadLetters>>,
           \A d \in Deliveries : pc[d] = "acked" => pc'[d] = "acked"
    PROVE  VerdictInv'
BY DEF VerdictInv, OneVerdict, VerdictsAreLast

\* One verdict per task whatever the handler, the guards, the stops and the
\* redeliveries do, as long as a rejected publish left nothing behind.
THEOREM VerdictIsUnique == Spec => []OneVerdict
<1>1. Init => VerdictInv
  BY DEF Init, VerdictInv, OneVerdict, VerdictsAreLast
<1>2. VerdictInv /\ Typed /\ [Next]_vars => VerdictInv'
  <2> SUFFICES ASSUME VerdictInv, Typed, [Next]_vars, ~LostAcks PROVE VerdictInv'
    BY DEF VerdictInv, OneVerdict, VerdictsAreLast
  <2>1. ASSUME NEW d \in Deliveries, OnlyMoves(d), Move(d) PROVE VerdictInv'
    <3>1. CASE Ignored(d) \/ Proceeds(d) \/ GivenUp(d) \/ Rejected(d) \/ Requeued(d)
      <4>1. UNCHANGED <<completed, deadLetters>>
        BY <3>1 DEF Ignored, Proceeds, GivenUp, Rejected, Requeued,
                    CompletionMayAppear
      <4>2. pc[d] # "acked"
        BY <3>1 DEF Ignored, Proceeds, GivenUp, Rejected, Requeued, Working
      <4> QED
        BY <2>1, <4>1, <4>2, VerdictsKept DEF OnlyMoves
    <3>2. CASE Completed(d)
      <4>1. d \notin completed /\ \A why \in Faults : <<d, why>> \notin deadLetters
        BY <3>2 DEF Completed, VerdictInv, VerdictsAreLast
      <4> QED
        BY <2>1, <3>2, <4>1
        DEF Completed, OnlyMoves, VerdictInv, OneVerdict, VerdictsAreLast
    <3>3. CASE DeadLettered(d)
      <4>1. d \notin completed /\ \A why \in Faults : <<d, why>> \notin deadLetters
        BY <3>3 DEF DeadLettered, VerdictInv, VerdictsAreLast
      <4>2. \A r \in deadLetters : r[1] # d
        BY <4>1 DEF Typed, TypeOK
      <4> QED
        BY <2>1, <3>3, <4>1, <4>2
        DEF DeadLettered, OnlyMoves, VerdictInv, OneVerdict, VerdictsAreLast
    <3> QED
      BY <2>1, <3>1, <3>2, <3>3 DEF Move
  <2>2. CASE Background
    BY <2>2, VerdictsKept DEF Background
  <2> QED
    BY <2>1, <2>2, NextMoves
<1>3. VerdictInv => OneVerdict
  BY DEF VerdictInv
<1> QED
  BY <1>1, <1>2, <1>3, TypedInit, TypedNext, PTL DEF Spec
-----------------------------------------------------------------------------
(* What the breaker has counted.                                           *)

\* n[d] passes of each delivery d, as a set that has a member for each.
Units(n) == UNION {{d} \X (1 .. n[d]) : d \in Deliveries}

\* The passes over a delivery the broker took back, and this one if it ended with a
\* fault that counts; a delivery back in the queue has begun the next.
Passes(d) == redeliveries[d] + (IF fault[d] \in CountedFaults THEN 1 ELSE 0)
Begun(d) == redeliveries[d]
            + (IF fault[d] \in CountedFaults /\ pc[d] # "queued" THEN 1 ELSE 0)
AllBegun == [d \in Deliveries |-> Begun(d)]

\* No fault is decided while a delivery is worked on.
Undecided == \A d \in Deliveries : pc[d] \in Working => fault[d] = None

Counted == Undecided /\ failures <= Cardinality(Units(AllBegun))

LEMMA UnitsAreFinite ==
    ASSUME IsFiniteSet(Deliveries), NEW n \in [Deliveries -> Nat]
    PROVE  IsFiniteSet(Units(n)) /\ Cardinality(Units(n)) \in Nat
<1> DEFINE h == [d \in Deliveries |-> {d} \X (1 .. n[d])]
           P == {{d} \X (1 .. n[d]) : d \in Deliveries}
<1>1. h \in Surjection(Deliveries, P)
  <2>1. h \in [Deliveries -> P] /\ \A p \in P : \E d \in Deliveries : h[d] = p
    OBVIOUS
  <2> QED  BY <2>1 DEF Surjection
<1>2. ASSUME NEW p \in P PROVE IsFiniteSet(p)
  <2>1. PICK d \in Deliveries : p = {d} \X (1 .. n[d])
    OBVIOUS
  <2>2. n[d] \in Nat
    OBVIOUS
  <2>3. IsFiniteSet(1 .. n[d])
    BY <2>2, FS_Interval
  <2>4. IsFiniteSet({d})
    BY FS_Singleton
  <2> QED  BY <2>1, <2>3, <2>4, FS_Product
<1> HIDE DEF h
<1>3. IsFiniteSet(P)
  BY <1>1, FS_Surjection
<1>4. IsFiniteSet(UNION P)
  BY <1>2, <1>3, FS_UNION
<1> QED  BY <1>4, FS_CardinalityType DEF Units

\* More passes are more units, one more of a delivery is one unit more.
LEMMA UnitsGrow ==
    ASSUME IsFiniteSet(Deliveries), NEW n \in [Deliveries -> Nat], NEW m \in [Deliveries -> Nat],
           \A d \in Deliveries : m[d] >= n[d]
    PROVE  /\ Units(n) \subseteq Units(m)
           /\ Cardinality(Units(n)) <= Cardinality(Units(m))
<1>1. ASSUME NEW x \in Units(n) PROVE x \in Units(m)
  <2>1. PICK d \in Deliveries : x \in {d} \X (1 .. n[d])
    BY DEF Units
  <2>2. x \in {d} \X (1 .. m[d])
    BY <2>1
  <2> QED  BY <2>2 DEF Units
<1>2. IsFiniteSet(Units(m))
  BY UnitsAreFinite
<1> QED  BY <1>1, <1>2, FS_Subset

LEMMA UnitsGain ==
    ASSUME IsFiniteSet(Deliveries), NEW n \in [Deliveries -> Nat], NEW m \in [Deliveries -> Nat],
           \A d \in Deliveries : m[d] >= n[d], NEW e \in Deliveries, m[e] > n[e]
    PROVE  Cardinality(Units(n)) + 1 <= Cardinality(Units(m))
<1> DEFINE u == <<e, n[e] + 1>>
<1>1. u \in Units(m)
  <2>1. n[e] + 1 \in 1 .. m[e]
    OBVIOUS
  <2>2. u \in {e} \X (1 .. m[e])
    BY <2>1
  <2> QED  BY <2>2 DEF Units
<1>2. u \notin Units(n)
  <2> SUFFICES ASSUME u \in Units(n) PROVE FALSE
    OBVIOUS
  <2>1. PICK d \in Deliveries : u \in {d} \X (1 .. n[d])
    BY DEF Units
  <2>2. d = e /\ n[e] + 1 \in 1 .. n[e]
    BY <2>1
  <2> QED  BY <2>2
<1> HIDE DEF u
<1>3. Units(n) \cup {u} \subseteq Units(m)
  BY <1>1, UnitsGrow
<1>4. IsFiniteSet(Units(n)) /\ IsFiniteSet(Units(m)) /\ Cardinality(Units(n)) \in Nat
  BY UnitsAreFinite
<1>5. Cardinality(Units(n) \cup {u}) = Cardinality(Units(n)) + 1
  BY <1>2, <1>4, FS_AddElement
<1>6. Cardinality(Units(n) \cup {u}) <= Cardinality(Units(m))
  BY <1>3, <1>4, FS_Subset
<1> QED  BY <1>5, <1>6

\* What a step may do to the breaker's count: a failure more is a delivery's whose pass
\* ends with a fault that counts.
PassesKept == \A d \in Deliveries : Begun(d)' >= Begun(d)
FailureIsHis(d) == failures' = failures + 1 /\ Begun(d)' > Begun(d)
CountFollows ==
    /\ Undecided' /\ PassesKept
    /\ failures' \in 0 .. failures \/ \E d \in Deliveries : FailureIsHis(d)

\* The catch of an attempt: only a timeout and the last attempt's error are counted.
LEMMA AttemptFailsCounts ==
    ASSUME Typed, Undecided, NEW d \in Deliveries, pc[d] \in {"running", "publishing"},
           NEW err \in {"handler_error", "budget_exceeded", "task_timeout",
                        "publish_error"},
           AttemptFails(d, err), UNCHANGED redeliveries
    PROVE  CountFollows
<1> DEFINE final == FinalError(d, err)
<1>1. /\ fault[d] = None /\ None \notin CountedFaults /\ failures \in Nat
      /\ redeliveries \in [Deliveries -> Nat] /\ pc \in [Deliveries -> Stages]
      /\ fault \in [Deliveries -> Faults]
  BY DEF Undecided, Working, None, CountedFaults, LastErrors, Typed, TypeOK, Breaker!WindowTypeOK
<1>2. ASSUME NEW why, DeadLetter(d, why)
      PROVE  /\ PassesKept /\ Undecided'
             /\ why \in CountedFaults => Begun(d)' > Begun(d)
  BY <1>1, <1>2 DEF DeadLetter, MoveTo, PassesKept, Begun, Undecided, Working
<1>3. CASE final # None /\ DeadLetter(d, final)
           /\ IF final = "task_timeout" THEN Breaker!RecordFailure ELSE UNCHANGED breakerVars
  BY <1>1, <1>2, <1>3
  DEF CountFollows, FailureIsHis, Breaker!RecordFailure, breakerVars, CountedFaults, LastErrors
<1>4. CASE MoveTo(d, "backoff") /\ UNCHANGED <<fault, breakerVars>>
  BY <1>1, <1>4
  DEF CountFollows, MoveTo, PassesKept, Begun, Undecided, Working, breakerVars
<1>5. CASE final = None /\ DeadLetter(d, err) /\ Breaker!RecordFailure
  BY <1>1, <1>2, <1>5
  DEF CountFollows, FailureIsHis, Breaker!RecordFailure, CountedFaults, LastErrors, FinalError,
      None
<1> QED
  BY <1>3, <1>4, <1>5 DEF AttemptFails

LEMMA TaskStepCounts ==
    ASSUME Typed, Undecided, NEW d \in Deliveries, TaskStep(d)
    PROVE  CountFollows
<1> USE DEF Undecided, Working
<1>1. /\ failures \in Nat /\ redeliveries \in [Deliveries -> Nat]
      /\ pc \in [Deliveries -> Stages] /\ fault \in [Deliveries -> Faults]
  BY DEF Typed, TypeOK, Breaker!WindowTypeOK
<1>2. CASE \/ FirewallAnswers(d) \/ GateAnswers(d) \/ BeginAttempt(d)
           \/ CompletionPublished(d) \/ BackoffElapses(d)
           \/ DeadLetterPublished(d) \/ DeadLetterRejected(d)
  <2>1. UNCHANGED <<failures, redeliveries>>
    BY <1>2 DEF FirewallAnswers, GateAnswers, GuardAnswers, BeginAttempt, CompletionPublished,
                BackoffElapses, DeadLetterPublished, DeadLetterRejected, breakerVars
  <2>2. /\ \A e \in Deliveries : e # d => pc'[e] = pc[e] /\ fault'[e] = fault[e]
        /\ pc[d] # "queued" /\ pc'[d] # "queued"
        /\ \/ fault' = fault
           \/ fault[d] = None /\ pc'[d] = "dlq"
        /\ pc'[d] \in Working => pc[d] \in Working /\ fault' = fault
    BY <1>1, <1>2
    DEF FirewallAnswers, GateAnswers, GuardAnswers, BeginAttempt, CompletionPublished,
        BackoffElapses, DeadLetterPublished, DeadLetterRejected, MoveTo, DeadLetter
  <2>3. None \notin CountedFaults
    BY DEF None, CountedFaults, LastErrors
  <2>4. PassesKept /\ Undecided'
    BY <1>1, <2>1, <2>2, <2>3 DEF PassesKept, Begun
  <2> QED  BY <1>1, <2>1, <2>4 DEF CountFollows
<1>3. CASE HandlerResolves(d)
  <2>1. UNCHANGED <<failures, redeliveries, fault>> /\ pc' = [pc EXCEPT ![d] = "publishing"]
        /\ pc[d] = "running"
    BY <1>3 DEF HandlerResolves, MoveTo, InFlight, Breaker!Refresh
  <2>2. PassesKept /\ Undecided'
    BY <1>1, <2>1 DEF PassesKept, Begun
  <2> QED  BY <1>1, <2>1, <2>2 DEF CountFollows
<1>4. CASE HandlerThrows(d) \/ HandlerTimesOut(d) \/ CompletionRejected(d)
  <2>1. pc[d] \in {"running", "publishing"} /\ UNCHANGED redeliveries
    BY <1>4 DEF HandlerThrows, HandlerTimesOut, CompletionRejected, InFlight
  <2>2. PICK err \in {"handler_error", "budget_exceeded", "task_timeout", "publish_error"} :
           AttemptFails(d, err)
    BY <1>4 DEF HandlerThrows, HandlerTimesOut, CompletionRejected
  <2> QED  BY <2>1, <2>2, AttemptFailsCounts
<1> QED
  BY <1>2, <1>3, <1>4 DEF TaskStep, RuntimeStep

LEMMA BrokerStepCounts ==
    ASSUME Typed, Undecided, NEW d \in Deliveries, BrokerStep(d)
    PROVE  CountFollows
<1>1. /\ failures \in Nat /\ redeliveries \in [Deliveries -> Nat]
      /\ pc \in [Deliveries -> Stages] /\ fault \in [Deliveries -> Faults]
  BY DEF Typed, TypeOK, Breaker!WindowTypeOK
<1>2. failures' = failures
  BY DEF BrokerStep, Ignore, RefuseInterrupted, RefuseByBreaker, Admit, Redeliver, breakerVars,
         Breaker!Refresh
<1>3. CASE Ignore(d) \/ RefuseInterrupted(d) \/ RefuseByBreaker(d) \/ Admit(d)
  <2>1. /\ redeliveries' = redeliveries /\ pc[d] = "queued"
        /\ \A e \in Deliveries : e # d => pc'[e] = pc[e] /\ fault'[e] = fault[e]
        /\ pc'[d] \in {"acked", "dlq"} \/ (pc'[d] = "firewall" /\ fault'[d] = None)
    BY <1>1, <1>3
    DEF Ignore, RefuseInterrupted, RefuseByBreaker, Admit, Delivered, MoveTo, DeadLetter
  <2>2. PassesKept /\ Undecided'
    BY <1>1, <2>1 DEF PassesKept, Begun, Undecided, Working
  <2> QED  BY <1>1, <1>2, <2>2 DEF CountFollows
<1>4. CASE Redeliver(d)
  <2>1. /\ redeliveries' = [redeliveries EXCEPT ![d] = @ + 1] /\ fault' = fault
        /\ pc' = [pc EXCEPT ![d] = "queued"]
    BY <1>4 DEF Redeliver, MoveTo
  <2>2. PassesKept /\ Undecided'
    BY <1>1, <2>1 DEF PassesKept, Begun, Undecided, Working
  <2> QED  BY <1>1, <1>2, <2>2 DEF CountFollows
<1> QED
  BY <1>3, <1>4 DEF BrokerStep

LEMMA NextCounts ==
    ASSUME Typed, Undecided, [Next]_vars
    PROVE  CountFollows
<1>1. /\ failures \in Nat /\ redeliveries \in [Deliveries -> Nat]
      /\ pc \in [Deliveries -> Stages] /\ fault \in [Deliveries -> Faults]
  BY DEF Typed, TypeOK, Breaker!WindowTypeOK
<1>2. CASE \E d \in Deliveries : TaskStep(d) \/ BrokerStep(d)
  BY <1>2, TaskStepCounts, BrokerStepCounts
<1>3. ASSUME NEW tasks, NEW why, tasks \subseteq InFlight, why \notin CountedFaults,
             Abort(tasks, why), UNCHANGED <<failures, redeliveries>>
      PROVE  CountFollows
  <2>1. ASSUME NEW d \in Deliveries
        PROVE  /\ pc'[d] = (IF d \in tasks THEN "dlq" ELSE pc[d])
               /\ fault'[d] = (IF d \in tasks THEN why ELSE fault[d])
    BY <1>3 DEF Abort
  <2>2. \A d \in tasks : pc[d] = "running" /\ fault[d] = None
    BY <1>3 DEF InFlight, Undecided, Working
  <2>3. None \notin CountedFaults
    BY DEF None, CountedFaults, LastErrors
  <2>4. PassesKept
    BY <1>1, <1>3, <2>1, <2>2, <2>3 DEF PassesKept, Begun
  <2>5. Undecided'
    BY <2>1 DEF Undecided, Working
  <2> QED  BY <1>1, <1>3, <2>4, <2>5 DEF CountFollows
<1>4. "emergency_stop" \notin CountedFaults /\ "actor_stopped" \notin CountedFaults
  BY DEF CountedFaults, LastErrors
<1>5. ASSUME NEW t \in StopTimes, EmergencyStop(t) PROVE CountFollows
  <2>1. {d \in InFlight : SentAt[d] <= t} \subseteq InFlight
    OBVIOUS
  <2> QED  BY <1>3, <1>4, <1>5, <2>1 DEF EmergencyStop, breakerVars
<1>6. CASE Stop
  BY <1>3, <1>4, <1>6 DEF Stop, breakerVars
<1>7. CASE Start \/ Unsubscribed \/ FailuresExpire \/ UNCHANGED vars
  <2>1. UNCHANGED <<pc, fault, redeliveries>> /\ failures' \in 0 .. failures
    BY <1>1, <1>7 DEF Start, Unsubscribed, FailuresExpire, vars, breakerVars, Breaker!Expire
  <2> QED  BY <1>1, <2>1 DEF CountFollows, PassesKept, Begun, Undecided
<1> QED
  BY <1>2, <1>5, <1>6, <1>7 DEF Next

LEMMA CountedHolds ==
    ASSUME IsFiniteSet(Deliveries)
    PROVE  Spec => [](Typed /\ Counted)
<1>1. Typed => AllBegun \in [Deliveries -> Nat] /\ failures \in Nat
  BY DEF Typed, TypeOK, AllBegun, Begun, Breaker!WindowTypeOK
<1>2. Init => Counted
  <2> SUFFICES ASSUME Init PROVE Counted
    OBVIOUS
  <2>1. Typed
    BY TypedInit
  <2>2. Cardinality(Units(AllBegun)) \in Nat
    BY <1>1, <2>1, UnitsAreFinite
  <2>3. failures = 0
    BY DEF Init, Breaker!Closed
  <2>4. Undecided
    BY DEF Init, Undecided, Working
  <2> QED  BY <2>2, <2>3, <2>4 DEF Counted
<1>3. Typed /\ Counted /\ [Next]_vars => Counted'
  <2> SUFFICES ASSUME Typed, Counted, [Next]_vars PROVE Counted'
    OBVIOUS
  <2>1. CountFollows
    BY NextCounts DEF Counted
  <2>2. Typed'
    BY TypedNext
  <2> DEFINE n == AllBegun
             m == AllBegun'
  <2>3. n \in [Deliveries -> Nat] /\ m \in [Deliveries -> Nat] /\ failures \in Nat
        /\ failures' \in Nat
    BY <1>1, <2>2 DEF Typed, TypeOK, AllBegun, Begun, Breaker!WindowTypeOK
  <2>4. \A d \in Deliveries : n[d] = Begun(d) /\ m[d] = Begun(d)'
    BY DEF AllBegun
  <2>5. \A d \in Deliveries : m[d] >= n[d]
    BY <2>1, <2>4 DEF CountFollows, PassesKept
  <2>6. failures <= Cardinality(Units(n)) /\ Undecided'
    BY <2>1 DEF Counted, CountFollows
  <2> HIDE DEF n, m
  <2>7. /\ Cardinality(Units(n)) \in Nat /\ Cardinality(Units(m)) \in Nat
        /\ Cardinality(Units(n)) <= Cardinality(Units(m))
    BY <2>3, <2>5, UnitsAreFinite, UnitsGrow
  <2>8. failures' <= Cardinality(Units(m))
    <3>1. CASE failures' \in 0 .. failures
      BY <2>3, <2>6, <2>7, <3>1
    <3>2. ASSUME NEW d \in Deliveries, FailureIsHis(d) PROVE failures' <= Cardinality(Units(m))
      <4>1. failures' = failures + 1 /\ m[d] > n[d]
        BY <2>4, <3>2 DEF FailureIsHis
      <4>2. Cardinality(Units(n)) + 1 <= Cardinality(Units(m))
        BY <2>3, <2>5, <4>1, UnitsGain
      <4> QED  BY <2>3, <2>6, <2>7, <4>1, <4>2
    <3> QED  BY <2>1, <3>1, <3>2 DEF CountFollows
  <2>9. Units(m) = Units(AllBegun)'
    BY DEF m, Units
  <2> QED  BY <2>6, <2>8, <2>9 DEF Counted
<1> QED  BY <1>2, <1>3, TypedInit, TypedNext, PTL DEF Spec

\* The error of a last attempt is only written when there is no further one.
AttemptsUsedUp ==
    \A d \in Deliveries : fault[d] \in LastErrors => attempt[d] = RetryAttempts

\* A delivery for another agent is acknowledged and leaves no trace.
OthersPass ==
    \A d \in Deliveries \ Addressed : pc[d] \in {"queued", "acked"} /\ fault[d] = None

LEMMA OthersPassHolds == Spec => []OthersPass
<1> USE DEF OthersPass
<1>1. Init => OthersPass
  BY DEF Init
<1>2. ASSUME Typed, OthersPass, [Next]_vars PROVE OthersPass'
  <2>1. /\ pc \in [Deliveries -> Stages] /\ fault \in [Deliveries -> Faults]
    BY <1>2 DEF Typed, TypeOK
  <2>2. ASSUME NEW d \in Deliveries, TaskStep(d) PROVE OthersPass'
    <3>1. d \in Addressed
      BY <1>2, <2>2 DEF TaskStep, RuntimeStep, FirewallAnswers, GateAnswers, GuardAnswers,
        BeginAttempt, HandlerTimesOut, CompletionPublished, CompletionRejected,
        BackoffElapses, DeadLetterPublished, DeadLetterRejected, HandlerResolves,
        HandlerThrows, InFlight
    <3>2. OnlyMoves(d)
      BY <1>2, <2>2, TaskStepMoves
    <3> QED  BY <1>2, <3>1, <3>2 DEF OnlyMoves
  <2>3. ASSUME NEW d \in Deliveries, BrokerStep(d) PROVE OthersPass'
    BY <1>2, <2>1, <2>3
    DEF BrokerStep, Ignore, RefuseInterrupted, RefuseByBreaker, Admit, Redeliver, Delivered,
        DeadLetter, MoveTo
  <2>4. ASSUME NEW t \in StopTimes, EmergencyStop(t) PROVE OthersPass'
    BY <1>2, <2>4 DEF EmergencyStop, Abort, InFlight
  <2>5. CASE Stop
    BY <1>2, <2>5 DEF Stop, Abort, InFlight
  <2>6. CASE Start \/ Unsubscribed \/ FailuresExpire \/ UNCHANGED vars
    BY <1>2, <2>6 DEF Start, Unsubscribed, FailuresExpire, vars
  <2> QED  BY <1>2, <2>2, <2>3, <2>4, <2>5, <2>6 DEF Next
<1> QED  BY <1>1, <1>2, TypedInit, TypedNext, PTL DEF Spec

LEMMA AttemptsUsedUpHolds == Spec => []AttemptsUsedUp
<1> USE DEF AttemptsUsedUp
<1>1. Init => AttemptsUsedUp
  BY DEF Init, LastErrors, None
<1>2. ASSUME Typed, Undecided, OthersPass, AttemptsUsedUp, [Next]_vars PROVE AttemptsUsedUp'
  <2>1. /\ pc \in [Deliveries -> Stages] /\ fault \in [Deliveries -> Faults]
        /\ attempt \in [Deliveries -> 0 .. RetryAttempts]
    BY <1>2 DEF Typed, TypeOK
  <2>2. ASSUME NEW d \in Deliveries, TaskStep(d) PROVE AttemptsUsedUp'
    <3>1. CASE \/ FirewallAnswers(d) \/ GateAnswers(d) \/ BeginAttempt(d)
      <4>1. fault[d] = None /\ \A e \in Deliveries : e # d => attempt'[e] = attempt[e]
        BY <1>2, <2>1, <3>1
        DEF FirewallAnswers, GateAnswers, GuardAnswers, BeginAttempt, Undecided, Working
      <4>2. /\ \A e \in Deliveries : e # d => fault'[e] = fault[e]
            /\ fault'[d] \notin LastErrors
        BY <1>2, <2>1, <3>1, <4>1
        DEF FirewallAnswers, GateAnswers, GuardAnswers, BeginAttempt, DeadLetter,
            LastErrors, None, Interruption
      <4> QED  BY <1>2, <4>1, <4>2
    <3>2. CASE \/ CompletionPublished(d) \/ BackoffElapses(d) \/ HandlerResolves(d)
               \/ DeadLetterPublished(d) \/ DeadLetterRejected(d)
      BY <1>2, <3>2 DEF CompletionPublished, BackoffElapses, HandlerResolves,
                        DeadLetterPublished, DeadLetterRejected
    <3>3. CASE HandlerThrows(d) \/ HandlerTimesOut(d) \/ CompletionRejected(d)
      <4>1. attempt' = attempt
        BY <3>3 DEF HandlerThrows, HandlerTimesOut, CompletionRejected
      <4>2. PICK err \in {"handler_error", "budget_exceeded", "task_timeout",
                          "publish_error"} : AttemptFails(d, err)
        BY <3>3 DEF HandlerThrows, HandlerTimesOut, CompletionRejected
      <4>3. FinalError(d, err) \notin LastErrors
        BY DEF FinalError, Interruption, LastErrors, None
      <4>4. \A e \in Deliveries : \/ fault'[e] = fault[e]
                                  \/ fault'[e] \notin LastErrors
                                  \/ attempt[e] = RetryAttempts
        BY <2>1, <4>2, <4>3 DEF AttemptFails, DeadLetter
      <4> QED  BY <1>2, <4>1, <4>4
    <3> QED  BY <2>2, <3>1, <3>2, <3>3 DEF TaskStep, RuntimeStep
  <2>3. ASSUME NEW d \in Deliveries, BrokerStep(d) PROVE AttemptsUsedUp'
    <3>1. CASE Ignore(d) \/ RefuseInterrupted(d) \/ RefuseByBreaker(d) \/ Admit(d)
      <4>1. \A e \in Deliveries : e # d => fault'[e] = fault[e] /\ attempt'[e] = attempt[e]
        BY <2>1, <3>1
        DEF Ignore, RefuseInterrupted, RefuseByBreaker, Admit, Delivered, DeadLetter
      <4>2. CASE Ignore(d)
        BY <1>2, <2>1, <4>1, <4>2 DEF Ignore, OthersPass, LastErrors, None
      <4>3. CASE RefuseInterrupted(d) \/ RefuseByBreaker(d) \/ Admit(d)
        BY <1>2, <2>1, <4>1, <4>3
        DEF RefuseInterrupted, RefuseByBreaker, Admit, DeadLetter, Interruption,
            LastErrors, None
      <4> QED  BY <3>1, <4>2, <4>3
    <3>2. CASE Redeliver(d)
      BY <1>2, <3>2 DEF Redeliver
    <3> QED  BY <2>3, <3>1, <3>2 DEF BrokerStep
  <2>4. ASSUME NEW tasks, NEW why \in Stops, Abort(tasks, why), attempt' = attempt
        PROVE  AttemptsUsedUp'
    BY <1>2, <2>1, <2>4 DEF Abort, Stops, LastErrors
  <2>5. ASSUME NEW t \in StopTimes, EmergencyStop(t) PROVE AttemptsUsedUp'
    BY <2>4, <2>5 DEF EmergencyStop, Stops
  <2>6. CASE Stop
    BY <2>4, <2>6 DEF Stop, Stops
  <2>7. CASE Start \/ Unsubscribed \/ FailuresExpire \/ UNCHANGED vars
    BY <1>2, <2>7 DEF Start, Unsubscribed, FailuresExpire, vars
  <2> QED  BY <1>2, <2>2, <2>3, <2>5, <2>6, <2>7 DEF Next
<1>3. Typed /\ Undecided /\ [Next]_vars => Undecided'
  BY NextCounts DEF CountFollows
<1>4. Init => Undecided
  BY DEF Init, Undecided, Working
<1> QED  BY <1>1, <1>2, <1>3, <1>4, OthersPassHolds, TypedInit, TypedNext, PTL DEF Spec

\* recordFailure is called for a timeout and for the error of a last attempt only, once
\* in a pass of processTask over a delivery: stops, guards and budgets never open the
\* breaker, nor does an attempt that another follows.
THEOREM OnlyFailuresCount ==
    ASSUME IsFiniteSet(Deliveries)
    PROVE  Spec => []OnlyFailedTasksCounted
<1>1. Typed /\ Counted /\ AttemptsUsedUp => OnlyFailedTasksCounted
  <2> SUFFICES ASSUME Typed, Counted, AttemptsUsedUp PROVE OnlyFailedTasksCounted
    OBVIOUS
  <2> DEFINE n == AllBegun
             m == [d \in Deliveries |-> Passes(d)]
  <2>1. /\ n \in [Deliveries -> Nat] /\ m \in [Deliveries -> Nat] /\ failures \in Nat
        /\ \A d \in Deliveries : m[d] >= n[d]
    BY DEF Typed, TypeOK, AllBegun, Begun, Passes, Breaker!WindowTypeOK
  <2>2. failures <= Cardinality(Units(n))
    BY DEF Counted
  <2>3. Units(m) = UNION {{d} \X (1 .. Passes(d)) : d \in Deliveries}
    BY DEF Units
  <2> HIDE DEF n, m
  <2>4. /\ Cardinality(Units(n)) \in Nat /\ Cardinality(Units(m)) \in Nat
        /\ Cardinality(Units(n)) <= Cardinality(Units(m))
    BY <2>1, UnitsAreFinite, UnitsGrow
  <2>5. failures <= Cardinality(Units(m))
    BY <2>1, <2>2, <2>4
  <2> QED  BY <2>3, <2>5 DEF OnlyFailedTasksCounted, Passes, AttemptsUsedUp
<1> QED  BY <1>1, CountedHolds, AttemptsUsedUpHolds, PTL
-----------------------------------------------------------------------------
(* The actor implements StoppableWorker.                                   *)

\* The drain and the subscription go together, nothing is taken before start(), and a
\* fault that says emergency_stop is true for ever.
DrainIsKnown ==
    /\ stopping <=> subscription \in {"closing", "closed"}
    /\ subscription = "none" => \A d \in Deliveries : pc[d] = "queued"
StoppedIsCovered ==
    \A d \in Deliveries : fault[d] = "emergency_stop" => SentBeforeStop(d)

WorkerInv == /\ Typed /\ Undecided /\ StoppedWorkNeverRuns
             /\ DrainIsKnown /\ StoppedIsCovered

IsOver(d) == pc[d] = "acked" \/ fault[d] = "emergency_stop"

\* What a step of one delivery is to a worker: what is over stays over, an attempt
\* begins only when no stop and no drain forbids it, a stop is blamed if it covers.
WorkerMove(d) ==
    /\ OnlyMoves(d)
    /\ UNCHANGED subscription /\ subscription # "none"
    /\ IsOver(d) => IsOver(d)'
    /\ pc'[d] = "running" => /\ pc[d] = "attempt" /\ fault'[d] = None
                             /\ ~SentBeforeStop(d) /\ ~stopping
    /\ fault'[d] = "emergency_stop" => SentBeforeStop(d)

LEMMA AttemptFailsIsWorkerMove ==
    ASSUME WorkerInv, NEW d \in Deliveries, pc[d] \in {"running", "publishing"},
           NEW err \in {"handler_error", "budget_exceeded", "task_timeout",
                        "publish_error"},
           AttemptFails(d, err), UNCHANGED controlVars
    PROVE  WorkerMove(d)
<1>1. /\ \A e \in Deliveries \ {d} : pc'[e] = pc[e] /\ fault'[e] = fault[e]
      /\ \/ pc'[d] = "backoff"
         \/ /\ pc'[d] = "dlq" /\ fault'[d] # None
            /\ fault'[d] = "emergency_stop" => SentBeforeStop(d)
  BY AttemptFailsMoves DEF WorkerInv
<1>2. pc'[d] = "backoff" => fault'[d] = None
  BY DEF AttemptFails, DeadLetter, MoveTo, WorkerInv, Undecided, Working, Typed, TypeOK
<1>3. ~IsOver(d) /\ subscription # "none"
  BY DEF IsOver, WorkerInv, Undecided, Working, None, DrainIsKnown
<1> QED
  BY <1>1, <1>2, <1>3 DEF WorkerMove, OnlyMoves, controlVars, None

LEMMA DeliveryIsWorkerMove ==
    ASSUME WorkerInv, NEW d \in Deliveries, TaskStep(d) \/ BrokerStep(d)
    PROVE  WorkerMove(d)
<1> USE DEF WorkerInv, Typed, TypeOK, OnlyMoves, WorkerMove, IsOver, Undecided, Working,
            DrainIsKnown, StoppedIsCovered, controlVars
<1>1. CASE FirewallAnswers(d)
  BY <1>1 DEF FirewallAnswers, GuardAnswers, MoveTo, DeadLetter, None
<1>2. CASE GateAnswers(d)
  BY <1>2 DEF GateAnswers, GuardAnswers, MoveTo, DeadLetter, None
<1>3. CASE BeginAttempt(d)
  BY <1>3 DEF BeginAttempt, Interruption, MoveTo, DeadLetter, None
<1>4. CASE HandlerResolves(d)
  BY <1>4 DEF HandlerResolves, InFlight, MoveTo, None
<1>5. CASE HandlerThrows(d) \/ HandlerTimesOut(d) \/ CompletionRejected(d)
  <2>1. PICK err \in {"handler_error", "budget_exceeded", "task_timeout", "publish_error"} :
           AttemptFails(d, err)
    BY <1>5 DEF HandlerThrows, HandlerTimesOut, CompletionRejected
  <2>2. pc[d] \in {"running", "publishing"} /\ UNCHANGED controlVars
    BY <1>5 DEF HandlerThrows, HandlerTimesOut, CompletionRejected, InFlight
  <2> QED  BY <2>1, <2>2, AttemptFailsIsWorkerMove
<1>6. CASE CompletionPublished(d)
  BY <1>6 DEF CompletionPublished, MoveTo, None
<1>7. CASE BackoffElapses(d)
  BY <1>7 DEF BackoffElapses, MoveTo, None
<1>8. CASE DeadLetterPublished(d)
  BY <1>8 DEF DeadLetterPublished, MoveTo
<1>9. CASE DeadLetterRejected(d)
  BY <1>9 DEF DeadLetterRejected, MoveTo
<1>10. CASE Ignore(d) \/ RefuseInterrupted(d)
  BY <1>10 DEF Ignore, RefuseInterrupted, Delivered, Interruption, MoveTo, DeadLetter, None
<1>11. CASE RefuseByBreaker(d) \/ Admit(d)
  BY <1>11 DEF RefuseByBreaker, Admit, Delivered, Interruption, MoveTo, DeadLetter, None
<1>12. CASE Redeliver(d)
  BY <1>12 DEF Redeliver, MoveTo
<1> QED
  BY <1>1, <1>2, <1>3, <1>4, <1>5, <1>6, <1>7, <1>8, <1>9, <1>10, <1>11, <1>12
  DEF TaskStep, RuntimeStep, BrokerStep

LEMMA WorkerInvInit == Init => WorkerInv
<1> SUFFICES ASSUME Init PROVE WorkerInv
  OBVIOUS
<1>1. Typed
  BY TypedInit
<1> QED
  BY <1>1 DEF Init, WorkerInv, Undecided, Working, StoppedWorkNeverRuns, InFlight,
              DrainIsKnown, StoppedIsCovered, None

LEMMA WorkerInvNext == WorkerInv /\ [Next]_vars => WorkerInv'
<1> SUFFICES ASSUME WorkerInv, [Next]_vars PROVE WorkerInv'
  OBVIOUS
<1>1. Typed' /\ Undecided'
  BY TypedNext, NextCounts DEF WorkerInv, CountFollows
<1>2. StoppedWorkNeverRuns'
  BY StoppedStaysOver DEF WorkerInv
<1>3. ASSUME NEW d \in Deliveries, TaskStep(d) \/ BrokerStep(d)
      PROVE  DrainIsKnown' /\ StoppedIsCovered'
  BY <1>3, DeliveryIsWorkerMove
  DEF WorkerMove, OnlyMoves, WorkerInv, DrainIsKnown, StoppedIsCovered, SentBeforeStop
<1>4. ASSUME NEW t \in StopTimes, EmergencyStop(t) PROVE DrainIsKnown' /\ StoppedIsCovered'
  <2>1. stoppedAt \in Int /\ t \in Int /\ \A d \in Deliveries : SentAt[d] \in Int
    BY ActorAssumption DEF NeverStopped, WorkerInv, Typed, TypeOK
  <2> QED
    BY <1>4, <2>1
    DEF EmergencyStop, Abort, InFlight, WorkerInv, DrainIsKnown, StoppedIsCovered,
        SentBeforeStop
<1>5. CASE Stop
  <2>1. /\ stopping' = TRUE /\ subscription' = "closing" /\ stoppedAt' = stoppedAt
        /\ \A d \in Deliveries : fault'[d] = (IF d \in InFlight THEN "actor_stopped"
                                                             ELSE fault[d])
    BY <1>5 DEF Stop, Abort
  <2>2. DrainIsKnown'
    BY <2>1 DEF DrainIsKnown
  <2>3. StoppedIsCovered'
    BY <2>1 DEF WorkerInv, StoppedIsCovered, SentBeforeStop
  <2> QED  BY <1>1, <1>2, <2>2, <2>3 DEF WorkerInv
<1>6. CASE Start
  <2>1. /\ UNCHANGED <<stopping, stoppedAt, fault>>
        /\ subscription = "none" /\ subscription' = "open"
    BY <1>6 DEF Start
  <2>2. ~stopping
    BY <2>1 DEF WorkerInv, DrainIsKnown
  <2>3. DrainIsKnown'
    BY <2>1, <2>2 DEF DrainIsKnown
  <2>4. StoppedIsCovered'
    BY <2>1 DEF WorkerInv, StoppedIsCovered, SentBeforeStop
  <2> QED  BY <1>1, <1>2, <2>3, <2>4 DEF WorkerInv
<1>7. CASE Unsubscribed
  <2>1. /\ UNCHANGED <<stopping, stoppedAt, fault>>
        /\ subscription = "closing" /\ subscription' = "closed"
    BY <1>7 DEF Unsubscribed
  <2>2. stopping
    BY <2>1 DEF WorkerInv, DrainIsKnown
  <2>3. DrainIsKnown'
    BY <2>1, <2>2 DEF DrainIsKnown
  <2>4. StoppedIsCovered'
    BY <2>1 DEF WorkerInv, StoppedIsCovered, SentBeforeStop
  <2> QED  BY <1>1, <1>2, <2>3, <2>4 DEF WorkerInv
<1>8. CASE FailuresExpire \/ UNCHANGED vars
  <2>1. UNCHANGED <<stopping, stoppedAt, fault, subscription, pc>>
    BY <1>8 DEF FailuresExpire, vars, controlVars
  <2>2. DrainIsKnown'
    BY <2>1 DEF WorkerInv, DrainIsKnown
  <2>3. StoppedIsCovered'
    BY <2>1 DEF WorkerInv, StoppedIsCovered, SentBeforeStop
  <2> QED  BY <1>1, <1>2, <2>2, <2>3 DEF WorkerInv
<1> QED
  BY <1>1, <1>2, <1>3, <1>4, <1>5, <1>6, <1>7, <1>8 DEF Next, WorkerInv

\* A delivery's step is a run, a return or a settlement of the worker.
LEMMA DeliverySimulates ==
    ASSUME WorkerInv, NEW d \in Deliveries, WorkerMove(d)
    PROVE  Worker!Run(d) \/ Worker!Return(d) \/ Worker!Settle
<1>1. /\ \A e \in Deliveries \ {d} : /\ e \in InFlight' <=> e \in InFlight
                                     /\ e \in Over' <=> e \in Over
      /\ d \in InFlight <=> pc[d] = "running"
      /\ d \in InFlight' <=> pc'[d] = "running"
      /\ d \in Over <=> IsOver(d)
      /\ d \in Over' <=> IsOver(d)'
      /\ InFlight \subseteq Deliveries /\ InFlight' \subseteq Deliveries
      /\ Over \subseteq Deliveries /\ Over' \subseteq Deliveries
  BY DEF WorkerMove, OnlyMoves, InFlight, Over, IsOver
<1>2. UNCHANGED <<stoppedAt, WorkerPhase>>
  BY DEF WorkerMove, OnlyMoves, WorkerPhase
<1>3. CASE pc'[d] = "running"
  <2>1. WorkerPhase = "open"
    BY <1>3 DEF WorkerMove, WorkerInv, DrainIsKnown, WorkerPhase, Typed, TypeOK
  <2>2. ~IsOver(d) /\ ~IsOver(d)' /\ pc[d] # "running" /\ ~SentBeforeStop(d)
    BY <1>3 DEF WorkerMove, WorkerInv, Undecided, Working, IsOver, None
  <2>3. InFlight' = InFlight \cup {d} /\ Over' = Over
    BY <1>1, <1>3, <2>2
  <2> QED
    BY <1>1, <1>2, <2>1, <2>2, <2>3 DEF Worker!Run, Worker!Covered, SentBeforeStop
<1>4. CASE pc[d] = "running" /\ pc'[d] # "running"
  <2>1. ~IsOver(d)
    BY <1>4 DEF WorkerInv, Undecided, Working, IsOver, None
  <2>2. InFlight' = InFlight \ {d} /\ Over' \in {Over, Over \cup {d}}
    BY <1>1, <1>4, <2>1
  <2> QED
    BY <1>1, <1>2, <1>4, <2>2 DEF Worker!Return
<1>5. CASE pc[d] # "running" /\ pc'[d] # "running"
  <2> DEFINE tasks == Over' \ Over
  <2>1. InFlight' = InFlight /\ Over \subseteq Over'
    BY <1>1, <1>5 DEF WorkerMove
  <2>2. tasks \in SUBSET (Deliveries \ InFlight) /\ Over' = Over \cup tasks
    BY <1>1, <1>5, <2>1
  <2> QED
    BY <1>2, <2>1, <2>2 DEF Worker!Settle
<1> QED
  BY <1>3, <1>4, <1>5

LEMMA StopSimulates ==
    ASSUME WorkerInv, NEW t \in StopTimes, EmergencyStop(t)
    PROVE  Worker!Stop(t)
<1>0. t \in Int /\ \A d \in Deliveries : SentAt[d] \in Int
  BY ActorAssumption
<1>1. ASSUME NEW d \in Deliveries
      PROVE  /\ pc'[d] = (IF d \in InFlight /\ SentAt[d] <= t THEN "dlq" ELSE pc[d])
             /\ fault'[d] = (IF d \in InFlight /\ SentAt[d] <= t THEN "emergency_stop"
                                                               ELSE fault[d])
  BY DEF EmergencyStop, Abort
<1>2. InFlight' = {d \in InFlight : SentAt[d] > t}
  BY <1>0, <1>1 DEF InFlight
<1>3. Over' = Over \cup {d \in InFlight : SentAt[d] <= t}
  BY <1>1 DEF Over, InFlight
<1>4. UNCHANGED WorkerPhase
  BY DEF EmergencyStop, WorkerPhase
<1> QED
  BY <1>2, <1>3, <1>4 DEF EmergencyStop, Worker!Stop, Worker!Learn

LEMMA DrainSimulates ==
    ASSUME WorkerInv, Stop
    PROVE  Worker!Drain
<1>1. ASSUME NEW d \in Deliveries
      PROVE  /\ pc'[d] = (IF d \in InFlight THEN "dlq" ELSE pc[d])
             /\ fault'[d] = (IF d \in InFlight THEN "actor_stopped" ELSE fault[d])
  BY DEF Stop, Abort
<1>2. InFlight' = {}
  BY <1>1 DEF InFlight
<1>3. Over' = Over
  BY <1>1 DEF Over, InFlight, WorkerInv, Undecided, Working, None
<1>4. WorkerPhase = "open" /\ WorkerPhase' = "closed"
  BY DEF Stop, WorkerPhase
<1> QED
  BY <1>2, <1>3, <1>4 DEF Stop, Worker!Drain

LEMMA StepSimulates ==
    WorkerInv /\ [Next]_vars => [Worker!Next]_(Worker!vars)
<1> SUFFICES ASSUME WorkerInv, [Next]_vars PROVE [Worker!Next]_(Worker!vars)
  OBVIOUS
<1>1. ASSUME NEW d \in Deliveries, TaskStep(d) \/ BrokerStep(d)
      PROVE  Worker!Next
  BY <1>1, DeliveryIsWorkerMove, DeliverySimulates DEF Worker!Next
<1>2. ASSUME NEW t \in StopTimes, EmergencyStop(t) PROVE Worker!Next
  BY <1>2, StopSimulates DEF Worker!Next
<1>3. CASE Stop
  BY <1>3, DrainSimulates DEF Worker!Next
<1>4. CASE Start
  <2>1. WorkerPhase = "new" /\ WorkerPhase' = "open"
    BY <1>4 DEF Start, WorkerPhase
  <2>2. UNCHANGED <<stoppedAt, InFlight, Over>>
    BY <1>4 DEF Start, InFlight, Over
  <2> QED  BY <2>1, <2>2 DEF Worker!Next, Worker!Open
<1>5. CASE Unsubscribed \/ FailuresExpire \/ UNCHANGED vars
  <2>1. UNCHANGED <<WorkerPhase, stoppedAt, InFlight, Over>>
    BY <1>5 DEF Unsubscribed, FailuresExpire, vars, controlVars, WorkerPhase, InFlight, Over
  <2> QED  BY <2>1 DEF Worker!vars
<1> QED
  BY <1>1, <1>2, <1>3, <1>4, <1>5 DEF Next

LEMMA InitSimulates == Init => Worker!Init
<1> SUFFICES ASSUME Init PROVE Worker!Init
  OBVIOUS
<1>1. WorkerPhase = "new" /\ stoppedAt = Worker!NeverStopped
  BY DEF Init, WorkerPhase, NeverStopped, Worker!NeverStopped
<1>2. InFlight = {} /\ Over = {}
  BY DEF Init, InFlight, Over, None
<1> QED
  BY <1>1, <1>2 DEF Worker!Init

\* The actor implements the worker under an emergency stop: its guards, attempts,
\* publishes, back-offs, redeliveries and drain are runs, returns and settlements, and a
\* stop ends exactly what it covers, for ever.
THEOREM ActorIsWorker == Spec => ImplementsWorker
BY InitSimulates, StepSimulates, WorkerInvInit, WorkerInvNext, PTL
DEF Spec, ImplementsWorker, Worker!Spec

\* In every state the actor can be relied on as any such worker: nothing covered runs,
\* what runs is not over, and only a started actor that does not drain runs anything.
THEOREM ActorObeysStops == Spec => []Worker!StopIsObeyed
<1>1. WorkerInv => Worker!StopIsObeyed
  <2> SUFFICES ASSUME WorkerInv PROVE Worker!StopIsObeyed
    OBVIOUS
  <2>1. \A d \in InFlight : ~Worker!Covered(d)
    BY DEF WorkerInv, StoppedWorkNeverRuns, SentBeforeStop, Worker!Covered
  <2>2. InFlight \cap Over = {}
    BY DEF WorkerInv, Undecided, Working, None, InFlight, Over
  <2>3. WorkerPhase # "open" => InFlight = {}
    BY DEF WorkerInv, DrainIsKnown, StoppedWorkNeverRuns, InFlight, WorkerPhase, Typed, TypeOK
  <2> QED  BY <2>1, <2>2, <2>3 DEF Worker!StopIsObeyed
<1> QED
  BY <1>1, WorkerInvInit, WorkerInvNext, PTL DEF Spec
=============================================================================
