---------------------------- MODULE CompletionRouter ----------------------------
(* src/src/shared/completion-router.ts: one subscription to the completed and  *)
(* failed queues, from which each wait() takes the result of its own task.     *)
(* The broker is durable and may deliver a result twice; another router on the *)
(* same BullMQ queue may win a result and drop it.                             *)
EXTENDS Naturals, FiniteSets

CONSTANTS
    Waits,        \* calls of wait()
    Tasks,        \* task ids
    TaskOf,       \* the task id each call waits for
    Signals,      \* abort signals callers pass
    SignalOf,     \* the signal of each call, NoSignal for none
    NoSignal,
    Nobody,       \* no call: the task id has no entry
    FanIn,        \* the calls one waitAll() makes, all with FanInSignal
    FanInSignal,
    Competing,    \* is another router consuming the same queues?
    MaxResults    \* bound: results published per task

ASSUME RouterAssumption ==
    /\ TaskOf \in [Waits -> Tasks]
    /\ NoSignal \notin Signals /\ Nobody \notin Waits
    /\ SignalOf \in [Waits -> Signals \cup {NoSignal}]
    /\ FanIn \subseteq Waits
    /\ \A v, w \in FanIn : TaskOf[v] = TaskOf[w] => v = w
    /\ \A w \in FanIn : SignalOf[w] = FanInSignal
    /\ Competing \in BOOLEAN
    /\ MaxResults \in Nat

VARIABLES
    status,        \* the promise of each call: not made, waiting, or its outcome
    waiter,        \* pendingResolve, pendingReject and timers, by task id
    listeners,     \* calls whose abort listener is still on their signal
    aborted,       \* signals that have fired
    subscription,  \* of the completed and of the failed queue
    queue,         \* results the broker holds: <<task, outcome>>
    published,     \* results published per task, for MaxResults
    fanIn          \* the promise of waitAll

vars == <<status, waiter, listeners, aborted, subscription, queue, published,
          fanIn>>

-----------------------------------------------------------------------------
Queues == {"completed", "failed"}

\* What a result does to its waiter (an emergency_stop record is a failure whose
\* error class tells the workflow to end).
Outcomes == {"resolved", "failed"}
QueueOf(outcome) == IF outcome = "resolved" THEN "completed" ELSE "failed"

Rejections == {"duplicate", "aborted", "timeout", "subscribe_failed"}
Statuses   == {"idle", "waiting"} \cup Outcomes \cup Rejections

Waiting    == {w \in Waits : status[w] = "waiting"}
Settled(w) == status[w] \notin {"idle", "waiting"}

\* clearPending for the tasks of the given waiters, and the settling of each.
Settle(calls, outcome) ==
    /\ status' = [w \in Waits |-> IF w \in calls THEN outcome ELSE status[w]]
    /\ waiter' = [t \in Tasks |-> IF waiter[t] \in calls THEN Nobody
                                                         ELSE waiter[t]]

Init ==
    /\ status = [w \in Waits |-> "idle"]
    /\ waiter = [t \in Tasks |-> Nobody]
    /\ listeners = {} /\ aborted = {}
    /\ subscription = [q \in Queues |-> "none"]
    /\ queue = {}
    /\ published = [t \in Tasks |-> 0]
    /\ fanIn = "open"

-----------------------------------------------------------------------------
\* Mutant: a second wait of a task id overwrites the first one's entry.
WaitUnguarded(calls) ==
    LET stopped(w) == SignalOf[w] \in aborted
        made       == {w \in calls : ~stopped(w)}
    IN
    /\ \A w \in calls : status[w] = "idle"
    /\ status' = [w \in Waits |-> IF w \notin calls THEN status[w]
                                  ELSE IF stopped(w) THEN "aborted" ELSE "waiting"]
    /\ waiter' = [t \in Tasks |-> IF \E w \in made : TaskOf[w] = t
                                  THEN CHOOSE w \in made : TaskOf[w] = t
                                  ELSE waiter[t]]
    /\ listeners' = listeners \cup {w \in made : SignalOf[w] # NoSignal}
    /\ subscription' = [q \in Queues |-> IF subscription[q] = "none" /\ made # {}
                                         THEN "pending" ELSE subscription[q]]
    /\ UNCHANGED <<aborted, queue, published, fanIn>>

\* wait(), for the calls one turn of the event loop makes: a single one, or those
\* of waitAll.  A call is refused for a task id already waited for or a signal
\* already fired; the others register and subscribe what is not subscribed yet.
Wait(calls) ==
    LET taken(w)   == waiter[TaskOf[w]] # Nobody
        stopped(w) == SignalOf[w] \in aborted
        made       == {w \in calls : ~taken(w) /\ ~stopped(w)}
    IN
    /\ \A w \in calls : status[w] = "idle"
    /\ status' = [w \in Waits |-> IF w \notin calls THEN status[w]
                                  ELSE IF taken(w)   THEN "duplicate"
                                  ELSE IF stopped(w) THEN "aborted" ELSE "waiting"]
    /\ waiter' = [t \in Tasks |-> IF \E w \in made : TaskOf[w] = t
                                  THEN CHOOSE w \in made : TaskOf[w] = t
                                  ELSE waiter[t]]
    /\ listeners' = listeners \cup {w \in made : SignalOf[w] # NoSignal}
    /\ subscription' = [q \in Queues |-> IF subscription[q] = "none" /\ made # {}
                                         THEN "pending" ELSE subscription[q]]
    /\ UNCHANGED <<aborted, queue, published, fanIn>>

Turns == {{w} : w \in Waits \ FanIn} \cup ({FanIn} \ {{}})

SubscribeSucceeds(q) ==
    /\ subscription[q] = "pending"
    /\ subscription' = [subscription EXCEPT ![q] = "active"]
    /\ UNCHANGED <<status, waiter, listeners, aborted, queue, published, fanIn>>

\* Mutant: the queue is left to the next wait(), its waiters to their timers.
SubscribeFailsQuietly(q) ==
    /\ subscription[q] = "pending"
    /\ subscription' = [subscription EXCEPT ![q] = "none"]
    /\ UNCHANGED <<status, waiter, listeners, aborted, queue, published, fanIn>>

\* A failed subscribe rejects everyone and leaves the queue to the next wait().
SubscribeFails(q) ==
    /\ subscription[q] = "pending"
    /\ subscription' = [subscription EXCEPT ![q] = "none"]
    /\ Settle(Waiting \cap {waiter[t] : t \in Tasks}, "subscribe_failed")
    /\ UNCHANGED <<listeners, aborted, queue, published, fanIn>>

\* A worker publishes an outcome of a task (more than one when it ran twice).
ResultPublished(t, outcome) ==
    /\ published[t] < MaxResults
    /\ published' = [published EXCEPT ![t] = @ + 1]
    /\ queue' = queue \cup {<<t, outcome>>}
    /\ UNCHANGED <<status, waiter, listeners, aborted, subscription, fanIn>>

\* The queue's handler: a result nobody waits for is dropped.
ResultDelivered(t, outcome) ==
    /\ <<t, outcome>> \in queue
    /\ subscription[QueueOf(outcome)] = "active"
    /\ queue' = queue \ {<<t, outcome>>}
    /\ Settle({waiter[t]} \ {Nobody}, outcome)
    /\ UNCHANGED <<listeners, aborted, subscription, published, fanIn>>

\* Another router on the queue wins the result and drops it.
ResultTaken(t, outcome) ==
    /\ Competing
    /\ <<t, outcome>> \in queue
    /\ queue' = queue \ {<<t, outcome>>}
    /\ UNCHANGED <<status, waiter, listeners, aborted, subscription, published,
                   fanIn>>

\* Mutant: the timer runs only once the queues are being read.
TimerFiresIfSubscribed(w) ==
    /\ waiter[TaskOf[w]] = w
    /\ \A q \in Queues : subscription[q] = "active"
    /\ Settle({w}, "timeout")
    /\ UNCHANGED <<listeners, aborted, subscription, queue, published, fanIn>>

\* The timer of a call is cleared with its entry, so only a waiter's can fire.
TimerFires(w) ==
    /\ waiter[TaskOf[w]] = w
    /\ Settle({w}, "timeout")
    /\ UNCHANGED <<listeners, aborted, subscription, queue, published, fanIn>>

\* A signal fires.  The listeners run in the order they were added; the first of
\* a task clears its entry and rejects its own call, which is the waiter only if
\* no earlier call on that task left its listener on the signal.
Abort(s) ==
    LET Heard(t)  == {w \in listeners : SignalOf[w] = s /\ TaskOf[w] = t}
        cleared   == {t \in Tasks : waiter[t] # Nobody /\ Heard(t) # {}}
        rejected  == {w \in Waits : waiter[TaskOf[w]] = w /\ Heard(TaskOf[w]) = {w}}
    IN
    /\ s \notin aborted
    /\ aborted' = aborted \cup {s}
    /\ listeners' = {w \in listeners : SignalOf[w] # s}
    /\ status' = [w \in Waits |-> IF w \in rejected THEN "aborted" ELSE status[w]]
    /\ waiter' = [t \in Tasks |-> IF t \in cleared THEN Nobody ELSE waiter[t]]
    /\ UNCHANGED <<subscription, queue, published, fanIn>>

\* Mutant: waitAll does not look at its signal in the end.
WaitAllAlwaysReturns ==
    /\ fanIn = "open"
    /\ \A w \in FanIn : Settled(w)
    /\ fanIn' = "returned"
    /\ UNCHANGED <<status, waiter, listeners, aborted, subscription, queue,
                   published>>

\* waitAll() answers once every call has: with each outcome, or by rejecting when
\* its signal has fired.
WaitAllAnswers ==
    /\ fanIn = "open"
    /\ \A w \in FanIn : Settled(w)
    /\ fanIn' = IF FanInSignal \in aborted THEN "rejected" ELSE "returned"
    /\ UNCHANGED <<status, waiter, listeners, aborted, subscription, queue,
                   published>>

Next ==
    \/ \E calls \in Turns : Wait(calls)
    \/ \E w \in Waits : TimerFires(w)
    \/ \E q \in Queues : SubscribeSucceeds(q) \/ SubscribeFails(q)
    \/ \E t \in Tasks, o \in Outcomes :
          ResultPublished(t, o) \/ ResultDelivered(t, o) \/ ResultTaken(t, o)
    \/ \E s \in Signals : Abort(s)
    \/ WaitAllAnswers

\* Timers fire and settled promises run their continuations.  Nothing is assumed
\* of the workers, the broker, the callers or the signals.
Fairness ==
    /\ \A w \in Waits : WF_vars(TimerFires(w))
    /\ WF_vars(WaitAllAnswers)

Spec == Init /\ [][Next]_vars /\ Fairness

-----------------------------------------------------------------------------
TypeOK ==
    /\ status \in [Waits -> Statuses]
    /\ waiter \in [Tasks -> Waits \cup {Nobody}]
    /\ listeners \subseteq Waits
    /\ aborted \subseteq Signals
    /\ subscription \in [Queues -> {"none", "pending", "active"}]
    /\ queue \subseteq Tasks \X Outcomes
    /\ published \in [Tasks -> 0 .. MaxResults]
    /\ fanIn \in {"open", "returned", "rejected"}

\* A call that waits is the one its task id leads to, so a result, the timer and
\* the signal can still reach it: no call is left with a promise nobody settles.
NoWaiterOrphaned ==
    \A w \in Waiting : waiter[TaskOf[w]] = w

\* While anyone waits both queues are subscribed, or being subscribed: a failed
\* subscribe leaves nobody waiting on a queue nobody reads.
WaitersAreListenedFor ==
    Waiting # {} => \A q \in Queues : subscription[q] # "none"

\* A wait that is pending can be settled: the router knows it, and reads the queues.
WaitersAreServed == NoWaiterOrphaned /\ WaitersAreListenedFor

\* A stop that reached one of its tasks ends the whole fan-in: waitAll does not
\* return the stop as if the tasks had failed one by one.
FanInEndsWithItsStop ==
    fanIn = "returned" => \A w \in FanIn : status[w] # "aborted"

\* A wait that was made settles, whatever the workers, the broker and the other
\* routers do with its result.
EveryWaitSettles ==
    \A w \in Waits : status[w] = "waiting" ~> Settled(w)

\* completion-router.ts:178: "aborting rejects the wait and cleans up".
AbortRejectsTheWait ==
    \A w \in Waiting : SignalOf[w] \notin aborted
=============================================================================
