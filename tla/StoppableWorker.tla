--------------------------- MODULE StoppableWorker ---------------------------
(* What an emergency stop promises of a worker that takes tasks: a task sent   *)
(* at or before the stop runs no more and is over, a task sent after it goes   *)
(* on, and no later, repeated or older stop gives a stopped task back.         *)
(*                                                                             *)
(* AgentActor implements it with its guards, attempts, publishes and           *)
(* redeliveries, and so does every node of ControlChannel: what the two have   *)
(* in common is this module.                                                   *)
EXTENDS Integers

CONSTANTS
    Tasks,        \* tasks the worker may be handed
    SentAt,       \* the timestamp of each
    Moments,      \* the moments of the stops that may reach the worker
    Replaceable   \* may its process end and a new one take its place?

VARIABLES
    phase,        \* new, open while it takes tasks, closed by a drain
    stoppedAt,    \* the latest stop it knows, NeverStopped until the first
    running,      \* tasks whose handler runs
    ended         \* tasks that are over, here or at another worker

vars == <<phase, stoppedAt, running, ended>>

NeverStopped == -1

Covered(k) == SentAt[k] <= stoppedAt

\* A stop counts only when it is later than all before it.
Learn(t) == t > stoppedAt /\ stoppedAt' = t

-----------------------------------------------------------------------------
Init ==
    /\ phase = "new" /\ stoppedAt = NeverStopped
    /\ running = {} /\ ended = {}

\* The worker begins to take tasks, with a saved stop if there is one.
Open ==
    /\ phase = "new" /\ phase' = "open"
    /\ UNCHANGED stoppedAt \/ \E t \in Moments : Learn(t)
    /\ UNCHANGED <<running, ended>>

\* The handler of a task is called.
Run(k) ==
    /\ phase = "open"
    /\ k \notin running \cup ended
    /\ ~Covered(k)
    /\ running' = running \cup {k}
    /\ UNCHANGED <<phase, stoppedAt, ended>>

\* The handler returns, throws or times out: the task is over, or runs again.
Return(k) ==
    /\ k \in running
    /\ running' = running \ {k}
    /\ ended' \in {ended, ended \cup {k}}
    /\ UNCHANGED <<phase, stoppedAt>>

\* Tasks that do not run here are refused, acknowledged or end elsewhere.
Settle ==
    /\ \E tasks \in SUBSET (Tasks \ running) : ended' = ended \cup tasks
    /\ UNCHANGED <<phase, stoppedAt, running>>

\* A stop ends what it covers at once, and nothing else.
Stop(t) ==
    /\ Learn(t)
    /\ running' = {k \in running : SentAt[k] > t}
    /\ ended' = ended \cup {k \in running : SentAt[k] <= t}
    /\ UNCHANGED phase

\* The drain cuts off what runs.
Drain ==
    /\ phase = "open" /\ phase' = "closed"
    /\ running' = {}
    /\ UNCHANGED <<stoppedAt, ended>>

\* The process dies or leaves; the next one knows of no stop yet.
Replace ==
    /\ Replaceable
    /\ phase' = "new" /\ stoppedAt' = NeverStopped
    /\ running' = {}
    /\ ended' \in {ended, ended \cup running}

Next ==
    \/ \E k \in Tasks : Run(k) \/ Return(k)
    \/ \E t \in Moments : Stop(t)
    \/ Open \/ Settle \/ Drain \/ Replace

Spec == Init /\ [][Next]_vars

-----------------------------------------------------------------------------
\* What a worker that obeys the stop can be relied on for in every state: nothing
\* covered runs, what runs is not over, and only an open worker runs anything.
StopIsObeyed ==
    /\ \A k \in running : ~Covered(k)
    /\ running \cap ended = {}
    /\ phase # "open" => running = {}
=============================================================================
