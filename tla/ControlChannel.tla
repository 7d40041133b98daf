----------------------------- MODULE ControlChannel -----------------------------
(* The emergency stop between the gateway that issues it and the worker nodes  *)
(* it must reach: src/src/infrastructure/control/control-channel.ts with its   *)
(* users shared/emergency-stop.ts and shared/agent-node.ts.  A stop is saved   *)
(* in Redis, then published; a node subscribes and reads the saved one before  *)
(* it takes tasks, and again whenever its connection comes back.               *)
(*                                                                             *)
(* A node's actor is AgentActor reduced to the tasks it runs and its           *)
(* stoppedAt; both implement StoppableWorker.  An orchestrator with a stop     *)
(* signal is a node that runs one task sent at its startedAt.  A command is    *)
(* named by its moment.                                                        *)
EXTENDS Integers, FiniteSets

CONSTANTS
    Nodes,        \* worker nodes
    Tasks,        \* task messages, on a queue all nodes read
    SentAt,       \* the timestamp of each
    Moments,      \* issuedAt of the stop commands that may be issued
    MaxDrops,     \* bound: connections lost in a run
    MaxCrashes    \* bound: nodes that die or drain in a run

ASSUME ControlAssumption ==
    /\ SentAt \in [Tasks -> Nat]
    /\ Moments \subseteq Nat \ {0}        \* z.number().int().positive()
    /\ {MaxDrops, MaxCrashes} \subseteq Nat

VARIABLES
    command,   \* where issueStopAll is with each command
    saved,     \* the key kaiban-control:stopped-at, NeverStopped while unset
    node,      \* each node: its start, its subscription and its actor
    ended,     \* tasks that finished, or were stopped or refused
    drops,     \* connections lost so far, for MaxDrops
    crashes    \* nodes lost so far, for MaxCrashes

vars == <<command, saved, node, ended, drops, crashes>>

-----------------------------------------------------------------------------
NeverStopped == -1

Later(s, t) == IF s > t THEN s ELSE t

\* A node: phase of startAgentNode; link of the subscriber connection; messages
\* on that connection; catchUp loops still to succeed; the actor's stoppedAt and
\* tasks.  History: the saved stop when the node started and when its connection
\* was last ready, and whether that connection was never lost.
NodeStates ==
    [phase     : {"off", "subscribing", "reading", "up"},
     link      : {"down", "joining", "subscribed"},
     inbox     : SUBSET Moments,
     catchUps  : 0 .. MaxDrops + 1,
     stoppedAt : Moments \cup {NeverStopped},
     running   : SUBSET Tasks,
     atStart   : Moments \cup {NeverStopped},
     atReady   : Moments \cup {NeverStopped},
     steady    : BOOLEAN]

Off == [phase |-> "off", link |-> "down", inbox |-> {}, catchUps |-> 0,
        stoppedAt |-> NeverStopped, running |-> {}, atStart |-> NeverStopped,
        atReady |-> NeverStopped, steady |-> TRUE]

Becomes(n, state) == node' = [node EXCEPT ![n] = state]

\* Mutant: the actor takes any stop, an older one too.
StoppedByAny(state, t) ==
    [state EXCEPT !.stoppedAt = t, !.running = {k \in @ : SentAt[k] > t}]

\* emergencyStop(t) of the actor: a stop no later than the last one is a no-op.
Stopped(state, t) ==
    IF t > state.stoppedAt
    THEN [state EXCEPT !.stoppedAt = t, !.running = {k \in @ : SentAt[k] > t}]
    ELSE state

\* onStop, from the channel or from the saved key; killed tasks do not come back.
OnStop(n, state, t) ==
    /\ Becomes(n, Stopped(state, t))
    /\ ended' = ended \cup (state.running \ Stopped(state, t).running)

Init ==
    /\ command = [t \in Moments |-> "none"]
    /\ saved = NeverStopped
    /\ node = [n \in Nodes |-> Off]
    /\ ended = {}
    /\ drops = 0 /\ crashes = 0

-----------------------------------------------------------------------------
(* issueStopAll, for each command; several gateways may issue at once. *)

CommandMoves(t, from, to) ==
    /\ command[t] = from
    /\ command' = [command EXCEPT ![t] = to]

Issue(t) ==
    /\ CommandMoves(t, "none", "saving")
    /\ UNCHANGED <<saved, node, ended, drops, crashes>>

\* SAVE_IF_LATER
Save(t) ==
    /\ CommandMoves(t, "saving", "publishing")
    /\ saved' = Later(saved, t)
    /\ UNCHANGED <<node, ended, drops, crashes>>

\* The eval rejects, applied or not, or the gateway dies.
SaveFails(t) ==
    /\ CommandMoves(t, "saving", "failed")
    /\ saved' \in {saved, Later(saved, t)}
    /\ UNCHANGED <<node, ended, drops, crashes>>

\* PUBLISH reaches the nodes subscribed at that moment, and no other.
Broadcast(t) ==
    node' = [n \in Nodes |-> IF node[n].link = "subscribed"
                             THEN [node[n] EXCEPT !.inbox = @ \cup {t}]
                             ELSE node[n]]

Publish(t) ==
    /\ CommandMoves(t, "publishing", "published")
    /\ Broadcast(t)
    /\ UNCHANGED <<saved, ended, drops, crashes>>

PublishFails(t) ==
    /\ CommandMoves(t, "publishing", "failed")
    /\ UNCHANGED node \/ Broadcast(t)
    /\ UNCHANGED <<saved, ended, drops, crashes>>

-----------------------------------------------------------------------------
(* ControlSubscriber, and startAgentNode around it. *)

\* The subscriber's first 'ready': its SUBSCRIBE is sent and catchUp begins.
Boot(n) ==
    /\ node[n].phase = "off"
    /\ Becomes(n, [Off EXCEPT !.phase = "subscribing", !.link = "joining",
                              !.catchUps = 1, !.atStart = saved, !.atReady = saved])
    /\ UNCHANGED <<command, saved, ended, drops, crashes>>

\* Redis has handled the SUBSCRIBE: start() goes on to read the saved stop.
Subscribed(n) ==
    /\ node[n].link = "joining"
    /\ Becomes(n, [node[n] EXCEPT !.link = "subscribed",
                      !.phase = IF @ = "subscribing" THEN "reading" ELSE @])
    /\ UNCHANGED <<command, saved, ended, drops, crashes>>

\* Mutant: the subscribe is not awaited before the read.
StartReadsUnsubscribed(n) ==
    /\ node[n].phase \in {"subscribing", "reading"}
    /\ OnStop(n, [node[n] EXCEPT !.phase = "up"], saved)
    /\ UNCHANGED <<command, saved, drops, crashes>>

\* Mutant: a failed read at start is left to the catch-up loop.
StartFailsOpen(n) ==
    /\ node[n].phase = "reading"
    /\ Becomes(n, [node[n] EXCEPT !.phase = "up"])
    /\ UNCHANGED <<command, saved, ended, drops, crashes>>

\* replaySaved at the end of start(); then the actor starts to take tasks.
StartReads(n) ==
    /\ node[n].phase = "reading"
    /\ OnStop(n, [node[n] EXCEPT !.phase = "up"], saved)
    /\ UNCHANGED <<command, saved, drops, crashes>>

\* start() fails closed: the subscribe or the read rejects, and the node with it.
StartFails(n) ==
    /\ node[n].phase \in {"subscribing", "reading"}
    /\ Becomes(n, Off)
    /\ UNCHANGED <<command, saved, ended, drops, crashes>>

\* The connection is lost, with the messages on it.
Drop(n) ==
    /\ node[n].phase # "off" /\ node[n].link # "down"
    /\ drops < MaxDrops
    /\ drops' = drops + 1
    /\ Becomes(n, [node[n] EXCEPT !.link = "down", !.inbox = {}, !.steady = FALSE])
    /\ UNCHANGED <<command, saved, ended, crashes>>

\* Mutant: 'ready' is listened for once.
ReconnectSilently(n) ==
    /\ node[n].phase # "off" /\ node[n].link = "down"
    /\ Becomes(n, [node[n] EXCEPT !.link = "joining", !.atReady = saved])
    /\ UNCHANGED <<command, saved, ended, drops, crashes>>

\* 'ready' again: ioredis sends the SUBSCRIBE anew and another catchUp begins,
\* on the reader's connection: Redis may handle the two in either order.
Reconnect(n) ==
    /\ node[n].phase # "off" /\ node[n].link = "down"
    /\ Becomes(n, [node[n] EXCEPT !.link = "joining", !.catchUps = @ + 1,
                                  !.atReady = saved])
    /\ UNCHANGED <<command, saved, ended, drops, crashes>>

\* Mutant: the loop ends with its first try, failed or not.
CatchUpGivesUp(n) ==
    /\ node[n].catchUps > 0
    /\ Becomes(n, [node[n] EXCEPT !.catchUps = @ - 1])
    /\ UNCHANGED <<command, saved, ended, drops, crashes>>

\* The read of a catchUp loop that succeeds; one that fails is tried again.
CatchUpReads(n) ==
    /\ node[n].catchUps > 0
    /\ OnStop(n, [node[n] EXCEPT !.catchUps = @ - 1], saved)
    /\ UNCHANGED <<command, saved, drops, crashes>>

Receive(n, t) ==
    /\ t \in node[n].inbox
    /\ OnStop(n, [node[n] EXCEPT !.inbox = @ \ {t}], t)
    /\ UNCHANGED <<command, saved, drops, crashes>>

-----------------------------------------------------------------------------
\* The broker hands a task over: one the stop covers is refused.
TakeTask(n, k) ==
    /\ node[n].phase = "up"
    /\ k \notin ended /\ \A m \in Nodes : k \notin node[m].running
    /\ IF SentAt[k] > node[n].stoppedAt
       THEN Becomes(n, [node[n] EXCEPT !.running = @ \cup {k}]) /\ UNCHANGED ended
       ELSE ended' = ended \cup {k} /\ UNCHANGED node
    /\ UNCHANGED <<command, saved, drops, crashes>>

TaskFinishes(n, k) ==
    /\ k \in node[n].running
    /\ Becomes(n, [node[n] EXCEPT !.running = @ \ {k}])
    /\ ended' = ended \cup {k}
    /\ UNCHANGED <<command, saved, drops, crashes>>

\* An attempt is over and the task is not: it waits for the next attempt, or the
\* broker has it again.
TaskReturns(n, k) ==
    /\ k \in node[n].running
    /\ Becomes(n, [node[n] EXCEPT !.running = @ \ {k}])
    /\ UNCHANGED <<command, saved, ended, drops, crashes>>

\* The process drains (its tasks are dead-lettered) or dies (the broker has them).
Leave(n) ==
    /\ node[n].phase # "off"
    /\ crashes < MaxCrashes
    /\ crashes' = crashes + 1
    /\ Becomes(n, Off)
    /\ ended' \in {ended, ended \cup node[n].running}
    /\ UNCHANGED <<command, saved, drops>>

-----------------------------------------------------------------------------
GatewayStep(t) ==
    Issue(t) \/ Save(t) \/ SaveFails(t) \/ Publish(t) \/ PublishFails(t)

NodeStep(n) ==
    \/ Boot(n) \/ Subscribed(n) \/ StartReads(n) \/ StartFails(n)
    \/ Drop(n) \/ Reconnect(n) \/ CatchUpReads(n) \/ Leave(n)
    \/ \E t \in Moments : Receive(n, t)
    \/ \E k \in Tasks : TakeTask(n, k) \/ TaskFinishes(n, k) \/ TaskReturns(n, k)

Next ==
    \/ \E t \in Moments : GatewayStep(t)
    \/ \E n \in Nodes : NodeStep(n)

\* Redis comes back and answers, and messages on a live connection are handled.
Fairness ==
    \A n \in Nodes :
        /\ WF_vars(Reconnect(n)) /\ WF_vars(Subscribed(n))
        /\ WF_vars(CatchUpReads(n))
        /\ WF_vars(\E t \in Moments : Receive(n, t))

Spec == Init /\ [][Next]_vars /\ Fairness

-----------------------------------------------------------------------------
TypeOK ==
    /\ command \in [Moments ->
            {"none", "saving", "publishing", "published", "failed"}]
    /\ saved \in Moments \cup {NeverStopped}
    /\ node \in [Nodes -> NodeStates]
    /\ ended \subseteq Tasks
    /\ drops \in 0 .. MaxDrops /\ crashes \in 0 .. MaxCrashes

\* Roadmap ES-3: a node never runs a task that a stop saved before the node's
\* start covers: the actor starts only once the saved stop was read and applied.
SavedStopBindsStarters ==
    \A n \in Nodes : \A k \in node[n].running : SentAt[k] > node[n].atStart

\* A published stop is covered by the saved one, whatever the order in which two
\* gateways save and publish: whoever reads the key later misses neither.
PublishedIsSaved ==
    \A t \in Moments : command[t] \in {"publishing", "published"} => saved >= t

\* Subscribing before reading leaves no gap: a node whose connection was never
\* lost has applied every published stop or has its message coming.
SteadyNodesHearEverything ==
    \A n \in Nodes : node[n].phase = "up" /\ node[n].steady =>
        \A t \in Moments : command[t] = "published" =>
            t <= node[n].stoppedAt \/ t \in node[n].inbox

\* A node that has caught up after a reconnect obeys what was saved by then, the
\* stops whose messages it missed or that were never published included.
CaughtUpNodesObeySaved ==
    \A n \in Nodes : node[n].phase = "up" /\ node[n].catchUps = 0 =>
        node[n].atReady <= node[n].stoppedAt

\* A node that was cut off when a stop was saved applies it in the end, without
\* another message, unless it leaves.
MissedStopIsCaughtUp ==
    \A n \in Nodes, t \in Moments :
        node[n].phase = "up" /\ node[n].link = "down" /\ saved >= t
            ~> node[n].stoppedAt >= t \/ node[n].phase = "off"

\* Both reads of the key bind: the one before the first task, and the one after a
\* connection came back.
NodesObeySaved == SavedStopBindsStarters /\ CaughtUpNodesObeySaved

-----------------------------------------------------------------------------
(* Each node as a worker under the emergency stop. *)

Worker(n) == INSTANCE StoppableWorker
    WITH Replaceable <- TRUE,
         phase <- IF node[n].phase = "up" THEN "open" ELSE "new",
         stoppedAt <- node[n].stoppedAt, running <- node[n].running

\* Every node keeps what an emergency stop promises, whichever way the stop comes
\* (message, start, catch-up), in any order and however often, beside other nodes
\* on the same queue: Worker(n)!Spec for every n, the promise AgentActor keeps.
NodesImplementWorker ==
    /\ \A n \in Nodes : Worker(n)!Init
    /\ [][\A n \in Nodes : [Worker(n)!Next]_(Worker(n)!vars)]_vars

\* V2.1-ROADMAP.md, ES-3: a node whose connection came back reads the saved stop,
\* "so a node that missed the message still refuses the tasks sent before the stop".
ReconnectedNodesMissNothing ==
    \A n \in Nodes :
        node[n].phase = "up" /\ node[n].link = "subscribed" /\ node[n].catchUps = 0 =>
            \A t \in Moments : command[t] = "published" =>
                t <= node[n].stoppedAt \/ t \in node[n].inbox
=============================================================================
