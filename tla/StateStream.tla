----------------------------- MODULE StateStream -----------------------------
(***************************************************************************)
(* DistributedStateMiddleware: a KaibanJS team's store is observed, each   *)
(* change becomes a delta of the parts that changed, and the delta is      *)
(* published on the state channel, where AgentStatusTracker (or a listener)*)
(* records it.  Redis Pub/Sub keeps nothing: a publish may fail, and a     *)
(* subscriber that is away misses what is published meanwhile.             *)
(*                                                                         *)
(* The store is KaibanJS's; one of its actions may change several parts.   *)
(***************************************************************************)
EXTENDS Naturals, Sequences, SequencesExt

CONSTANTS
    Member,       \* the team's agents
    Job,          \* its tasks
    MaxMutations, \* bound: changes of the store
    MaxAway       \* bound: how often the subscriber loses its connection

Part == {"workflow", "agents", "tasks"}

VARIABLES
    store,     \* the team's store
    attached,  \* the middleware listens to the store
    channel,   \* deltas on their way to the subscriber
    joined,    \* the subscriber is subscribed
    known,     \* what the subscriber has recorded
    fresh,     \* parts whose last change reached the channel with the subscriber there
    mutations, away   \* counters of the bounds

streamVars == <<store, attached, channel, joined, known, fresh, mutations, away>>

AgentStatus == {"INITIAL", "THINKING", "THINKING_END", "USING_TOOL", "ISSUES_PARSING"}
TaskStatus == {"TODO", "DOING", "REVISE", "VALIDATED"}

BoardAgentStatus(s) ==
    CASE s = "ISSUES_PARSING" -> "ERROR"
      [] s = "THINKING" -> "THINKING"
      [] s = "USING_TOOL" -> "EXECUTING"
      [] OTHER -> "IDLE"

BoardTaskStatus(s) ==
    CASE s = "VALIDATED" -> "DONE" [] s = "REVISE" -> "DOING" [] OTHER -> s

\* The whole part as the board has it: the lists of agents and tasks are sent whole.
BoardPart(state, part) ==
    CASE part = "workflow" -> state.workflow
      [] part = "agents" -> [m \in Member |-> BoardAgentStatus(state.agents[m])]
      [] part = "tasks" -> [j \in Job |-> BoardTaskStatus(state.tasks[j])]

Fields(state, parts) == [p \in parts |-> BoardPart(state, p)]

Changed(state, prev) == {p \in Part : state[p] # prev[p]}

\* Mutant: the first part that changed is taken for the change.
ToBoardDelta_FirstPart(state, prev) ==
    LET changed == Changed(state, prev) IN
    Fields(state, IF "workflow" \in changed THEN {"workflow"}
                  ELSE IF "agents" \in changed THEN {"agents"} ELSE changed)

ToBoardDelta(state, prev) == Fields(state, Changed(state, prev))

TypeOK ==
    /\ store \in [workflow : {"INITIAL", "RUNNING", "FINISHED"},
                  agents : [Member -> AgentStatus], tasks : [Job -> TaskStatus]]
    /\ attached \in BOOLEAN /\ joined \in BOOLEAN
    /\ \A i \in DOMAIN channel : DOMAIN channel[i] \subseteq Part
    /\ DOMAIN known = Part /\ fresh \subseteq Part
    /\ mutations \in 0 .. MaxMutations /\ away \in 0 .. MaxAway

\* The bridge attaches the middleware before the team starts; the tracker knows nothing
\* and says IDLE of every agent.
Init ==
    /\ store = [workflow |-> "INITIAL", agents |-> [m \in Member |-> "INITIAL"],
                tasks |-> [j \in Job |-> "TODO"]]
    /\ attached = TRUE /\ joined = FALSE /\ channel = <<>>
    /\ known = [workflow |-> "none", agents |-> [m \in Member |-> "IDLE"],
                tasks |-> [j \in Job |-> "none"]]
    /\ fresh = {} /\ mutations = 0 /\ away = 0

\* What an action of the store does to it: a task and its agent go on together, and
\* the last task ends the workflow in the same change.
Acted(w, m, a, j, t) == [store EXCEPT !.workflow = w, !.agents[m] = a, !.tasks[j] = t]

Mutations ==
    {Acted(w, m, a, j, t) :
        w \in {store.workflow, IF store.workflow = "INITIAL" THEN "RUNNING" ELSE "FINISHED"},
        m \in Member, a \in AgentStatus, j \in Job, t \in TaskStatus} \ {store}

\* The store changes; what the middleware publishes arrives or is lost and logged.
Mutate(state, published) ==
    LET delta == ToBoardDelta(state, store) IN
    /\ mutations < MaxMutations
    /\ mutations' = mutations + 1
    /\ store' = state
    /\ IF attached /\ published /\ joined
       THEN channel' = Append(channel, delta) /\ fresh' = fresh \cup Changed(state, store)
       ELSE fresh' = fresh \ Changed(state, store) /\ UNCHANGED channel
    /\ UNCHANGED <<attached, joined, known, away>>

Detach ==
    /\ attached
    /\ attached' = FALSE
    /\ UNCHANGED <<store, channel, joined, known, fresh, mutations, away>>

Join ==
    /\ ~joined
    /\ joined' = TRUE
    /\ UNCHANGED <<store, attached, channel, known, fresh, mutations, away>>

Disconnected ==
    /\ joined /\ away < MaxAway
    /\ away' = away + 1
    /\ joined' = FALSE /\ channel' = <<>>
    /\ fresh' = fresh \ UNION {DOMAIN delta : delta \in Range(channel)}
    /\ UNCHANGED <<store, attached, known, mutations>>

\* onMessage: the parts of the delta replace what was known of them.
Deliver ==
    /\ channel # <<>>
    /\ known' = [p \in Part |-> IF p \in DOMAIN Head(channel) THEN Head(channel)[p]
                                ELSE known[p]]
    /\ channel' = Tail(channel)
    /\ UNCHANGED <<store, attached, joined, fresh, mutations, away>>

Next ==
    \/ \E state \in Mutations, published \in BOOLEAN : Mutate(state, published)
    \/ Detach \/ Join \/ Disconnected \/ Deliver

Spec == Init /\ [][Next]_streamVars

-----------------------------------------------------------------------------
(* Properties.                                                             *)

\* A lost delta or a subscriber that was away costs no more than the parts it was
\* about, until they change again: with nothing under way, every part whose last
\* change was published to the subscriber is known as the store has it.
StreamHeals ==
    channel = <<>> => \A p \in fresh : known[p] = BoardPart(store, p)
=============================================================================
