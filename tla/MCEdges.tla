------------------------------- MODULE MCEdges -------------------------------
(* The edges of a node: what it admits, stores, bridges and ends, one module   *)
(* per component, checked side by side.  They share no state; focus says which *)
(* one takes the steps of a behaviour, the others stay as they began.          *)
EXTENDS Integers, Sequences, FiniteSets

CONSTANTS
    Threshold, WindowMs, MaxTime, MaxFailures,
    Evaluation, Gated, TenantOf, AgentOf, UnitsOf, RequestLimit, CostLimit, CostCeiling,
    InvocationLimit, MaxChanges,
    Sequence, StepCount, MaxSignals,
    Request, Cancel, Nobody,
    Client, Call, MaxSessions, IdleTimeout, RequireConsent, MaxClock,
    Address, Holder, Limiter, Secured, MaxMoment, MaxAsks,
    Work, Junk, Sends, MaxRecords, MaxBreaks,
    Attempts, MaxCalls, MaxRotations

\* One tenant and one agent, so that every scope is shared; costs 1 and 2.
OneTenant == [e \in Evaluation |-> "T1"]
OneAgent == [e \in Evaluation |-> CHOOSE a \in Gated : TRUE]
TwoCosts == [e \in Evaluation |-> IF e = CHOOSE x \in Evaluation : TRUE THEN 1 ELSE 2]

\* A limiter that has to evict, and the two of the emergency stop.
Limiters == [shared  |-> [max |-> 2, window |-> 1, keys |-> 1],
             stop    |-> [max |-> 1, window |-> 1, keys |-> 2],
             refused |-> [max |-> 1, window |-> 1, keys |-> 2]]

\* Four models: one cheap, one capable, and two that only differ in their window and
\* their id.  A price table with a key that extends another one.
Offer == {[id |-> 1, capability |-> 1, price |-> 1, window |-> 2],
          [id |-> 2, capability |-> 3, price |-> 4, window |-> 2],
          [id |-> 3, capability |-> 2, price |-> 2, window |-> 1],
          [id |-> 4, capability |-> 2, price |-> 2, window |-> 2]}
Priced == {<<"gpt", "4o">>, <<"gpt", "4o", "mini">>, <<"claude">>}

VARIABLES now, failures, opened, recorded
breaker == <<now, failures, opened, recorded>>

VARIABLES eval, used, registry, changes, auditLog
gate == <<eval, used, registry, changes, auditLog>>

VARIABLES kind, telemetry, listening, process, exitCode, signals, run, hang
drain == <<kind, telemetry, listening, process, exitCode, signals, run, hang>>

VARIABLES at, inFlight, aborted, cut, stored, lost, reported, finals, dispatched
a2a == <<at, inFlight, aborted, cut, stored, lost, reported, finals, dispatched>>

VARIABLES clock, opening, toClose, sessions, lastSeen, elicits, overlapped, call
mcp == <<clock, opening, toClose, sessions, lastSeen, elicits, overlapped, call>>

VARIABLES moment, tracked, hits, sweptAt, letIn, evicted, asks, answer
ingress == <<moment, tracked, hits, sweptAt, letIn, evicted, asks, answer>>

VARIABLES log, sending, left, committed, delivered, handled, topic, connected, wiring,
          started, breaks
kafka == <<log, sending, left, committed, delivered, handled, topic, connected, wiring,
           started, breaks>>

VARIABLES setup, vault, attempt
team == <<setup, vault, attempt>>

VARIABLE question

VARIABLE focus

B == INSTANCE SlidingWindowBreaker
G == INSTANCE Admission
D == INSTANCE ProcessDrain
X == INSTANCE A2AExecutor
M == INSTANCE McpSessions
I == INSTANCE GatewayIngress
K == INSTANCE KafkaMailbox
T == INSTANCE TeamTask
E == INSTANCE Economics

vars == <<focus, breaker, gate, drain, a2a, mcp, ingress, kafka, team, question>>

\* The initial states a component may choose from are chosen where it has the focus.
Init ==
    /\ focus \in {"breaker", "gate", "drain", "a2a", "mcp", "ingress", "kafka", "team",
                 "economics"}
    /\ B!Init /\ X!Init /\ I!Init /\ K!Init
    /\ G!Init
    /\ focus # "gate" => \A a \in Gated : registry[a].status = "none"
    /\ D!Init
    /\ focus # "drain" =>
          kind = "worker" /\ ~telemetry /\ hang = [s \in Sequence |-> 0]
    /\ M!Init
    /\ elicits = {CHOOSE c \in Client : TRUE}     \* one client can be asked, the others not
    /\ T!Init
    /\ setup.apiKey /\ setup.keys # {"OPENROUTER"}
    /\ setup.openrouter => setup.openai
    /\ ~setup.provider => setup.keys = {}
    /\ focus # "team" => setup.signal /\ setup.provider /\ setup.openrouter /\ setup.keys = {}
    /\ IF focus = "economics" THEN E!Init ELSE question = [name |-> <<>>]

Next ==
    \/ focus = "breaker" /\ B!Next
       /\ UNCHANGED <<focus, gate, drain, a2a, mcp, ingress, kafka, team, question>>
    \/ focus = "gate" /\ G!Next
       /\ UNCHANGED <<focus, breaker, drain, a2a, mcp, ingress, kafka, team, question>>
    \/ focus = "drain" /\ D!Next
       /\ UNCHANGED <<focus, breaker, gate, a2a, mcp, ingress, kafka, team, question>>
    \/ focus = "a2a" /\ X!Next
       /\ UNCHANGED <<focus, breaker, gate, drain, mcp, ingress, kafka, team, question>>
    \/ focus = "mcp" /\ M!Next
       /\ UNCHANGED <<focus, breaker, gate, drain, a2a, ingress, kafka, team, question>>
    \/ focus = "ingress" /\ I!Next
       /\ UNCHANGED <<focus, breaker, gate, drain, a2a, mcp, kafka, team, question>>
    \/ focus = "kafka" /\ K!Next
       /\ UNCHANGED <<focus, breaker, gate, drain, a2a, mcp, ingress, team, question>>
    \/ focus = "team" /\ T!Next
       /\ UNCHANGED <<focus, breaker, gate, drain, a2a, mcp, ingress, kafka, question>>

Spec ==
    /\ Init
    /\ [][Next]_vars
    /\ WF_vars(focus = "drain" /\ D!DrainGoesOn
               /\ UNCHANGED <<focus, breaker, gate, a2a, mcp, ingress, kafka, team, question>>)

-----------------------------------------------------------------------------
ImplementsWindow == B!ImplementsWindow
BudgetsHold == G!BudgetsHold
GateFailsClosed == G!GateFailsClosed
ExitIsHonest == D!ExitIsHonest
DrainExits == D!DrainExits
OneEndPerTask == X!OneEndPerTask
SessionsAreSafe == M!SessionsAreSafe
LimitsAreOwn == I!LimitsAreOwn
OffsetsAreHonest == K!OffsetsAreHonest
AttemptsAreClean == T!AttemptsAreClean
PricesAreSound == E!PricesAreSound
=============================================================================
