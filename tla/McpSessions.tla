----------------------------- MODULE McpSessions -----------------------------
(***************************************************************************)
(* The MCP surface of a gateway: StreamableMcpHandler opens one session per  *)
(* initialize, closes the idle ones first and refuses above a limit; in a  *)
(* session the dispatch_task tool asks the client for consent (elicitation) *)
(* before it publishes a task.  Every await lets other requests in: the idle *)
(* sessions are closed one after another, and a session is counted only    *)
(* when its initialize has been handled.                                   *)
(***************************************************************************)
EXTENDS Naturals, FiniteSets

CONSTANTS
    Client,          \* initialize requests, each with the session it would open
    Call,            \* dispatch_task calls
    MaxSessions,     \* maxSessions
    IdleTimeout,     \* idleTimeoutMs
    RequireConsent,  \* requireDispatchConsent
    MaxClock         \* bound: the clock stops here

VARIABLES
    clock,      \* Date.now()
    opening,    \* client -> how far openSession() is
    toClose,    \* client -> the sessions its idle loop has yet to look at
    sessions,   \* the registered sessions
    lastSeen,   \* session -> lastSeenAt
    elicits,    \* clients that declared the elicitation capability
    overlapped, \* sessions, open or about to be, that passed the limit beside another
    call        \* call -> its session, how far it is and what the client answered

mcpVars == <<clock, opening, toClose, sessions, lastSeen, elicits, overlapped, call>>

Unborn == [session |-> CHOOSE c \in Client : TRUE, at |-> "new", answer |-> "none"]

TypeOK ==
    /\ clock \in 0 .. MaxClock
    /\ opening \in [Client -> [at : {"new", "sweeping", "connecting", "over"},
                               cutoff : 0 .. MaxClock]]
    /\ toClose \in [Client -> SUBSET Client]
    /\ sessions \subseteq Client
    /\ lastSeen \in [Client -> 0 .. MaxClock]
    /\ overlapped \subseteq Client
    /\ call \in [Call -> [session : Client, at : {"new", "asking", "dispatching", "over"},
                          answer : {"none", "confirm", "unconfirmed", "decline"}]]

Init ==
    /\ clock = 0
    /\ opening = [c \in Client |-> [at |-> "new", cutoff |-> 0]]
    /\ toClose = [c \in Client |-> {}]
    /\ sessions = {}
    /\ lastSeen = [c \in Client |-> 0]
    /\ elicits \in SUBSET Client
    /\ overlapped = {}
    /\ call = [k \in Call |-> Unborn]

-----------------------------------------------------------------------------
Connecting == {c \in Client : opening[c].at = "connecting"}

\* closeIdleSessions: the moment and the sessions are taken once.
OpenSession(c) ==
    /\ opening[c].at = "new"
    /\ opening' = [opening EXCEPT ![c] = [at |-> "sweeping", cutoff |-> clock]]
    /\ toClose' = [toClose EXCEPT ![c] = sessions]
    /\ UNCHANGED <<clock, sessions, lastSeen, elicits, overlapped, call>>

\* Sessions whose last request is older than the idle time before cutoff.
Idle(s, moment) == lastSeen[s] + IdleTimeout < moment

\* One round of the loop; closing the transport awaits.
CloseIdle(c, s) ==
    /\ opening[c].at = "sweeping" /\ s \in toClose[c]
    /\ toClose' = [toClose EXCEPT ![c] = @ \ {s}]
    /\ IF Idle(s, opening[c].cutoff)
       THEN sessions' = sessions \ {s} /\ overlapped' = overlapped \ {s}
       ELSE UNCHANGED <<sessions, overlapped>>
    /\ UNCHANGED <<clock, opening, lastSeen, elicits, call>>

\* Mutant: off by one.
Admit_OneMore(c) ==
    /\ opening[c].at = "sweeping" /\ toClose[c] = {}
    /\ IF Cardinality(sessions) > MaxSessions
       THEN opening' = [opening EXCEPT ![c].at = "over"] /\ UNCHANGED overlapped
       ELSE /\ opening' = [opening EXCEPT ![c].at = "connecting"]
            /\ overlapped' = IF Connecting = {} THEN overlapped ELSE overlapped \cup {c}
    /\ UNCHANGED <<clock, toClose, sessions, lastSeen, elicits, call>>

\* The limit, by what is registered now; 503 above it.
Admit(c) ==
    /\ opening[c].at = "sweeping" /\ toClose[c] = {}
    /\ IF Cardinality(sessions) >= MaxSessions
       THEN opening' = [opening EXCEPT ![c].at = "over"] /\ UNCHANGED overlapped
       ELSE /\ opening' = [opening EXCEPT ![c].at = "connecting"]
            /\ overlapped' = IF Connecting = {} THEN overlapped ELSE overlapped \cup {c}
    /\ UNCHANGED <<clock, toClose, sessions, lastSeen, elicits, call>>

\* The transport handled initialize: onsessioninitialized, or it failed.
Initialized(c) ==
    /\ opening[c].at = "connecting"
    /\ opening' = [opening EXCEPT ![c].at = "over"]
    /\ \/ /\ sessions' = sessions \cup {c}
          /\ lastSeen' = [lastSeen EXCEPT ![c] = clock]
          /\ UNCHANGED overlapped
       \/ /\ overlapped' = overlapped \ {c}
          /\ UNCHANGED <<sessions, lastSeen>>
    /\ UNCHANGED <<clock, toClose, elicits, call>>

\* DELETE: onsessionclosed.
Delete(s) ==
    /\ s \in sessions
    /\ lastSeen' = [lastSeen EXCEPT ![s] = clock]
    /\ sessions' = sessions \ {s}
    /\ overlapped' = overlapped \ {s}
    /\ UNCHANGED <<clock, opening, toClose, elicits, call>>

\* close() on drain.
CloseAll ==
    /\ sessions # {}
    /\ sessions' = {}
    /\ overlapped' = overlapped \cap Connecting
    /\ UNCHANGED <<clock, opening, toClose, lastSeen, elicits, call>>

-----------------------------------------------------------------------------
\* Every request of a known session is a sign of life.
SignOfLife(s) == s \in sessions /\ lastSeen' = [lastSeen EXCEPT ![s] = clock]

\* tools/call dispatch_task: a client that cannot be asked is refused.
DispatchTask(k, s) ==
    /\ call[k].at = "new"
    /\ SignOfLife(s)
    /\ call' = [call EXCEPT ![k] =
          [session |-> s, answer |-> "none",
           at |-> IF ~RequireConsent THEN "dispatching"
                  ELSE IF s \in elicits THEN "asking" ELSE "over"]]
    /\ UNCHANGED <<clock, opening, toClose, sessions, elicits, overlapped>>

\* Mutant: an accepted form counts as confirmed.
Answer_AnyAccept(k, answer) ==
    /\ call[k].at = "asking"
    /\ SignOfLife(call[k].session)
    /\ call' = [call EXCEPT ![k].answer = answer,
                            ![k].at = IF answer # "decline" THEN "dispatching" ELSE "over"]
    /\ UNCHANGED <<clock, opening, toClose, sessions, elicits, overlapped>>

\* The answer comes as a request of the session: accepted and confirmed, accepted
\* without confirm, or declined; a request of a closed session is refused (404).
Answer(k, answer) ==
    /\ call[k].at = "asking"
    /\ SignOfLife(call[k].session)
    /\ call' = [call EXCEPT ![k].answer = answer,
                            ![k].at = IF answer = "confirm" THEN "dispatching" ELSE "over"]
    /\ UNCHANGED <<clock, opening, toClose, sessions, elicits, overlapped>>

\* elicitInput rejects when its session is closed.
AskFails(k) ==
    /\ call[k].at = "asking" /\ call[k].session \notin sessions
    /\ call' = [call EXCEPT ![k].at = "over"]
    /\ UNCHANGED <<clock, opening, toClose, sessions, lastSeen, elicits, overlapped>>

Tick ==
    /\ clock < MaxClock
    /\ clock' = clock + 1
    /\ UNCHANGED <<opening, toClose, sessions, lastSeen, elicits, overlapped, call>>

Next ==
    \/ \E c \in Client : OpenSession(c) \/ Admit(c) \/ Initialized(c) \/ Delete(c)
    \/ \E c, s \in Client : CloseIdle(c, s)
    \/ \E k \in Call :
          \/ \E s \in Client : DispatchTask(k, s)
          \/ \E a \in {"confirm", "unconfirmed", "decline"} : Answer(k, a)
          \/ AskFails(k)
    \/ CloseAll \/ Tick

Spec == Init /\ [][Next]_mcpVars

-----------------------------------------------------------------------------
(* Properties.                                                             *)

\* The limit holds but for the sessions that were admitted while another open
\* was between its check and its registration: opens one after another keep it.
SessionsBounded ==
    Cardinality(sessions \cup Connecting) <= MaxSessions + Cardinality(overlapped)

\* mcp-http.ts:37: "Live sessions at most; above it initialize gets 503."
LiveSessionsAtMost == Cardinality(sessions) <= MaxSessions

\* Work is dispatched only after the client of that session confirmed it.
DispatchNeedsConsent ==
    \A k \in Call : call[k].at = "dispatching" /\ RequireConsent =>
        call[k].answer = "confirm" /\ call[k].session \in elicits

\* No client gets more than its share: of sessions, or of work without consent.
SessionsAreSafe == SessionsBounded /\ DispatchNeedsConsent
=============================================================================
