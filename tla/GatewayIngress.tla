---------------------------- MODULE GatewayIngress ----------------------------
(***************************************************************************)
(* What a gateway lets in: GatewayApp's routes behind their per-address     *)
(* limits, and EmergencyStopIngress, reached over HTTP or a board socket,    *)
(* which authenticates first and then limits a token holder's commands and, *)
(* in a bucket of their own, the refused attempts of an address.  Each limit *)
(* is a SlidingWindowRateLimiter: a Map from key to the moments let in,      *)
(* swept once per window and cut to its least recently used keys.          *)
(***************************************************************************)
EXTENDS Integers, FiniteSets

CONSTANTS
    Address,     \* client addresses
    Holder,      \* subjects of valid board tokens
    Limiter,     \* limiter -> [max, window, keys]: its constructor's arguments
    Secured,     \* whether BOARD_JWT_SECRET is set
    MaxMoment,   \* bound: the clock stops here
    MaxAsks      \* bound: requests of a run

VARIABLES
    moment,   \* Date.now()
    tracked,  \* limiter -> key -> the request that inserted it last in the Map, or 0
    hits,     \* limiter -> key -> its timestamps, as <<request, moment>>
    sweptAt,  \* limiter -> lastSweepAt
    letIn,    \* limiter -> key -> the requests of this window it let in, with their moment
    evicted,  \* <<limiter, key>> that evictOldest dropped
    asks,     \* requests so far
    answer    \* the last answer, as <<limiter, key, status>>

ingressVars == <<moment, tracked, hits, sweptAt, letIn, evicted, asks, answer>>

Names == DOMAIN Limiter      \* {"shared", "probe", "stop", "refused"}
Key == Address \cup Holder

Hit == (1 .. MaxAsks) \X (0 .. MaxMoment)

TypeOK ==
    /\ moment \in 0 .. MaxMoment /\ asks \in 0 .. MaxAsks
    /\ tracked \in [Names -> [Key -> 0 .. MaxAsks]]
    /\ hits \in [Names -> [Key -> SUBSET Hit]] /\ letIn \in [Names -> [Key -> SUBSET Hit]]
    /\ sweptAt \in [Names -> Int] /\ evicted \subseteq Names \X Key
    /\ answer \in {<<>>} \cup (Names \X Key \X {200, 202, 401, 429})
    /\ \A l \in Names, k \in Key : tracked[l][k] = 0 => hits[l][k] = {}

Init ==
    /\ moment = 0
    /\ tracked = [l \in Names |-> [k \in Key |-> 0]]
    /\ hits = [l \in Names |-> [k \in Key |-> {}]]
    /\ sweptAt = [l \in Names |-> -Limiter[l].window]
    /\ letIn = hits
    /\ evicted = {} /\ asks = 0
    /\ answer = <<>>

-----------------------------------------------------------------------------
(* SlidingWindowRateLimiter.isAllowed(k).                                  *)

Cutoff(l) == moment - Limiter[l].window
Since(l, times) == {h \in times : h[2] >= Cutoff(l)}

\* Mutant: a key goes when its oldest hit is outside the window.
Swept_ByOldest(l) ==
    {k \in Key : /\ tracked[l][k] > 0
                 /\ moment - sweptAt[l] < Limiter[l].window
                    \/ \A h \in hits[l][k] : h[2] >= Cutoff(l)}

\* sweep, once per window: the keys left are those whose newest hit is inside it.
Swept(l) ==
    {k \in Key : /\ tracked[l][k] > 0
                 /\ moment - sweptAt[l] < Limiter[l].window
                    \/ \E h \in hits[l][k] : h[2] >= Cutoff(l)}

Kept(l, k) == IF k \in Swept(l) THEN Since(l, hits[l][k]) ELSE {}

Allows(l, k) == Cardinality(Kept(l, k)) < Limiter[l].max

\* evictOldest: the key inserted first goes, when there are too many.
Evicted(l, keys, insertedAt) ==
    IF Cardinality(keys) <= Limiter[l].keys THEN {}
    ELSE {x \in keys : \A y \in keys : insertedAt[x] <= insertedAt[y]}

\* The limiter after the call: the key is inserted last, the oldest is evicted.
Ask(l, k) ==
    LET ok    == Allows(l, k)
        keys  == IF ok THEN Swept(l) \cup {k} ELSE Swept(l)
        order == IF ok THEN [tracked[l] EXCEPT ![k] = asks'] ELSE tracked[l]
        gone  == Evicted(l, keys, order)
        now   == IF ok THEN {<<asks', moment>>} ELSE {}
    IN  /\ asks < MaxAsks /\ asks' = asks + 1
        /\ tracked' = [tracked EXCEPT ![l] =
              [x \in Key |-> IF x \in keys \ gone THEN order[x] ELSE 0]]
        /\ hits' = [hits EXCEPT ![l] = [x \in Key |->
              IF x \notin keys \ gone THEN {}
              ELSE IF x = k THEN Kept(l, k) \cup now ELSE hits[l][x]]]
        /\ sweptAt' = [sweptAt EXCEPT ![l] =
              IF moment - @ < Limiter[l].window THEN @ ELSE moment]
        /\ letIn' = [letIn EXCEPT ![l][k] = @ \cup now]
        /\ evicted' = evicted \cup ({l} \X gone)
        /\ UNCHANGED moment

Answered(l, k, status) == answer' = <<l, k, status>>

-----------------------------------------------------------------------------
(* The routes.                                                             *)

\* A2A, MCP, agent status and unknown paths, by address; and a probe route.
Visit(l, a) ==
    /\ l \in Names \ {"stop", "refused"}
    /\ Ask(l, a)
    /\ Answered(l, a, IF Allows(l, a) THEN 200 ELSE 429)

\* stopAll: without a valid board token an attempt counts against its address;
\* a holder's command goes on to issueStopAll (see ControlChannel).
StopAll(token, a) ==
    IF token \in Holder /\ Secured
    THEN /\ Ask("stop", token)
         /\ Answered("stop", token, IF Allows("stop", token) THEN 202 ELSE 429)
    ELSE /\ Ask("refused", a)
         /\ Answered("refused", a, IF Allows("refused", a) THEN 401 ELSE 429)

Tick ==
    /\ moment < MaxMoment
    /\ moment' = moment + 1
    /\ answer' = <<>>
    /\ letIn' = [l \in Names |-> [k \in Key |->
          {h \in letIn[l][k] : h[2] >= moment' - Limiter[l].window}]]
    /\ UNCHANGED <<tracked, hits, sweptAt, evicted, asks>>

Next ==
    \/ \E l \in Names, a \in Address : Visit(l, a)
    \/ \E token \in Holder \cup {"none"}, a \in Address : StopAll(token, a)
    \/ Tick

Spec == Init /\ [][Next]_ingressVars

-----------------------------------------------------------------------------
(* Properties.                                                             *)

\* However its Map was swept, pruned and reordered, a limiter remembers every
\* moment of this window in which it let a key in, unless the key was evicted:
\* no key gets more than its limit, and none is refused for another's traffic.
LimiterForgetsNothing ==
    \A l \in Names, k \in Key : <<l, k>> \notin evicted =>
        /\ Since(l, hits[l][k]) = Since(l, letIn[l][k])
        /\ Cardinality(Since(l, letIn[l][k])) <= Limiter[l].max

\* "anonymous traffic can never use up an operator's budget": a holder is
\* refused only after as many commands of its own in this window.
StopBudgetIsItsHolders ==
    \A h \in Holder : Secured /\ answer = <<"stop", h, 429>> =>
        Cardinality(Since("stop", letIn["stop"][h])) >= Limiter["stop"].max

\* Both: a limit counts what it let in, all of it, and nobody else's.
LimitsAreOwn == LimiterForgetsNothing /\ StopBudgetIsItsHolders

=============================================================================
