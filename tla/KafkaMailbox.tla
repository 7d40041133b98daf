----------------------------- MODULE KafkaMailbox -----------------------------
(***************************************************************************)
(* One topic through KafkaDriver: publish() with its retries and the         *)
(* operator's replayDlq() append records; subscribe() connects the consumer, *)
(* subscribes it and starts it, each after an await that may fail, and is    *)
(* called again by whoever needs the topic; eachMessage() hands a record to  *)
(* the handler and lets the offset go on when it returns.                  *)
(*                                                                         *)
(* The broker and KafkaJS: a send that fails may have been appended; a     *)
(* record whose handler throws, or whose member was evicted, is delivered  *)
(* again from the committed offset.  Callers await subscribe().            *)
(***************************************************************************)
EXTENDS Naturals, Sequences, FiniteSets

CONSTANTS
    Work,        \* tasks published to the topic
    Junk,        \* a record that is not a task payload, or not JSON
    Sends,       \* retries of publish()
    MaxRecords,  \* bound: records of the topic
    MaxBreaks    \* bound: failures of the consumer's side

VARIABLES
    log,         \* the records
    sending,     \* task -> how its publish() stands ("failed": it is in the DLQ)
    left,        \* task -> sends publish() has left
    committed,   \* records the group is past
    delivered,   \* the record the handler has, or 0
    handled,     \* records whose handler returned
    topic,       \* whether subscribedTopic is set
    connected,   \* consumerConnected
    wiring,      \* how far subscribe() is
    started,     \* consumer.run() calls since the consumer was last disconnected
    breaks       \* counter of the bound

kafkaVars == <<log, sending, left, committed, delivered, handled, topic, connected, wiring,
               started, breaks>>
producer == <<log, sending, left>>
consumer == <<committed, delivered, handled>>
wires    == <<topic, connected, wiring, started>>

TypeOK ==
    /\ log \in Seq(Work \cup {Junk}) /\ Len(log) <= MaxRecords
    /\ sending \in [Work -> {"new", "sending", "done", "thrown", "failed"}]
    /\ left \in [Work -> 0 .. Sends]
    /\ committed \in 0 .. Len(log)
    /\ delivered \in {0, committed + 1} /\ delivered <= Len(log)
    /\ handled \subseteq DOMAIN log
    /\ topic \in BOOLEAN /\ connected \in BOOLEAN
    /\ wiring \in {"none", "connecting", "subscribing", "starting", "running"}
    /\ wiring \in {"starting", "running"} => topic /\ connected
    /\ started \in Nat /\ breaks \in 0 .. MaxBreaks

Init ==
    /\ log = <<>>
    /\ sending = [w \in Work |-> "new"] /\ left = [w \in Work |-> 0]
    /\ committed = 0 /\ delivered = 0 /\ handled = {}
    /\ topic = FALSE /\ connected = FALSE
    /\ wiring = "none" /\ started = 0
    /\ breaks = 0

-----------------------------------------------------------------------------
Append1(record) == Len(log) < MaxRecords /\ log' = Append(log, record)

\* A record of a hand-built or third-party producer.
ForeignRecord ==
    /\ Append1(Junk)
    /\ UNCHANGED <<sending, left, consumer, wires, breaks>>

Publish(w) ==
    /\ sending[w] = "new"
    /\ sending' = [sending EXCEPT ![w] = "sending"]
    /\ left' = [left EXCEPT ![w] = Sends]
    /\ UNCHANGED <<log, consumer, wires, breaks>>

\* One attempt: sent, or an error that is retried while attempts are left, or
\* one that is thrown at once.
Send(w) ==
    /\ sending[w] = "sending"
    /\ left' = [left EXCEPT ![w] = @ - 1]
    /\ \/ Append1(w) /\ sending' = [sending EXCEPT ![w] = "done"]
       \/ /\ Append1(w) \/ UNCHANGED log
          /\ sending' = [sending EXCEPT ![w] = IF left[w] = 1 THEN "thrown" ELSE @]
       \/ UNCHANGED log /\ sending' = [sending EXCEPT ![w] = "thrown"]
    /\ UNCHANGED <<consumer, wires, breaks>>

\* replayDlq: a retryable dead letter with its inputs is published again; poison
\* and records without inputs are skipped.
Replay(w) ==
    /\ sending[w] = "failed"
    /\ sending' = [sending EXCEPT ![w] = "sending"]
    /\ left' = [left EXCEPT ![w] = Sends]
    /\ UNCHANGED <<log, consumer, wires, breaks>>

-----------------------------------------------------------------------------
(* The consumer.  A failed step of subscribe() leaves what was set before. *)

Break == breaks < MaxBreaks /\ breaks' = breaks + 1

\* A topic already wired is refused.
Subscribe ==
    /\ wiring = "none" /\ ~topic
    /\ wiring' = "connecting"
    /\ UNCHANGED <<topic, connected, started, producer, consumer, breaks>>

\* Mutant: the topic counts as wired once the consumer runs.
Wire_TopicLast ==
    /\ \/ /\ wiring = "connecting"
          /\ wiring' = "subscribing" /\ connected' = TRUE
          /\ UNCHANGED <<topic, started>>
       \/ /\ wiring = "subscribing"
          /\ wiring' = "starting" /\ started' = started + 1
          /\ UNCHANGED <<topic, connected>>
       \/ /\ wiring = "starting"
          /\ wiring' = "running" /\ topic' = TRUE
          /\ UNCHANGED <<connected, started>>
    /\ UNCHANGED <<producer, consumer, breaks>>

\* connect() resolved; subscribe() resolved, the topic is set and run() called;
\* run() resolved.
Wire ==
    /\ \/ /\ wiring = "connecting"
          /\ wiring' = "subscribing" /\ connected' = TRUE
          /\ UNCHANGED <<topic, started>>
       \/ /\ wiring = "subscribing"
          /\ wiring' = "starting" /\ topic' = TRUE /\ started' = started + 1
          /\ UNCHANGED connected
       \/ /\ wiring = "starting"
          /\ wiring' = "running"
          /\ UNCHANGED <<topic, connected, started>>
    /\ UNCHANGED <<producer, consumer, breaks>>

WireFails ==
    /\ Break
    /\ wiring \in {"connecting", "subscribing", "starting"}
    /\ wiring' = "none"
    /\ UNCHANGED <<topic, connected, started, producer, consumer>>

\* unsubscribe(), and the consumer's half of disconnect().
Unsubscribe ==
    /\ wiring \in {"none", "running"} /\ Break
    /\ wiring' = "none" /\ topic' = FALSE /\ connected' = FALSE
    /\ started' = IF connected THEN 0 ELSE started
    /\ delivered' = 0
    /\ UNCHANGED <<producer, committed, handled>>

\* eachMessage: junk is passed over, a task goes to the handler.
Fetch ==
    /\ wiring = "running" /\ delivered = 0 /\ committed < Len(log)
    /\ IF log[committed + 1] = Junk
       THEN committed' = committed + 1 /\ UNCHANGED delivered
       ELSE delivered' = committed + 1 /\ UNCHANGED committed
    /\ UNCHANGED <<handled, producer, wires, breaks>>

HandlerReturns ==
    /\ delivered # 0
    /\ handled' = handled \cup {delivered}
    /\ committed' = committed + 1
    /\ delivered' = 0
    /\ \/ UNCHANGED sending
       \/ /\ sending[log[delivered]] = "done"       \* it reported the task failed
          /\ sending' = [sending EXCEPT ![log[delivered]] = "failed"]
    /\ UNCHANGED <<log, left, wires, breaks>>

\* Mutant: the try that skips unparseable records spans the handler.
HandlerThrows_Skipped ==
    /\ delivered # 0 /\ Break
    /\ delivered' = 0 /\ committed' = committed + 1
    /\ UNCHANGED <<handled, producer, wires>>

\* The handler throws: the offset stays.
HandlerThrows ==
    /\ delivered # 0 /\ Break
    /\ delivered' = 0
    /\ UNCHANGED <<committed, handled, producer, wires>>

\* The heartbeats fail and the member is evicted; its handler may end, unheard.
Evicted ==
    /\ delivered # 0 /\ Break
    /\ delivered' = 0
    /\ handled' \in {handled, handled \cup {delivered}}
    /\ UNCHANGED <<committed, producer, wires>>

Next ==
    \/ ForeignRecord
    \/ \E w \in Work : Publish(w) \/ Send(w) \/ Replay(w)
    \/ Subscribe \/ Wire \/ WireFails \/ Unsubscribe
    \/ Fetch \/ HandlerReturns \/ HandlerThrows \/ Evicted

Spec == Init /\ [][Next]_kafkaVars

-----------------------------------------------------------------------------
(* Properties.                                                             *)

\* At least once: whatever throws, is evicted or unsubscribed, the group is past
\* a task only when its handler has returned; only junk is skipped.  A task
\* whose publish() resolved is in the log.
OffsetPassesOnlyHandled ==
    /\ \A i \in 1 .. committed : log[i] = Junk \/ i \in handled
    /\ \A w \in Work : sending[w] \in {"done", "failed"} => \E i \in DOMAIN log : log[i] = w

\* "KafkaJS forbids a 2nd subscribe()+run() on the same consumer": a consumer is
\* started once per connection, also when a start that failed is tried again.
OneRunPerConnection == started <= 1

\* kafka-driver.ts:147-149: subscribe() connects the consumer only when "the consumer
\* is always disconnected at this point".
ConnectsDisconnected == wiring = "connecting" => ~connected

\* What the group has committed is true, and one consumer commits it.
OffsetsAreHonest == OffsetPassesOnlyHandled /\ OneRunPerConnection

=============================================================================
