---------------------------- MODULE EdgeProofs ----------------------------
(* What holds at the edges of a node: of executions of A2A, records of a topic,  *)
(* the drain of a process, attempts with a KaibanJS team, the sessions of the    *)
(* MCP server, the circuit breaker and the limits of the gateway.                *)
EXTENDS MCEdges, FiniteSetTheorems, TLAPS

\* What the suite does with a component is a behaviour of the component.
LEMMA WorkRunsAlone ==
    Spec => /\ X!Spec /\ K!Spec /\ T!Spec
            /\ D!Init /\ [][D!Next]_(D!drainVars)
<1>1. Init => X!Init /\ K!Init /\ D!Init /\ T!Init
  BY DEF Init
<1>2. [Next]_vars => /\ [X!Next]_(X!a2aVars) /\ [K!Next]_(K!kafkaVars)
                     /\ [D!Next]_(D!drainVars) /\ [T!Next]_(T!teamVars)
  BY DEF Next, vars, a2a, kafka, drain, team, X!a2aVars, K!kafkaVars, D!drainVars,
         T!teamVars
<1> QED  BY <1>1, <1>2, PTL DEF Spec, X!Spec, K!Spec, T!Spec


\* What the suite does with a component is a behaviour of the component.
LEMMA GateRunsAlone ==
    Spec => M!Spec /\ I!Spec /\ B!Spec
<1>1. Init => M!Init /\ I!Init /\ B!Init
  BY DEF Init
<1>2. [Next]_vars => /\ [M!Next]_(M!mcpVars) /\ [I!Next]_(I!ingressVars)
                     /\ [B!Next]_(B!vars)
  BY DEF Next, vars, breaker, ingress, mcp, M!mcpVars, I!ingressVars, B!vars
<1> QED  BY <1>1, <1>2, PTL DEF Spec, M!Spec, I!Spec, B!Spec


-----------------------------------------------------------------------------
(* A2AExecutor: one execution and one end of a task.                       *)

\* Calls are told apart, and Nobody is none of them.
CallsDiffer == Request \cap Cancel = {} /\ Nobody \notin Request

\* The entry belongs to the one execution that runs.
EntryIsHeld == \A r \in Request : at[r] \in X!Running <=> inFlight = r

\* An execution publishes its end as it leaves, and only one.
EndIsLast ==
    \A r \in Request, s \in X!End : <<r, s>> \in finals =>
        at[r] = "over" /\ \A t \in X!End : <<r, t>> \in finals => s = t

\* The Task event of an end goes out when its save is issued, before the final update.
EndIsReported ==
    /\ \A r \in Request : at[r] \in X!Before \cup {"new"} =>
          \A s \in X!End : <<r, s>> \notin reported
    /\ \A r \in Request :
          /\ at[r] = "completing" => <<r, "completed">> \in reported
          /\ at[r] = "failing" => <<r, "failed">> \in reported
          /\ at[r] = "rejecting" => <<r, "rejected">> \in reported
    /\ \A k \in Cancel : at[k] = "canceling" => <<k, "canceled">> \in reported

\* An execution that was cut has no result or failure to save: it only leaves.
CutUnwinds ==
    \A r \in cut :
        /\ at[r] \in X!Before \cup {"over"}
        /\ \A s \in X!End : <<r, s>> \notin reported

\* A cancel that has not been made has lost no save.
NewCancelsLostNothing == \A k \in Cancel : at[k] = "new" => k \notin lost

CancelIsStored == inFlight \in cut /\ lost \cap Cancel = {} => stored = "canceled"

ExecutorInv ==
    /\ X!TypeOK /\ EntryIsHeld /\ EndIsLast /\ EndIsReported /\ CutUnwinds
    /\ NewCancelsLostNothing /\ CancelIsStored

\* The empty executor of a gateway that starts.
LEMMA ExecutorInit ==
    ASSUME CallsDiffer
    PROVE  X!Init => ExecutorInv
BY DEF CallsDiffer, X!Init, ExecutorInv, X!TypeOK, EntryIsHeld, EndIsLast,
       EndIsReported, CutUnwinds, NewCancelsLostNothing, CancelIsStored, X!Running,
       X!Before, X!End

\* Steps of execute() up to its end.
LEMMA ExecutionSteps ==
    ASSUME CallsDiffer, ExecutorInv, NEW r \in Request,
           X!Execute(r) \/ X!Dispatch(r) \/ X!Wait(r) \/ X!Result(r)
    PROVE  ExecutorInv'
<1> USE DEF CallsDiffer, ExecutorInv, X!TypeOK, EntryIsHeld, EndIsLast,
            EndIsReported, CutUnwinds, NewCancelsLostNothing, CancelIsStored, X!Running,
            X!Before, X!End, X!Go, X!Save
<1>1. CASE X!Execute(r)
  <2>1. at[r] = "new" /\ \A s \in X!End : <<r, s>> \notin finals
    BY <1>1 DEF X!Execute
  <2>2. X!TypeOK'
    BY <1>1 DEF X!Execute
  <2>3. EntryIsHeld'
    BY <1>1, <2>1 DEF X!Execute
  <2>4. EndIsLast' /\ CutUnwinds'
    BY <1>1, <2>1 DEF X!Execute
  <2>6. EndIsReported'
    BY <1>1, <2>1 DEF X!Execute
  <2>5. NewCancelsLostNothing' /\ CancelIsStored'
    BY <1>1, <2>1 DEF X!Execute
  <2> QED  BY <2>2, <2>3, <2>4, <2>5, <2>6
<1>2. CASE X!Dispatch(r)
  BY <1>2 DEF X!Dispatch
<1>3. CASE X!Wait(r)
  BY <1>3 DEF X!Wait
<1>4. CASE X!Result(r)
  BY <1>4 DEF X!Result
<1> QED  BY <1>1, <1>2, <1>3, <1>4

\* A step that reports no end of an execution that was cut, and at most lets it leave.
LEMMA CutsUnwind ==
    ASSUME ExecutorInv, cut' = cut,
           \A r \in cut : at'[r] \in {at[r], "over"},
           \A r \in cut, s \in X!End : <<r, s>> \in reported' => <<r, s>> \in reported
    PROVE  CutUnwinds'
<1> DEFINE Place == X!Before \cup {"over"}
<1>1. ASSUME NEW r \in cut PROVE at[r] \in Place /\ \A s \in X!End : <<r, s>> \notin reported
  BY DEF ExecutorInv, CutUnwinds
<1>2. ASSUME NEW r \in cut PROVE at'[r] \in Place
  <2>1. at'[r] = at[r] \/ at'[r] = "over"
    OBVIOUS
  <2> QED  BY <1>1, <2>1
<1>3. ASSUME NEW r \in cut, NEW s \in X!End PROVE <<r, s>> \notin reported'
  BY <1>1
<1>4. X!End' = X!End /\ X!Before' = X!Before
  BY DEF X!End, X!Before
<1> QED  BY <1>2, <1>3, <1>4 DEF CutUnwinds

\* The ends of execute().
LEMMA EndSteps ==
    ASSUME CallsDiffer, ExecutorInv, NEW r \in Request, X!Catch(r) \/ X!Finish(r) \/ X!Rejected(r)
    PROVE  ExecutorInv'
<1> USE DEF CallsDiffer, ExecutorInv, X!TypeOK, EntryIsHeld, EndIsLast,
            EndIsReported, CutUnwinds, NewCancelsLostNothing, CancelIsStored, X!Running,
            X!Before, X!End, X!Go, X!Save, X!Leave
<1>1. CASE X!Catch(r)
  <2>1. X!TypeOK'
    BY <1>1 DEF X!Catch
  <2>2. EntryIsHeld'
    BY <1>1 DEF X!Catch
  <2>3. EndIsLast'
    BY <1>1 DEF X!Catch
  <2>4. CutUnwinds'
    <3>1. /\ cut' = cut /\ at' = [at EXCEPT ![r] = at'[r]] /\ (r \in cut => at'[r] = "over")
          /\ \A q \in cut, s \in X!End : <<q, s>> \in reported' => <<q, s>> \in reported
      BY <1>1 DEF X!Catch
    <3>2. \A q \in cut : at'[q] \in {at[q], "over"}
      BY <3>1
    <3> HIDE DEF ExecutorInv, CutUnwinds, X!TypeOK
    <3> QED  BY <3>1, <3>2, CutsUnwind
  <2>5. EndIsReported'
    BY <1>1 DEF X!Catch
  <2>6. NewCancelsLostNothing' /\ CancelIsStored'
    BY <1>1 DEF X!Catch
  <2> QED  BY <2>1, <2>2, <2>3, <2>4, <2>5, <2>6
<1>2. CASE X!Finish(r)
  <2>1. X!TypeOK'
    <3>1. at[r] = "completing" => <<r, "completed">> \in reported
      OBVIOUS
    <3>2. at[r] = "failing" => <<r, "failed">> \in reported
      OBVIOUS
    <3>3. finals' \subseteq reported
      BY <1>2, <3>1, <3>2 DEF X!Finish
    <3>4. at' \in [Request \cup Cancel
                      -> X!Running \cup {"new", "rejecting", "canceling", "over"}]
      BY <1>2 DEF X!Finish
    <3> QED  BY <1>2, <3>3, <3>4 DEF X!Finish
  <2>2. EntryIsHeld'
    BY <1>2 DEF X!Finish
  <2>3. EndIsLast'
    BY <1>2 DEF X!Finish
  <2>4. CutUnwinds'
    <3>1. cut' = cut /\ reported' = reported /\ at' = [at EXCEPT ![r] = "over"]
      BY <1>2 DEF X!Finish
    <3>2. \A q \in cut : at'[q] \in {at[q], "over"}
      BY <3>1
    <3> HIDE DEF ExecutorInv, CutUnwinds, X!TypeOK
    <3> QED  BY <3>1, <3>2, CutsUnwind
  <2>5. EndIsReported'
    BY <1>2 DEF X!Finish
  <2>6. NewCancelsLostNothing' /\ CancelIsStored'
    BY <1>2 DEF X!Finish
  <2> QED  BY <2>1, <2>2, <2>3, <2>4, <2>5, <2>6
<1>3. CASE X!Rejected(r)
  <2>1. X!TypeOK'
    <3>1. <<r, "rejected">> \in reported /\ finals \subseteq reported
      BY <1>3 DEF X!Rejected
    <3>2. finals' = finals \/ finals' = finals \cup {<<r, "rejected">>}
      BY <1>3 DEF X!Rejected
    <3>3. finals' \subseteq reported
      BY ONLY <3>1, <3>2
    <3>4. at' \in [Request \cup Cancel
                      -> X!Running \cup {"new", "rejecting", "canceling", "over"}]
      BY <1>3 DEF X!Rejected
    <3> QED  BY <1>3, <3>3, <3>4 DEF X!Rejected
  <2>2. EntryIsHeld'
    BY <1>3 DEF X!Rejected
  <2>3. EndIsLast'
    BY <1>3 DEF X!Rejected
  <2>4. CutUnwinds'
    <3>1. cut' = cut /\ reported' = reported /\ at' = [at EXCEPT ![r] = "over"]
      BY <1>3 DEF X!Rejected
    <3>2. \A q \in cut : at'[q] \in {at[q], "over"}
      BY <3>1
    <3> HIDE DEF ExecutorInv, CutUnwinds, X!TypeOK
    <3> QED  BY <3>1, <3>2, CutsUnwind
  <2>5. EndIsReported'
    BY <1>3 DEF X!Rejected
  <2>6. NewCancelsLostNothing' /\ CancelIsStored'
    BY <1>3 DEF X!Rejected
  <2> QED  BY <2>1, <2>2, <2>3, <2>4, <2>5, <2>6
<1> QED  BY <1>1, <1>2, <1>3

\* cancelTask().
LEMMA CancelSteps ==
    ASSUME CallsDiffer, ExecutorInv, NEW k \in Cancel, X!CancelTask(k) \/ X!Canceled(k)
    PROVE  ExecutorInv'
<1> USE DEF CallsDiffer, ExecutorInv, X!TypeOK, EntryIsHeld, EndIsLast,
            EndIsReported, CutUnwinds, NewCancelsLostNothing, CancelIsStored, X!Running,
            X!Before, X!End, X!Go, X!Save
<1>1. CASE X!CancelTask(k)
  <2>1. X!TypeOK'
    BY <1>1 DEF X!CancelTask
  <2>2. EntryIsHeld'
    BY <1>1 DEF X!CancelTask
  <2>3. EndIsLast'
    BY <1>1 DEF X!CancelTask
  <2>4. CutUnwinds'
    <3>1. /\ k \notin Request /\ at' = [at EXCEPT ![k] = "canceling"]
          /\ reported' = reported \cup {<<k, "canceled">>}
          /\ cut' = cut \cup {r \in {inFlight} \ {Nobody} : at[r] \in X!Before}
      BY <1>1 DEF X!CancelTask
    <3>2. cut \subseteq Request /\ (inFlight # Nobody => inFlight \in Request)
      OBVIOUS
    <3>3. ASSUME NEW q \in cut'
          PROVE  q \in Request /\ at[q] \in X!Before \cup {"over"}
                 /\ \A s \in X!End : <<q, s>> \notin reported
      BY <3>1, <3>2
    <3>4. ASSUME NEW q \in cut'
          PROVE  at'[q] = at[q] /\ \A s \in X!End : <<q, s>> \notin reported'
      BY <3>1, <3>3
    <3>5. X!End' = X!End /\ X!Before' = X!Before
      OBVIOUS
    <3> HIDE DEF X!Before, X!End
    <3> QED  BY <3>3, <3>4, <3>5 DEF CutUnwinds
  <2>5. EndIsReported'
    BY <1>1 DEF X!CancelTask
  <2>6. NewCancelsLostNothing' /\ CancelIsStored'
    BY <1>1 DEF X!CancelTask
  <2> QED  BY <2>1, <2>2, <2>3, <2>4, <2>5, <2>6
<1>2. CASE X!Canceled(k)
  <2>1. X!TypeOK'
    BY <1>2 DEF X!Canceled
  <2>2. EntryIsHeld'
    BY <1>2 DEF X!Canceled
  <2>3. EndIsLast'
    BY <1>2 DEF X!Canceled
  <2>4. CutUnwinds'
    <3>1. /\ k \notin Request /\ cut' = cut /\ reported' = reported
          /\ at' = [at EXCEPT ![k] = "over"]
      BY <1>2 DEF X!Canceled
    <3>2. \A q \in cut : at'[q] \in {at[q], "over"}
      BY <3>1
    <3> HIDE DEF ExecutorInv, CutUnwinds, X!TypeOK
    <3> QED  BY <3>1, <3>2, CutsUnwind
  <2>5. EndIsReported'
    BY <1>2 DEF X!Canceled
  <2>6. NewCancelsLostNothing' /\ CancelIsStored'
    BY <1>2 DEF X!Canceled
  <2> QED  BY <2>1, <2>2, <2>3, <2>4, <2>5, <2>6
<1> QED  BY <1>1, <1>2

LEMMA ExecutorInvHolds ==
    ASSUME CallsDiffer
    PROVE  X!Spec => []ExecutorInv
<1>1. X!Init => ExecutorInv
  BY ExecutorInit
<1>2. ExecutorInv /\ [X!Next]_(X!a2aVars) => ExecutorInv'
  <2> SUFFICES ASSUME ExecutorInv, [X!Next]_(X!a2aVars) PROVE ExecutorInv'
    OBVIOUS
  <2>1. CASE X!Next
    BY <2>1, ExecutionSteps, EndSteps, CancelSteps DEF X!Next
  <2>2. CASE UNCHANGED X!a2aVars
    BY <2>2 DEF X!a2aVars, ExecutorInv, X!TypeOK, EntryIsHeld, EndIsLast,
                EndIsReported, CutUnwinds, NewCancelsLostNothing, CancelIsStored
  <2> QED  BY <2>1, <2>2
<1> QED  BY <1>1, <1>2, PTL DEF X!Spec

\* The variables of KaibanAgentExecutor keep their types.
THEOREM ExecutorTypeCorrect ==
    ASSUME CallsDiffer
    PROVE  X!Spec => []X!TypeOK
<1>1. ExecutorInv => X!TypeOK
  BY DEF ExecutorInv
<1> QED  BY <1>1, ExecutorInvHolds, PTL

\* One execution at a time, one end each, and a cancelled one publishes none of its
\* own (execute, emitTerminal and cancelTask), for any number of calls.
THEOREM TaskHasOneEnd ==
    ASSUME CallsDiffer
    PROVE  Spec => []OneEndPerTask
<1>1. ExecutorInv => OneEndPerTask
  BY DEF OneEndPerTask, ExecutorInv, X!TypeOK, EntryIsHeld, EndIsLast,
         EndIsReported, CutUnwinds, CancelIsStored, X!OneEndPerTask
<1> QED  BY <1>1, ExecutorInvHolds, WorkRunsAlone, PTL

-----------------------------------------------------------------------------
(* KafkaMailbox: the offsets of a topic.                                   *)

\* The bounds are numbers, a publish() sends at least once, and junk is no task.
MailboxSane == /\ Sends \in Nat \ {0} /\ MaxRecords \in Nat /\ MaxBreaks \in Nat
        /\ Junk \notin Work

\* A publish() that goes on has a send left.
SendsAreLeft == \A w \in Work : sending[w] = "sending" => left[w] >= 1

\* The handler is given tasks only.
TaskIsDelivered == delivered # 0 => log[delivered] # Junk

\* A consumer that was started is connected and its topic is set, so that it is not
\* subscribed again before it is disconnected.
StartedIsWired ==
    /\ started \in {0, 1}
    /\ started = 1 => topic /\ connected
    /\ wiring \in {"connecting", "subscribing"} => ~topic
    /\ wiring = "subscribing" => connected

MailboxInv == K!TypeOK /\ SendsAreLeft /\ TaskIsDelivered /\ StartedIsWired /\ K!OffsetPassesOnlyHandled

LEMMA MailboxInit ==
    ASSUME MailboxSane
    PROVE  K!Init => MailboxInv
<1> SUFFICES ASSUME K!Init PROVE MailboxInv
  OBVIOUS
<1>1. log \in Seq(Work \cup {Junk}) /\ Len(log) = 0
  BY DEF K!Init
<1>2. K!TypeOK
  <2>1. sending \in [Work -> {"new", "sending", "done", "thrown", "failed"}]
    BY DEF K!Init
  <2>2. left \in [Work -> 0 .. Sends] /\ breaks \in 0 .. MaxBreaks
    BY DEF MailboxSane, K!Init
  <2>3. committed = 0 /\ delivered = 0 /\ handled = {} /\ started = 0 /\ wiring = "none"
    BY DEF K!Init
  <2>4. topic \in BOOLEAN /\ connected \in BOOLEAN
    BY DEF K!Init
  <2>5. Len(log) <= MaxRecords
    BY <1>1 DEF MailboxSane
  <2> QED  BY <1>1, <2>1, <2>2, <2>3, <2>4, <2>5 DEF K!TypeOK
<1>3. K!OffsetPassesOnlyHandled
  BY DEF K!Init, K!OffsetPassesOnlyHandled
<1> QED
  BY <1>2, <1>3
  DEF MailboxSane, K!Init, MailboxInv, SendsAreLeft, TaskIsDelivered, StartedIsWired

\* What a record appended to the log changes for those before it: nothing.
LEMMA LogGrows ==
    ASSUME MailboxSane, NEW record \in Work \cup {Junk}, log \in Seq(Work \cup {Junk}),
           K!Append1(record)
    PROVE  /\ log' \in Seq(Work \cup {Junk})
           /\ Len(log') = Len(log) + 1 /\ Len(log') <= MaxRecords
           /\ \A i \in DOMAIN log : log'[i] = log[i]
           /\ DOMAIN log = 1 .. Len(log) /\ DOMAIN log' = 1 .. Len(log')
           /\ log'[Len(log')] = record
BY DEF MailboxSane, K!Append1

\* An appended record disturbs neither the offsets nor what was sent.
LEMMA AppendKeeps ==
    ASSUME MailboxSane, MailboxInv, NEW record \in Work \cup {Junk}, K!Append1(record),
           UNCHANGED <<K!consumer, K!wires, breaks>>
    PROVE  /\ log' \in Seq(Work \cup {Junk}) /\ Len(log') <= MaxRecords
           /\ committed' \in 0 .. Len(log')
           /\ delivered' \in {0, committed' + 1} /\ delivered' <= Len(log')
           /\ handled' \subseteq DOMAIN log'
           /\ TaskIsDelivered' /\ StartedIsWired'
           /\ \A i \in 1 .. committed' : log'[i] = Junk \/ i \in handled'
           /\ \A w \in Work : (\E i \in DOMAIN log : log[i] = w)
                                 => \E i \in DOMAIN log' : log'[i] = w
           /\ \E i \in DOMAIN log' : log'[i] = record
<1>1. log \in Seq(Work \cup {Junk})
  BY DEF MailboxInv, K!TypeOK
<1>2. /\ log' \in Seq(Work \cup {Junk})
      /\ Len(log') = Len(log) + 1 /\ Len(log') <= MaxRecords
      /\ \A i \in DOMAIN log : log'[i] = log[i]
      /\ DOMAIN log = 1 .. Len(log) /\ DOMAIN log' = 1 .. Len(log')
      /\ log'[Len(log')] = record
  BY <1>1, LogGrows
<1>3. Len(log) \in Nat /\ Len(log') \in Nat
  BY <1>1, <1>2
<1>4. /\ UNCHANGED <<committed, delivered, handled, topic, connected, wiring, started>>
      /\ committed \in 0 .. Len(log) /\ delivered \in {0, committed + 1}
      /\ delivered <= Len(log) /\ handled \subseteq DOMAIN log
  BY DEF MailboxInv, K!TypeOK, K!consumer, K!wires
<1>5. /\ committed' \in 0 .. Len(log')
      /\ delivered' \in {0, committed' + 1} /\ delivered' <= Len(log')
      /\ handled' \subseteq DOMAIN log'
  BY <1>2, <1>3, <1>4
<1>6. TaskIsDelivered'
  BY <1>2, <1>3, <1>4 DEF MailboxInv, TaskIsDelivered
<1>7. StartedIsWired'
  BY <1>4 DEF MailboxInv, StartedIsWired
<1>8. \A i \in 1 .. committed' : log'[i] = Junk \/ i \in handled'
  BY <1>2, <1>3, <1>4 DEF MailboxInv, K!OffsetPassesOnlyHandled
<1>9. /\ \A w \in Work : (\E i \in DOMAIN log : log[i] = w)
                            => \E i \in DOMAIN log' : log'[i] = w
      /\ \E i \in DOMAIN log' : log'[i] = record
  BY <1>2, <1>3
<1> QED  BY <1>2, <1>5, <1>6, <1>7, <1>8, <1>9

\* publish(), its retries and replayDlq().
LEMMA ProducerSteps ==
    ASSUME MailboxSane, MailboxInv,
           K!ForeignRecord \/ \E w \in Work : K!Publish(w) \/ K!Send(w) \/ K!Replay(w)
    PROVE  MailboxInv'
<1>1. CASE K!ForeignRecord
  <2>1. K!Append1(Junk) /\ UNCHANGED <<sending, left, K!consumer, K!wires, breaks>>
    BY <1>1 DEF K!ForeignRecord
  <2>2. K!TypeOK' /\ TaskIsDelivered' /\ StartedIsWired'
    BY <2>1, AppendKeeps DEF MailboxInv, K!TypeOK, K!wires
  <2>3. K!OffsetPassesOnlyHandled'
    BY <2>1, AppendKeeps DEF MailboxInv, K!OffsetPassesOnlyHandled
  <2>4. SendsAreLeft'
    BY <2>1 DEF MailboxInv, SendsAreLeft
  <2> QED  BY <2>2, <2>3, <2>4 DEF MailboxInv
<1>2. ASSUME NEW w \in Work, K!Publish(w) \/ K!Replay(w)
      PROVE  MailboxInv'
  <2>1. /\ UNCHANGED <<log, committed, delivered, handled, topic, connected, wiring,
                       started, breaks>>
        /\ sending \in [Work -> {"new", "sending", "done", "thrown", "failed"}]
        /\ left \in [Work -> 0 .. Sends]
        /\ sending' = [sending EXCEPT ![w] = "sending"]
        /\ left' = [left EXCEPT ![w] = Sends]
    BY <1>2 DEF K!Publish, K!Replay, MailboxInv, K!TypeOK, K!consumer, K!wires
  <2>2. /\ sending' \in [Work -> {"new", "sending", "done", "thrown", "failed"}]
        /\ left' \in [Work -> 0 .. Sends]
        /\ \A v \in Work : sending'[v] \in {"done", "failed"} => sending'[v] = sending[v]
    BY <2>1 DEF MailboxSane
  <2>3. SendsAreLeft'
    BY <2>1 DEF MailboxSane, MailboxInv, SendsAreLeft
  <2>4. K!TypeOK'
    BY <2>1, <2>2 DEF MailboxInv, K!TypeOK
  <2>5. TaskIsDelivered' /\ StartedIsWired' /\ K!OffsetPassesOnlyHandled'
    BY <2>1, <2>2
    DEF MailboxInv, TaskIsDelivered, StartedIsWired, K!OffsetPassesOnlyHandled
  <2> QED  BY <2>3, <2>4, <2>5 DEF MailboxInv
<1>3. ASSUME NEW w \in Work, K!Send(w)
      PROVE  MailboxInv'
  <2>1. /\ UNCHANGED <<K!consumer, K!wires, breaks>>
        /\ left' \in [Work -> 0 .. Sends]
        /\ sending' \in [Work -> {"new", "sending", "done", "thrown", "failed"}]
        /\ SendsAreLeft'
    BY <1>3 DEF MailboxSane, K!Send, MailboxInv, K!TypeOK, SendsAreLeft
  <2>2. CASE K!Append1(w)
    <3>1. \A v \in Work : sending'[v] \in {"done", "failed"} =>
              v = w \/ sending[v] \in {"done", "failed"}
      BY <1>3 DEF K!Send, MailboxInv, K!TypeOK
    <3>2. K!TypeOK' /\ TaskIsDelivered' /\ StartedIsWired'
      BY <2>1, <2>2, AppendKeeps DEF MailboxInv, K!TypeOK, K!wires
    <3>3. K!OffsetPassesOnlyHandled'
      BY <2>1, <2>2, <3>1, AppendKeeps DEF MailboxInv, K!OffsetPassesOnlyHandled
    <3> QED  BY <2>1, <3>2, <3>3 DEF MailboxInv
  <2>3. CASE UNCHANGED log
    <3>1. \/ \A v \in Work : sending'[v] \in {"done", "failed"} =>
                 sending[v] \in {"done", "failed"}
          \/ K!Append1(w)
      BY <1>3 DEF K!Send, MailboxInv, K!TypeOK
    <3> QED
      BY <2>1, <2>2, <2>3, <3>1
      DEF MailboxInv, K!TypeOK, TaskIsDelivered, K!OffsetPassesOnlyHandled, K!wires, K!consumer,
          StartedIsWired
  <2> QED  BY <1>3, <2>2, <2>3 DEF K!Send
<1> QED  BY <1>1, <1>2, <1>3

\* subscribe() and unsubscribe().
LEMMA WiringSteps ==
    ASSUME MailboxSane, MailboxInv, K!Subscribe \/ K!Wire \/ K!WireFails \/ K!Unsubscribe
    PROVE  MailboxInv'
<1>1. UNCHANGED <<log, sending, left, committed, handled>>
  BY DEF K!Subscribe, K!Wire, K!WireFails, K!Unsubscribe, K!producer, K!consumer
<1>2. delivered' = delivered \/ delivered' = 0
  BY DEF K!Subscribe, K!Wire, K!WireFails, K!Unsubscribe, K!consumer
<1>3. breaks' \in 0 .. MaxBreaks
  BY DEF K!Subscribe, K!Wire, K!WireFails, K!Unsubscribe, K!Break, MailboxSane,
         MailboxInv, K!TypeOK
<1>4. /\ topic' \in BOOLEAN /\ connected' \in BOOLEAN
      /\ wiring' \in {"none", "connecting", "subscribing", "starting", "running"}
      /\ wiring' \in {"starting", "running"} => topic' /\ connected'
      /\ StartedIsWired'
  <2> USE DEF MailboxInv, K!TypeOK, StartedIsWired
  <2>1. CASE K!Subscribe
    BY <2>1 DEF K!Subscribe
  <2>2. CASE K!Wire
    <3>1. CASE wiring = "connecting"
      BY <2>2, <3>1 DEF K!Wire
    <3>2. CASE wiring = "subscribing"
      <4>1. started = 0 /\ started' = 1
        BY <2>2, <3>2 DEF K!Wire
      <4>2. topic' /\ connected' /\ wiring' = "starting"
        BY <2>2, <3>2 DEF K!Wire
      <4>3. topic' \in BOOLEAN /\ connected' \in BOOLEAN
        BY <2>2, <3>2 DEF K!Wire
      <4> QED  BY <4>1, <4>2, <4>3
    <3>3. CASE wiring = "starting"
      BY <2>2, <3>3 DEF K!Wire
    <3> QED  BY <2>2, <3>1, <3>2, <3>3 DEF K!Wire
  <2>3. CASE K!WireFails
    BY <2>3 DEF K!WireFails
  <2>4. CASE K!Unsubscribe
    <3>1. wiring' = "none" /\ topic' \in BOOLEAN /\ connected' \in BOOLEAN
      BY <2>4 DEF K!Unsubscribe
    <3>2. started' = 0
      BY <2>4 DEF K!Unsubscribe
    <3> QED  BY <3>1, <3>2
  <2> QED  BY <2>1, <2>2, <2>3, <2>4
<1>5. started' \in Nat
  BY <1>4 DEF StartedIsWired
<1>6. /\ log \in Seq(Work \cup {Junk}) /\ Len(log) \in Nat /\ committed \in 0 .. Len(log)
  BY DEF MailboxInv, K!TypeOK
<1>7. K!TypeOK'
  BY <1>1, <1>2, <1>3, <1>4, <1>5, <1>6 DEF MailboxInv, K!TypeOK
<1>8. SendsAreLeft' /\ TaskIsDelivered' /\ K!OffsetPassesOnlyHandled'
  BY <1>1, <1>2 DEF MailboxInv, SendsAreLeft, TaskIsDelivered, K!OffsetPassesOnlyHandled
<1> QED  BY <1>4, <1>7, <1>8 DEF MailboxInv

\* eachMessage() and what ends it.
LEMMA MessageSteps ==
    ASSUME MailboxSane, MailboxInv, K!Fetch \/ K!HandlerReturns \/ K!HandlerThrows \/ K!Evicted
    PROVE  MailboxInv'
<1>0. /\ log \in Seq(Work \cup {Junk}) /\ Len(log) \in Nat
      /\ DOMAIN log = 1 .. Len(log) /\ committed \in Nat
  BY DEF MailboxInv, K!TypeOK
<1>1. CASE K!Fetch
  BY <1>0, <1>1
  DEF MailboxSane, MailboxInv, K!TypeOK, SendsAreLeft, TaskIsDelivered, StartedIsWired,
            K!OffsetPassesOnlyHandled, K!producer, K!wires, K!Fetch
<1>2. CASE K!HandlerReturns
  <2>1. delivered = committed + 1 /\ delivered \in DOMAIN log /\ log[delivered] \in Work
    BY <1>0, <1>2 DEF K!HandlerReturns, MailboxInv, K!TypeOK, TaskIsDelivered
  <2>2. /\ sending' \in [Work -> {"new", "sending", "done", "thrown", "failed"}]
        /\ \A v \in Work : sending'[v] \in {"done", "failed"} =>
               sending[v] \in {"done", "failed"}
        /\ \A v \in Work : sending'[v] = "sending" => sending[v] = "sending"
    BY <2>1, <1>2 DEF K!HandlerReturns, MailboxInv, K!TypeOK
  <2>3. \A i \in 1 .. committed' : log'[i] = Junk \/ i \in handled'
    BY <1>0, <2>1, <1>2 DEF K!HandlerReturns, MailboxInv, K!OffsetPassesOnlyHandled
  <2> QED
    BY <1>0, <1>2, <2>1, <2>2, <2>3
    DEF MailboxInv, K!TypeOK, SendsAreLeft, TaskIsDelivered, StartedIsWired,
        K!OffsetPassesOnlyHandled, K!wires, K!HandlerReturns
<1>3. CASE K!HandlerThrows
  BY <1>0, <1>3
  DEF MailboxSane, MailboxInv, K!TypeOK, SendsAreLeft, TaskIsDelivered, StartedIsWired,
            K!OffsetPassesOnlyHandled, K!producer, K!wires, K!Break, K!HandlerThrows
<1>4. CASE K!Evicted
  BY <1>0, <1>4
  DEF MailboxSane, MailboxInv, K!TypeOK, SendsAreLeft, TaskIsDelivered, StartedIsWired,
            K!OffsetPassesOnlyHandled, K!producer, K!wires, K!Break, K!Evicted
<1> QED  BY <1>1, <1>2, <1>3, <1>4

LEMMA MailboxInvHolds ==
    ASSUME MailboxSane
    PROVE  K!Spec => []MailboxInv
<1>1. K!Init => MailboxInv
  BY MailboxInit
<1>2. MailboxInv /\ [K!Next]_(K!kafkaVars) => MailboxInv'
  <2> SUFFICES ASSUME MailboxInv, [K!Next]_(K!kafkaVars) PROVE MailboxInv'
    OBVIOUS
  <2>1. CASE K!Next
    BY <2>1, ProducerSteps, WiringSteps, MessageSteps DEF K!Next
  <2>2. CASE UNCHANGED K!kafkaVars
    BY <2>2
    DEF K!kafkaVars, MailboxInv, K!TypeOK, SendsAreLeft, TaskIsDelivered,
        StartedIsWired,
                K!OffsetPassesOnlyHandled
  <2> QED  BY <2>1, <2>2
<1> QED  BY <1>1, <1>2, PTL DEF K!Spec

\* The variables of KafkaDriver and of its topic keep their types: a delivered record
\* is the first the group is not past.
THEOREM MailboxTypeCorrect ==
    ASSUME MailboxSane
    PROVE  K!Spec => []K!TypeOK
<1>1. MailboxInv => K!TypeOK
  BY DEF MailboxInv
<1> QED  BY <1>1, MailboxInvHolds, PTL

\* The group is past a task only when its handler has returned, and a consumer runs
\* once per connection (eachMessage, subscribe), however often either fails.
THEOREM MailboxIsHonest ==
    ASSUME MailboxSane
    PROVE  Spec => []OffsetsAreHonest
<1>1. MailboxInv => OffsetsAreHonest
  BY DEF OffsetsAreHonest, MailboxInv, StartedIsWired, K!OffsetsAreHonest,
         K!OneRunPerConnection
<1> QED  BY <1>1, MailboxInvHolds, WorkRunsAlone, PTL

-----------------------------------------------------------------------------
(* ProcessDrain: the shutdown of a process.                                *)

\* A sequence has a step.
DrainSane == StepCount \in Nat \ {0} /\ MaxSignals \in Nat

\* A sequence reported clean is one that ran to its end without an error.
CleanIsClean == \A s \in Sequence :
    run[s].result = "clean" => run[s].at > StepCount /\ ~run[s].failed

\* Nothing has a result before the first signal, nor in a gateway that still runs.
NotYet ==
    /\ process = "up" => \A s \in Sequence : run[s].at = 0 /\ run[s].result = "none"
    /\ kind = "gateway" /\ process # "gone" => \A s \in Sequence : run[s].result = "none"

\* The flush begins when every node that drains has its result.
FlushIsLast ==
    /\ process = "flushing" => kind = "worker"
    /\ kind = "worker" /\ (process = "flushing" \/ exitCode \in {"clean", "unclean"}) =>
          \A s \in Sequence : run[s].at > 0 => run[s].result # "none"

CleanExit ==
    exitCode = "clean" =>
        IF kind = "worker" THEN \A s \in Sequence : run[s].at > 0 => run[s].result = "clean"
                           ELSE \E s \in Sequence : run[s].result = "clean"

DrainInv ==
    /\ D!TypeOK /\ kind \in {"worker", "gateway"}
    /\ CleanIsClean /\ NotYet /\ FlushIsLast /\ CleanExit

LEMMA DrainInit ==
    ASSUME DrainSane
    PROVE  D!Init => DrainInv
BY DEF DrainSane, D!Init, DrainInv, D!TypeOK, CleanIsClean, NotYet, FlushIsLast,
       CleanExit, D!Step

\* A signal: fatal, swallowed, heard again, or the begin of a drain.
LEMMA SignalKeeps ==
    ASSUME DrainSane, DrainInv, D!Signal
    PROVE  DrainInv'
<1> USE DEF DrainSane, DrainInv, D!TypeOK, CleanIsClean, NotYet, FlushIsLast, CleanExit
<1>1. /\ process # "gone" /\ exitCode = "none"
      /\ UNCHANGED <<kind, telemetry, listening, hang>>
  BY DEF D!Signal
<1>2. CASE listening = {}
  BY <1>1, <1>2 DEF D!Signal, D!Exit
<1>3. CASE listening # {} /\ kind = "worker" /\ process # "up"
  BY <1>1, <1>3 DEF D!Signal
<1>4. CASE listening # {} /\ (kind = "gateway" \/ process = "up")
  <2>1. PICK S : D!Begin(S)
    BY <1>4 DEF D!Signal
  <2>2. /\ process' \in {process, "draining"} /\ process' # "up" /\ exitCode' = "none"
        /\ process = "up" => process' = "draining"
    BY <1>1, <1>4 DEF D!Signal
  <2>3. \A s \in Sequence : /\ run'[s].result = run[s].result
                            /\ run'[s].failed = run[s].failed
                            /\ run'[s].at \in 0 .. StepCount + 1
    BY <2>1 DEF D!Begin
  <2>4. run' \in [Sequence -> [at : 0 .. StepCount + 1, failed : BOOLEAN,
                               result : {"none", "clean", "unclean"}]]
    <3>1. \A s \in Sequence : [run[s] EXCEPT !.at = 1]
              \in [at : 0 .. StepCount + 1, failed : BOOLEAN,
                   result : {"none", "clean", "unclean"}]
      OBVIOUS
    <3> QED  BY <2>1, <3>1 DEF D!Begin
  <2>5. \A s \in Sequence : run[s].result = "none"
    BY <1>1, <1>4
  <2>6. process # "flushing"
    BY <1>4
  <2> QED  BY <1>1, <2>2, <2>3, <2>4, <2>5, <2>6
<1> QED  BY <1>2, <1>3, <1>4

\* A sequence goes on, perhaps with its result, and a gateway exits with that.
LEMMA ResolveKeeps ==
    ASSUME DrainSane, DrainInv, NEW s \in Sequence, D!Runs(s),
           NEW r \in [at : 1 .. StepCount + 1, failed : BOOLEAN,
                      result : {"none", "clean", "unclean"}],
           D!Resolve(s, r),
           r.result = "clean" => r.at > StepCount /\ ~r.failed,
           run[s].result # "none" => r.result # "none"
    PROVE  DrainInv'
<1> USE DEF DrainSane, DrainInv, D!TypeOK, CleanIsClean, NotYet, FlushIsLast, CleanExit
<1>1. /\ process # "gone" /\ exitCode = "none" /\ run[s].at > 0
      /\ run' = [run EXCEPT ![s] = r]
      /\ UNCHANGED <<kind, telemetry, listening, signals, hang>>
  BY DEF D!Runs, D!Resolve, D!Step
<1>2. /\ run'[s] = r /\ \A q \in Sequence \ {s} : run'[q] = run[q]
      /\ run' \in [Sequence -> [at : 0 .. StepCount + 1, failed : BOOLEAN,
                                result : {"none", "clean", "unclean"}]]
  BY <1>1
<1>3. CleanIsClean'
  BY <1>2
<1>4. CASE kind = "gateway" /\ r.result # "none"
  <2>1. process' = "gone" /\ exitCode' = r.result
    BY <1>4 DEF D!Resolve, D!Exit
  <2> QED  BY <1>1, <1>2, <1>3, <1>4, <2>1
<1>5. CASE kind = "gateway" /\ r.result = "none"
  <2>1. process' = process /\ exitCode' = exitCode
    BY <1>5 DEF D!Resolve
  <2> QED  BY <1>1, <1>2, <1>3, <1>5, <2>1
<1>6. CASE kind = "worker"
  <2>1. process' = process /\ exitCode' = exitCode
    BY <1>6 DEF D!Resolve
  <2> QED  BY <1>1, <1>2, <1>3, <1>6, <2>1
<1> QED  BY <1>4, <1>5, <1>6

\* A step of a sequence ends, or its deadline comes.
LEMMA SequenceKeeps ==
    ASSUME DrainSane, DrainInv, NEW s \in Sequence,
           D!StepEnds(s, TRUE) \/ D!StepEnds(s, FALSE) \/ D!Deadline(s)
    PROVE  DrainInv'
<1>0. D!Runs(s) /\ run[s].at \in 1 .. StepCount
  BY DEF D!StepEnds, D!Deadline, D!Runs, D!Step
<1>1. /\ run[s] \in [at : 0 .. StepCount + 1, failed : BOOLEAN,
                     result : {"none", "clean", "unclean"}]
      /\ run[s].result # "clean" /\ StepCount \in Nat
  BY <1>0 DEF DrainSane, DrainInv, D!TypeOK, CleanIsClean
<1>2. CASE D!Deadline(s)
  <2> DEFINE r == [run[s] EXCEPT !.result = "unclean"]
  <2>1. /\ r \in [at : 1 .. StepCount + 1, failed : BOOLEAN,
                  result : {"none", "clean", "unclean"}]
        /\ r.result = "unclean"
    BY <1>0, <1>1
  <2>2. D!Resolve(s, r)
    BY <1>2 DEF D!Deadline
  <2> HIDE DEF r
  <2> QED  BY <1>0, <2>1, <2>2, ResolveKeeps
<1>3. ASSUME NEW throws \in BOOLEAN, D!StepEnds(s, throws)
      PROVE  DrainInv'
  <2> DEFINE failed == run[s].failed \/ throws
             r == [at |-> run[s].at + 1, failed |-> failed,
                   result |-> IF run[s].at = StepCount /\ run[s].result = "none"
                              THEN D!Result(failed) ELSE run[s].result]
  <2>1. failed \in BOOLEAN
    BY <1>1
  <2>2. r.result = IF run[s].at = StepCount /\ run[s].result = "none"
                   THEN IF failed THEN "unclean" ELSE "clean"
                   ELSE run[s].result
    BY DEF D!Result
  <2>3. /\ r.result \in {"none", "clean", "unclean"}
        /\ r.at \in 1 .. StepCount + 1 /\ r.at = run[s].at + 1 /\ r.failed = failed
        /\ r = [at |-> r.at, failed |-> r.failed, result |-> r.result]
    BY <1>0, <1>1, <2>2
  <2>4. r \in [at : 1 .. StepCount + 1, failed : BOOLEAN, result : {"none", "clean", "unclean"}]
    BY <2>1, <2>3
  <2>5. r.result = "clean" => r.at > StepCount /\ ~r.failed
    BY <1>0, <1>1, <2>2, <2>3
  <2>6. run[s].result # "none" => r.result # "none"
    BY <2>2
  <2>7. D!Resolve(s, r)
    BY <1>3 DEF D!StepEnds
  <2> HIDE DEF r
  <2> QED  BY <1>0, <2>4, <2>5, <2>6, <2>7, ResolveKeeps
<1> QED  BY <1>2, <1>3

LEMMA DrainStep ==
    ASSUME DrainSane
    PROVE  DrainInv /\ [D!Next]_(D!drainVars) => DrainInv'
<1> SUFFICES ASSUME DrainInv, [D!Next]_(D!drainVars) PROVE DrainInv'
  OBVIOUS
<1> USE DEF DrainInv, D!TypeOK, CleanIsClean, NotYet, FlushIsLast, CleanExit
<1>1. ASSUME NEW s \in Sequence, D!Register(s) PROVE DrainInv'
  BY <1>1 DEF D!Register
<1>2. CASE D!NodesDrained
  BY <1>2 DEF D!NodesDrained
<1>3. CASE D!FlushEnds
  BY <1>3 DEF D!FlushEnds, D!Exit
<1>4. CASE UNCHANGED D!drainVars
  BY <1>4 DEF D!drainVars
<1> HIDE DEF DrainInv, D!TypeOK, CleanIsClean, NotYet, FlushIsLast, CleanExit
<1> QED  BY <1>1, <1>2, <1>3, <1>4, SequenceKeeps, SignalKeeps DEF D!Next

-----------------------------------------------------------------------------
\* The state of the drain keeps its type, and the exit code is set exactly when the
\* process is gone.
THEOREM DrainTypeCorrect ==
    ASSUME DrainSane
    PROVE  D!Spec => []D!TypeOK
<1>1. DrainInv => D!TypeOK
  BY DEF DrainInv
<1> QED  BY <1>1, DrainInit, DrainStep, PTL DEF D!Spec

\* drainProcess and the gateway's shutdown never exit 0 over a step that failed or
\* did not end, and a worker does not exit before every drain has its result.
THEOREM ExitTellsTheTruth ==
    ASSUME DrainSane
    PROVE  Spec => []ExitIsHonest
<1>1. DrainInv => ExitIsHonest
  <2> SUFFICES ASSUME DrainInv PROVE ExitIsHonest
    OBVIOUS
  <2>1. kind = "worker" /\ exitCode \in {"clean", "unclean"} =>
            \A s \in Sequence : run[s].at > 0 => run[s].result # "none"
    BY DEF DrainInv, FlushIsLast
  <2> DEFINE done == {s \in Sequence : run[s].at > StepCount /\ ~run[s].failed}
  <2>2. exitCode = "clean" =>
            IF kind = "worker" THEN {s \in Sequence : run[s].at > 0} \subseteq done
            ELSE done # {}
    BY DEF DrainInv, CleanExit, CleanIsClean
  <2> QED  BY <2>1, <2>2 DEF ExitIsHonest, D!ExitIsHonest
<1> QED  BY <1>1, DrainInit, DrainStep, WorkRunsAlone, PTL


-----------------------------------------------------------------------------
(* TeamTask: the attempts at a task and their teams.                       *)

\* The bounds are numbers.
TeamSane == Attempts \in Nat /\ MaxCalls \in Nat /\ MaxRotations \in Nat

AttemptType ==
    [at : {"new", "asking", "built", "over"}, since : Nat, asked : 0 .. 2,
     env : [{"OPENAI", "OPENROUTER"} -> Nat], key : Nat, owned : BOOLEAN,
     team : {"none", "running", "stopping", "stopped", "ended"},
     calling : BOOLEAN, calls : Nat, used : Nat, aborted : BOOLEAN,
     outcome : {"none", "result", "failed", "rejected", "reason"}, reported : Nat]

Settled(r) == r.aborted \/ r.outcome \in {"failed", "rejected"}

\* A key asked for is the provider's of that moment, which was not before Begin.
FreshKeys(r) ==
    /\ IF r.at = "new" THEN r.asked = 0 ELSE r.since \in 2 .. vault
    /\ setup.provider /\ "OPENAI" \in setup.keys /\ r.asked >= 1 => r.env["OPENAI"] >= r.since
    /\ setup.provider /\ "OPENROUTER" \in setup.keys /\ r.asked = 2 =>
          r.env["OPENROUTER"] >= r.since
    /\ r.at = "built" /\ setup.provider /\ T!KeyName \in setup.keys => r.key >= r.since

\* Only a built attempt's team runs, and stops when the attempt hears of its abort;
\* only a team that runs or is told to stop has a call under way.
OneTeam(r) ==
    /\ r.at = "new" => ~r.aborted
    /\ r.at \in {"new", "asking"} => r.team = "none"
    /\ r.at = "over" <=> r.outcome # "none"
    /\ r.at = "built" <=> r.team = "running"
    /\ r.team # "none" => r.owned = T!Owned
    /\ r.calling => r.team \in {"running", "stopping"} /\ r.used < r.calls
    /\ r.team = "stopping" => ~r.owned
    /\ setup.signal /\ r.aborted => r.team # "running"
    /\ r.used <= r.calls
    /\ r.outcome \in {"result", "failed"} => r.team = "ended" /\ r.reported = r.used

\* An attempt begins when those before it have settled for the actor.
BeginsAfter ==
    \A a \in 1 .. Attempts : attempt[a].at # "new" =>
        \A b \in 1 .. a - 1 : Settled(attempt[b])

TeamInv ==
    /\ setup \in T!Setup /\ vault \in 2 .. 2 + MaxRotations
    /\ attempt \in [1 .. Attempts -> AttemptType]
    /\ \A a \in 1 .. Attempts : FreshKeys(attempt[a]) /\ OneTeam(attempt[a])
    /\ BeginsAfter

LEMMA TeamInit ==
    ASSUME TeamSane
    PROVE  T!Init => TeamInv
BY DEF TeamSane, T!Init, TeamInv, AttemptType, FreshKeys, OneTeam, BeginsAfter, T!Unborn,
       T!NoKey,
       T!Setup, T!KeyName

\* One attempt goes on: it stays settled, and it began after those before it.
LEMMA OneAttemptGoesOn ==
    ASSUME TeamSane, TeamInv, NEW a \in 1 .. Attempts, NEW r \in AttemptType,
           attempt' = [attempt EXCEPT ![a] = r], UNCHANGED <<setup, vault>>,
           FreshKeys(r), OneTeam(r), Settled(attempt[a]) => Settled(r),
           attempt[a].at = "new" => r.at = "new" \/ \A b \in 1 .. a - 1 : Settled(attempt[b])
    PROVE  TeamInv'
<1>1. /\ attempt' \in [1 .. Attempts -> AttemptType] /\ attempt'[a] = r
      /\ \A b \in 1 .. Attempts : b # a => attempt'[b] = attempt[b]
  BY DEF TeamInv
<1>2. ASSUME NEW b \in 1 .. Attempts PROVE FreshKeys(attempt[b])' /\ OneTeam(attempt[b])'
  <2>1. FreshKeys(attempt'[b]) /\ OneTeam(attempt'[b])
    BY <1>1 DEF TeamInv
  <2> QED  BY <2>1 DEF FreshKeys, OneTeam, T!Owned, T!KeyName
<1>3. BeginsAfter'
  BY <1>1 DEF TeamSane, TeamInv, BeginsAfter, Settled
<1> QED  BY <1>1, <1>2, <1>3 DEF TeamInv

LEMMA AttemptSteps ==
    ASSUME TeamSane, TeamInv, NEW a \in 1 .. Attempts,
           \/ T!Begin(a) \/ T!AskKey(a) \/ T!AskFails(a) \/ T!Build(a)
           \/ T!BeginCall(a) \/ T!EndCall(a) \/ T!TeamErrs(a) \/ T!Abort(a)
           \/ \E status \in {"FINISHED", "BLOCKED"} : T!TeamResolves(a, status)
    PROVE  TeamInv'
<1> USE DEF TeamSane
<1>0. /\ attempt[a] \in AttemptType /\ FreshKeys(attempt[a]) /\ OneTeam(attempt[a])
      /\ setup \in T!Setup /\ vault \in Nat /\ vault >= 2
      /\ attempt \in [1 .. Attempts -> AttemptType]
  BY DEF TeamInv
<1>1. CASE T!Begin(a)
  <2> DEFINE r == [attempt[a] EXCEPT !.at = "asking", !.since = vault]
  <2>1. /\ attempt' = [attempt EXCEPT ![a] = r] /\ UNCHANGED <<setup, vault>>
        /\ attempt[a].at = "new" => \A b \in 1 .. a - 1 : Settled(attempt[b])
    BY <1>0, <1>1 DEF Settled, AttemptType, OneTeam, T!Begin
  <2>2. r \in AttemptType
    BY <1>0, <1>1 DEF AttemptType, OneTeam, T!Begin
  <2>3. FreshKeys(r)
    BY <1>0, <1>1 DEF FreshKeys, AttemptType, OneTeam, T!Begin
  <2>4. OneTeam(r)
    BY <1>0, <1>1 DEF OneTeam, AttemptType, T!Begin
  <2>5. Settled(attempt[a]) => Settled(r)
    BY <1>0, <1>1 DEF Settled, AttemptType, OneTeam, T!Begin
  <2> HIDE DEF r
  <2> QED  BY <2>1, <2>2, <2>3, <2>4, <2>5, OneAttemptGoesOn
<1>2. CASE T!AskFails(a)
  <2> DEFINE r == [attempt[a] EXCEPT !.at = "over", !.outcome = "rejected"]
  <2>1. /\ attempt' = [attempt EXCEPT ![a] = r] /\ UNCHANGED <<setup, vault>>
        /\ attempt[a].at = "new" => \A b \in 1 .. a - 1 : Settled(attempt[b])
    BY <1>0, <1>2 DEF Settled, AttemptType, OneTeam, T!AskFails
  <2>2. r \in AttemptType
    BY <1>0, <1>2 DEF AttemptType, OneTeam, T!AskFails
  <2>3. FreshKeys(r)
    BY <1>0, <1>2 DEF FreshKeys, AttemptType, OneTeam, T!AskFails
  <2>4. OneTeam(r)
    BY <1>0, <1>2 DEF OneTeam, AttemptType, T!AskFails
  <2>5. Settled(attempt[a]) => Settled(r)
    BY <1>0, <1>2 DEF Settled, AttemptType, OneTeam, T!AskFails
  <2> HIDE DEF r
  <2> QED  BY <2>1, <2>2, <2>3, <2>4, <2>5, OneAttemptGoesOn
<1>3. CASE T!BeginCall(a)
  <2> DEFINE r == [attempt[a] EXCEPT !.calling = TRUE, !.calls = @ + 1]
  <2>1. /\ attempt' = [attempt EXCEPT ![a] = r] /\ UNCHANGED <<setup, vault>>
        /\ attempt[a].at = "new" => \A b \in 1 .. a - 1 : Settled(attempt[b])
    BY <1>0, <1>3 DEF Settled, AttemptType, OneTeam, T!BeginCall
  <2>2. r \in AttemptType
    <3>1. attempt[a].calls \in Nat
      BY <1>0 DEF AttemptType
    <3>2. attempt[a].calls + 1 \in Nat
      BY <3>1
    <3> QED  BY <1>0, <3>2 DEF AttemptType
  <2>3. FreshKeys(r)
    BY <1>0, <1>3 DEF FreshKeys, AttemptType, OneTeam, T!BeginCall
  <2>4. OneTeam(r)
    BY <1>0, <1>3 DEF OneTeam, AttemptType, T!BeginCall
  <2>5. Settled(attempt[a]) => Settled(r)
    BY <1>0, <1>3 DEF Settled, AttemptType, OneTeam, T!BeginCall
  <2> HIDE DEF r
  <2> QED  BY <2>1, <2>2, <2>3, <2>4, <2>5, OneAttemptGoesOn
<1>4. CASE T!EndCall(a)
  <2> DEFINE r == [attempt[a] EXCEPT !.calling = FALSE, !.used = @ + 1,
                              !.team = IF @ = "stopping" THEN "stopped" ELSE @]
  <2>1. /\ attempt' = [attempt EXCEPT ![a] = r] /\ UNCHANGED <<setup, vault>>
        /\ attempt[a].at = "new" => \A b \in 1 .. a - 1 : Settled(attempt[b])
    BY <1>0, <1>4 DEF Settled, AttemptType, OneTeam, T!EndCall
  <2>2. r \in AttemptType
    <3>1. attempt[a].used \in Nat
      BY <1>0 DEF AttemptType
    <3>2. attempt[a].used + 1 \in Nat
      BY <3>1
    <3> QED  BY <1>0, <3>2 DEF AttemptType
  <2>3. FreshKeys(r)
    BY <1>0, <1>4 DEF FreshKeys, AttemptType, OneTeam, T!EndCall
  <2>4. OneTeam(r)
    BY <1>0, <1>4 DEF OneTeam, AttemptType, T!EndCall
  <2>5. Settled(attempt[a]) => Settled(r)
    BY <1>0, <1>4 DEF Settled, AttemptType, OneTeam, T!EndCall
  <2> HIDE DEF r
  <2> QED  BY <2>1, <2>2, <2>3, <2>4, <2>5, OneAttemptGoesOn
<1>5. CASE T!TeamErrs(a)
  <2> DEFINE r == [attempt[a] EXCEPT !.team = "ended", !.at = "over",
                              !.outcome = "rejected"]
  <2>1. /\ attempt' = [attempt EXCEPT ![a] = r] /\ UNCHANGED <<setup, vault>>
        /\ attempt[a].at = "new" => \A b \in 1 .. a - 1 : Settled(attempt[b])
    BY <1>0, <1>5 DEF Settled, AttemptType, OneTeam, T!TeamErrs
  <2>2. r \in AttemptType
    BY <1>0, <1>5 DEF AttemptType, OneTeam, T!TeamErrs
  <2>3. FreshKeys(r)
    BY <1>0, <1>5 DEF FreshKeys, AttemptType, OneTeam, T!TeamErrs
  <2>4. OneTeam(r)
    BY <1>0, <1>5 DEF OneTeam, AttemptType, T!TeamErrs
  <2>5. Settled(attempt[a]) => Settled(r)
    BY <1>0, <1>5 DEF Settled, AttemptType, OneTeam, T!TeamErrs
  <2> HIDE DEF r
  <2> QED  BY <2>1, <2>2, <2>3, <2>4, <2>5, OneAttemptGoesOn
<1>6. ASSUME NEW status \in {"FINISHED", "BLOCKED"}, T!TeamResolves(a, status)
      PROVE  TeamInv'
  <2> DEFINE r == [attempt[a] EXCEPT !.team = "ended", !.at = "over", !.reported = attempt[a].used,
                    !.outcome = IF status = "FINISHED" THEN "result" ELSE "failed"]
  <2>1. /\ attempt' = [attempt EXCEPT ![a] = r] /\ UNCHANGED <<setup, vault>>
        /\ attempt[a].at = "new" => \A b \in 1 .. a - 1 : Settled(attempt[b])
    BY <1>0, <1>6 DEF Settled, AttemptType, OneTeam, T!TeamResolves
  <2>2. r \in AttemptType
    BY <1>0, <1>6 DEF AttemptType, OneTeam, T!TeamResolves
  <2>3. FreshKeys(r)
    BY <1>0, <1>6 DEF FreshKeys, AttemptType, OneTeam, T!TeamResolves
  <2>4. OneTeam(r)
    BY <1>0, <1>6 DEF OneTeam, AttemptType, T!TeamResolves
  <2>5. Settled(attempt[a]) => Settled(r)
    BY <1>0, <1>6 DEF Settled, AttemptType, OneTeam, T!TeamResolves
  <2> HIDE DEF r
  <2> QED  BY <2>1, <2>2, <2>3, <2>4, <2>5, OneAttemptGoesOn
<1>7. CASE T!AskKey(a)
  <2> DEFINE r == [attempt[a] EXCEPT !.asked = @ + 1,
                    !.env = [attempt[a].env EXCEPT
                        ![IF attempt[a].asked = 0 THEN "OPENAI" ELSE "OPENROUTER"] =
                            IF /\ setup.provider
                               /\ (IF attempt[a].asked = 0 THEN "OPENAI" ELSE "OPENROUTER")
                                      \in setup.keys
                            THEN vault ELSE @]]
  <2>1. /\ attempt' = [attempt EXCEPT ![a] = r] /\ UNCHANGED <<setup, vault>>
        /\ attempt[a].at = "new" => \A b \in 1 .. a - 1 : Settled(attempt[b])
    BY <1>0, <1>7 DEF Settled, AttemptType, OneTeam, T!AskKey
  <2>2. r \in AttemptType
    <3>1. attempt[a].asked + 1 \in 0 .. 2
      BY <1>0, <1>7 DEF AttemptType, T!AskKey
    <3>2. r.env \in [{"OPENAI", "OPENROUTER"} -> Nat]
      BY <1>0 DEF AttemptType
    <3> QED  BY <1>0, <3>1, <3>2 DEF AttemptType
  <2>3. FreshKeys(r)
    BY <1>0, <1>7 DEF FreshKeys, AttemptType, OneTeam, T!AskKey
  <2>4. OneTeam(r)
    BY <1>0, <1>7 DEF OneTeam, AttemptType, T!AskKey
  <2>5. Settled(attempt[a]) => Settled(r)
    BY <1>0, <1>7 DEF Settled, AttemptType, OneTeam, T!AskKey
  <2> HIDE DEF r
  <2> QED  BY <2>1, <2>2, <2>3, <2>4, <2>5, OneAttemptGoesOn
<1>8. CASE T!Build(a)
  <2> DEFINE r == IF setup.signal /\ attempt[a].aborted
                    THEN [attempt[a] EXCEPT !.at = "over", !.outcome = "reason"]
                    ELSE [attempt[a] EXCEPT !.at = "built", !.team = "running",
                             !.owned = T!Owned, !.key = T!WithProviderKey(attempt[a].env)]
  <2>1. /\ attempt' = [attempt EXCEPT ![a] = r] /\ UNCHANGED <<setup, vault>>
        /\ attempt[a].at = "new" => \A b \in 1 .. a - 1 : Settled(attempt[b])
    BY <1>0, <1>8
    DEF Settled, AttemptType, OneTeam, T!Build, T!Owned, T!WithProviderKey, T!KeyName,
        T!NoKey, T!Baked, T!Setup
  <2>2. r \in AttemptType
    BY <1>0, <1>8
    DEF AttemptType, OneTeam, T!Build, T!Owned, T!WithProviderKey, T!KeyName, T!NoKey,
        T!Baked, T!Setup
  <2>3. FreshKeys(r)
    BY <1>0, <1>8
    DEF FreshKeys, AttemptType, OneTeam, T!Build, T!Owned, T!WithProviderKey, T!KeyName,
        T!NoKey, T!Baked, T!Setup
  <2>4. OneTeam(r)
    BY <1>0, <1>8
    DEF OneTeam, AttemptType, T!Build, T!Owned, T!WithProviderKey, T!KeyName, T!NoKey,
        T!Baked, T!Setup
  <2>5. Settled(attempt[a]) => Settled(r)
    BY <1>0, <1>8
    DEF Settled, AttemptType, OneTeam, T!Build, T!Owned, T!WithProviderKey, T!KeyName,
        T!NoKey, T!Baked, T!Setup
  <2> HIDE DEF r
  <2> QED  BY <2>1, <2>2, <2>3, <2>4, <2>5, OneAttemptGoesOn
<1>9. CASE T!Abort(a)
  <2> DEFINE r == IF attempt[a].at = "built" /\ setup.signal THEN T!OnAbort(a)
                    ELSE [attempt[a] EXCEPT !.aborted = TRUE]
  <2>1. /\ attempt' = [attempt EXCEPT ![a] = r] /\ UNCHANGED <<setup, vault>>
        /\ attempt[a].at = "new" => \A b \in 1 .. a - 1 : Settled(attempt[b])
    BY <1>0, <1>9 DEF Settled, AttemptType, OneTeam, T!Abort, T!OnAbort, T!Owned, T!Setup
  <2>2. r \in AttemptType
    BY <1>0, <1>9 DEF AttemptType, OneTeam, T!Abort, T!OnAbort, T!Owned, T!Setup
  <2>3. FreshKeys(r)
    BY <1>0, <1>9
    DEF FreshKeys, AttemptType, OneTeam, T!Abort, T!OnAbort, T!Owned, T!Setup
  <2>4. OneTeam(r)
    BY <1>0, <1>9 DEF OneTeam, AttemptType, T!Abort, T!OnAbort, T!Owned, T!Setup
  <2>5. Settled(attempt[a]) => Settled(r)
    BY <1>0, <1>9 DEF Settled, AttemptType, OneTeam, T!Abort, T!OnAbort, T!Owned, T!Setup
  <2> HIDE DEF r
  <2> QED  BY <2>1, <2>2, <2>3, <2>4, <2>5, OneAttemptGoesOn
<1> QED  BY <1>1, <1>2, <1>3, <1>4, <1>5, <1>6, <1>7, <1>8, <1>9

LEMMA TeamInvHolds ==
    ASSUME TeamSane
    PROVE  T!Spec => []TeamInv
<1>1. T!Init => TeamInv
  BY TeamInit
<1>2. TeamInv /\ [T!Next]_(T!teamVars) => TeamInv'
  <2> SUFFICES ASSUME TeamInv, [T!Next]_(T!teamVars) PROVE TeamInv'
    OBVIOUS
  <2>1. CASE T!Rotate
    <3>1. /\ setup' = setup /\ attempt' = attempt /\ vault' = vault + 1
          /\ vault < 2 + MaxRotations
      BY <2>1 DEF T!Rotate
    <3>2. ASSUME NEW a \in 1 .. Attempts PROVE FreshKeys(attempt[a])' /\ OneTeam(attempt[a])'
      BY <3>1 DEF TeamInv, FreshKeys, OneTeam, T!Owned, T!KeyName, TeamSane
    <3> QED  BY <3>1, <3>2 DEF TeamInv, TeamSane, BeginsAfter, Settled
  <2>2. CASE UNCHANGED T!teamVars
    BY <2>2
    DEF T!teamVars, TeamInv, BeginsAfter, Settled, FreshKeys, OneTeam, T!Owned,
        T!KeyName
  <2> QED  BY <2>1, <2>2, AttemptSteps DEF T!Next
<1> QED  BY <1>1, <1>2, PTL DEF T!Spec

LEMMA AttemptsAreCounted == \A S : T!Cardinality(S) = Cardinality(S)
BY DEF T!Cardinality, Cardinality

\* A worker that owns its model has one model call under way at most: an attempt calls
\* while it is not settled, and the attempts before the last one are.
LEMMA OneAttemptCalls ==
    ASSUME TeamSane, TeamInv, setup.signal, setup.openai
    PROVE  T!Cardinality({a \in 1 .. Attempts : attempt[a].calling}) <= 1
<1> DEFINE calling == {a \in 1 .. Attempts : attempt[a].calling}
<1>1. ASSUME NEW a \in calling PROVE attempt[a].at = "built" /\ ~Settled(attempt[a])
  <2>1. attempt[a] \in AttemptType /\ OneTeam(attempt[a])
    BY DEF TeamInv
  <2> QED  BY <2>1 DEF OneTeam, T!Owned, Settled, AttemptType
<1>2. ASSUME NEW a \in calling, NEW b \in calling PROVE a = b
  BY <1>1 DEF TeamSane, TeamInv, BeginsAfter
<1>3. calling = {} \/ \E a \in calling : calling = {a}
  BY <1>2
<1>4. Cardinality({}) = 0 /\ \A a : Cardinality({a}) = 1
  BY FS_EmptySet, FS_Singleton
<1>5. Cardinality(calling) \in {0, 1}
  BY ONLY <1>3, <1>4, Zenon
<1> QED  BY <1>5, AttemptsAreCounted

\* The attempts of a task and their keys keep their types.
THEOREM AttemptsTypeCorrect ==
    ASSUME TeamSane
    PROVE  T!Spec => []T!TypeOK
<1>1. TeamInv => T!TypeOK
  BY DEF TeamInv, OneTeam, AttemptType, T!TypeOK
<1> QED  BY <1>1, TeamInvHolds, PTL

\* However many attempts a task has and however often the keys rotate: a model is
\* called with a key given out for the attempt (buildEnv, withProviderKey), an attempt
\* given up stops spending (onAbort), and what a team used is what it reports.
THEOREM AttemptsStayClean ==
    ASSUME TeamSane
    PROVE  Spec => []AttemptsAreClean
<1>1. TeamInv => AttemptsAreClean
  <2> SUFFICES ASSUME TeamInv PROVE AttemptsAreClean
    OBVIOUS
  <2>1. \A a \in 1 .. Attempts :
            attempt[a] \in AttemptType /\ FreshKeys(attempt[a]) /\ OneTeam(attempt[a])
    BY DEF TeamInv
  <2>2. T!KeyIsTheTasks
    BY <2>1 DEF FreshKeys, T!KeyIsTheTasks
  <2>3. T!AbortEndsTheSpending
    BY <2>1, OneAttemptCalls DEF OneTeam, T!AbortEndsTheSpending
  <2>4. T!PaidIsReported
    BY <2>1 DEF OneTeam, T!PaidIsReported
  <2> QED  BY <2>2, <2>3, <2>4 DEF AttemptsAreClean, T!AttemptsAreClean
<1> QED  BY <1>1, TeamInvHolds, WorkRunsAlone, PTL


-----------------------------------------------------------------------------
(* McpSessions: the sessions and their calls.                              *)

\* The instance's counting is the library's.
LEMMA SessionsAreCounted == \A S : M!Cardinality(S) = Cardinality(S)
BY DEF M!Cardinality, Cardinality

LEMMA SessionsAreBounded ==
    /\ M!SessionsBounded <=>
          Cardinality(sessions \cup M!Connecting) <= MaxSessions + Cardinality(overlapped)
    /\ M!SessionsBounded' <=>
          Cardinality((sessions \cup M!Connecting)') <= MaxSessions + Cardinality(overlapped')
BY SessionsAreCounted DEF M!SessionsBounded

\* Finitely many clients in a behaviour; the settings are numbers and a switch.
SessionsSane == /\ IsFiniteSet(Client) /\ Client # {}
        /\ MaxSessions \in Nat /\ IdleTimeout \in Nat /\ MaxClock \in Nat
        /\ RequireConsent \in BOOLEAN

\* A session is registered, and looked at by the idle loop, once its open is over.
SessionsAreOver ==
    /\ \A s \in sessions : opening[s].at = "over"
    /\ \A c \in Client : \A s \in toClose[c] : opening[s].at = "over"

OverlappedAreOpen == overlapped \subseteq sessions \cup M!Connecting

\* Only a client that can be asked is asked.
AskedCanAnswer ==
    RequireConsent => \A k \in Call : call[k].at = "asking" => call[k].session \in elicits

SessionsInv ==
    /\ M!TypeOK /\ SessionsAreOver /\ OverlappedAreOpen /\ M!SessionsBounded
    /\ AskedCanAnswer /\ M!DispatchNeedsConsent

-----------------------------------------------------------------------------
(* The limit M on a set A of which O may be above it.                      *)

LEMMA GrowBoth ==
    ASSUME NEW A, IsFiniteSet(A), NEW O \in SUBSET A, NEW c, c \notin A, NEW limit \in Nat,
           Cardinality(A) <= limit + Cardinality(O)
    PROVE  Cardinality(A \cup {c}) <= limit + Cardinality(O \cup {c})
<1>1. IsFiniteSet(O)
  BY FS_Subset
<1>2. Cardinality(A) \in Nat /\ Cardinality(O) \in Nat
  BY <1>1, FS_CardinalityType
<1>3. Cardinality(A \cup {c}) = Cardinality(A) + 1
  BY FS_AddElement
<1>4. Cardinality(O \cup {c}) = Cardinality(O) + 1
  BY <1>1, FS_AddElement
<1> QED  BY <1>2, <1>3, <1>4

LEMMA ShrinkBoth ==
    ASSUME NEW A, IsFiniteSet(A), NEW O \in SUBSET A, NEW c \in A, NEW limit \in Nat,
           Cardinality(A) <= limit + Cardinality(O)
    PROVE  Cardinality(A \ {c}) <= limit + Cardinality(O \ {c})
<1>1. IsFiniteSet(O)
  BY FS_Subset
<1>2. Cardinality(A) \in Nat /\ Cardinality(O) \in Nat
  BY <1>1, FS_CardinalityType
<1>3. Cardinality(A \ {c}) = Cardinality(A) - 1
  BY FS_RemoveElement
<1>4. Cardinality(O \ {c}) >= Cardinality(O) - 1
  <2>1. CASE c \in O
    <3>1. Cardinality(O \ {c}) = Cardinality(O) - 1
      BY <1>1, <2>1, FS_RemoveElement
    <3> QED  BY <1>2, <3>1
  <2>2. CASE c \notin O
    <3>1. O \ {c} = O
      BY <2>2
    <3> QED  BY <1>2, <3>1
  <2> QED  BY <2>1, <2>2
<1>5. Cardinality(O \ {c}) \in Nat
  BY <1>1, FS_RemoveElement, FS_CardinalityType
<1> QED  BY <1>2, <1>3, <1>4, <1>5

LEMMA DropPart ==
    ASSUME NEW S, NEW C, IsFiniteSet(S), IsFiniteSet(C), S \cap C = {},
           NEW O \in SUBSET (S \cup C), NEW limit \in Nat,
           Cardinality(S \cup C) <= limit + Cardinality(O)
    PROVE  Cardinality(C) <= limit + Cardinality(O \cap C)
<1>1. /\ IsFiniteSet(O \cap S) /\ IsFiniteSet(O \cap C)
      /\ Cardinality(O \cap S) <= Cardinality(S)
  BY FS_Subset
<1>2. Cardinality(S \cup C) = Cardinality(S) + Cardinality(C) - Cardinality(S \cap C)
  BY FS_Union
<1>3. Cardinality(S \cap C) = 0
  BY FS_EmptySet
<1>4. /\ (O \cap S) \cup (O \cap C) = O
      /\ (O \cap S) \cap (O \cap C) = {}
  OBVIOUS
<1>5. Cardinality({}) = 0
  BY FS_EmptySet
<1>6. Cardinality(O) = Cardinality(O \cap S) + Cardinality(O \cap C) - Cardinality({})
  <2>1. ASSUME NEW A, NEW R, IsFiniteSet(A), IsFiniteSet(R), A \cup R = O, A \cap R = {}
        PROVE  Cardinality(O) = Cardinality(A) + Cardinality(R) - Cardinality({})
    BY <2>1, FS_Union
  <2> HIDE <2>1
  <2> QED  BY <1>1, <1>4, <2>1
<1>7. /\ Cardinality(S) \in Nat /\ Cardinality(C) \in Nat
      /\ Cardinality(O \cap S) \in Nat /\ Cardinality(O \cap C) \in Nat
  BY <1>1, FS_CardinalityType
<1>8. Cardinality(O) = Cardinality(O \cap S) + Cardinality(O \cap C)
  BY <1>5, <1>6, <1>7
<1>9. Cardinality(S) + Cardinality(C) <= limit + Cardinality(O)
  BY <1>2, <1>3, <1>7
<1> QED  BY <1>1, <1>7, <1>8, <1>9

-----------------------------------------------------------------------------
LEMMA SessionsInit ==
    ASSUME SessionsSane
    PROVE  M!Init => SessionsInv
<1> SUFFICES ASSUME M!Init PROVE SessionsInv
  OBVIOUS
<1>1. M!TypeOK
  BY DEF SessionsSane, M!Init, M!TypeOK, M!Unborn
<1>2. sessions \cup M!Connecting = {} /\ overlapped = {}
  BY DEF M!Init, M!Connecting
<1>3. M!SessionsBounded
  BY SessionsAreBounded, <1>2, FS_EmptySet DEF SessionsSane
<1>4. AskedCanAnswer /\ M!DispatchNeedsConsent
  BY DEF M!Init, AskedCanAnswer, M!DispatchNeedsConsent, M!Unborn
<1> QED
  BY <1>1, <1>2, <1>3, <1>4 DEF M!Init, SessionsInv, SessionsAreOver, OverlappedAreOpen

\* The sets the limit is about, in every state.
LEMMA OpenSets ==
    ASSUME SessionsSane, SessionsInv
    PROVE  /\ IsFiniteSet(sessions) /\ IsFiniteSet(M!Connecting)
           /\ IsFiniteSet(sessions \cup M!Connecting)
           /\ sessions \cap M!Connecting = {}
           /\ overlapped \in SUBSET (sessions \cup M!Connecting)
BY FS_Subset, FS_Union
DEF SessionsSane, SessionsInv, M!TypeOK, SessionsAreOver, OverlappedAreOpen, M!Connecting

\* openSession and closeIdleSessions.
LEMMA SessionOpens ==
    ASSUME SessionsSane, SessionsInv, NEW c \in Client,
           M!OpenSession(c) \/ M!Admit(c) \/ M!Initialized(c)
    PROVE  SessionsInv'
<1>0. AskedCanAnswer' /\ M!DispatchNeedsConsent'
  BY DEF SessionsInv, AskedCanAnswer, M!DispatchNeedsConsent, M!OpenSession, M!Admit,
         M!Initialized
<1>1. M!TypeOK' /\ SessionsAreOver'
  <2> USE DEF SessionsInv, M!TypeOK, SessionsAreOver
  <2>1. CASE M!OpenSession(c)
    BY <2>1 DEF M!OpenSession
  <2>2. CASE M!Admit(c)
    <3>1. PICK v \in {"over", "connecting"} : opening' = [opening EXCEPT ![c].at = v]
      BY <2>2 DEF M!Admit
    <3>2. c \notin sessions /\ \A d \in Client : c \notin toClose[d]
      BY <2>2 DEF M!Admit
    <3>3. \A s \in Client \ {c} : opening'[s] = opening[s]
      BY <3>1
    <3>4. overlapped' \subseteq Client
      BY <2>2 DEF M!Admit
    <3>5. UNCHANGED <<clock, toClose, sessions, lastSeen, elicits, call>>
      BY <2>2 DEF M!Admit
    <3> QED  BY <3>1, <3>2, <3>3, <3>4, <3>5
  <2>3. CASE M!Initialized(c)
    <3>1. opening' = [opening EXCEPT ![c].at = "over"]
      BY <2>3 DEF M!Initialized
    <3>2. /\ sessions' \subseteq sessions \cup {c} /\ overlapped' \subseteq overlapped
          /\ lastSeen' \in [Client -> 0 .. MaxClock]
          /\ UNCHANGED <<clock, toClose, elicits, call>>
      BY <2>3 DEF M!Initialized
    <3>3. \A s \in Client : opening[s].at = "over" \/ s = c => opening'[s].at = "over"
      BY <3>1
    <3>4. opening' \in [Client -> [at : {"new", "sweeping", "connecting", "over"},
                                   cutoff : 0 .. MaxClock]]
      BY <3>1
    <3> QED  BY <3>2, <3>3, <3>4
  <2> QED  BY <2>1, <2>2, <2>3
<1>2. OverlappedAreOpen' /\ M!SessionsBounded'
  <2>1. CASE M!OpenSession(c)
    <3>1. M!Connecting' = M!Connecting
      BY <2>1 DEF M!OpenSession, M!Connecting, SessionsInv, M!TypeOK
    <3> QED
      BY SessionsAreBounded, <2>1, <3>1 DEF M!OpenSession, SessionsInv, OverlappedAreOpen
  <2>2. CASE M!Admit(c) /\ M!Cardinality(sessions) >= MaxSessions
    <3>1. M!Connecting' = M!Connecting
      <4>1. \A d \in Client : opening'[d].at = "connecting" <=> opening[d].at = "connecting"
        BY <2>2 DEF M!Admit, SessionsInv, M!TypeOK
      <4> QED  BY <4>1 DEF M!Connecting
    <3> QED
      BY SessionsAreBounded, <2>2, <3>1 DEF M!Admit, SessionsInv, OverlappedAreOpen
  <2>3. CASE M!Admit(c) /\ ~(M!Cardinality(sessions) >= MaxSessions)
    <3>1. /\ M!Connecting' = M!Connecting \cup {c} /\ sessions' = sessions
          /\ c \notin M!Connecting
      BY <2>3 DEF M!Admit, M!Connecting, SessionsInv, M!TypeOK
    <3>2. c \notin sessions
      BY <2>3 DEF M!Admit, SessionsInv, SessionsAreOver
    <3>3. (sessions \cup M!Connecting)' = (sessions \cup M!Connecting) \cup {c}
      BY <3>1
    <3>4. CASE M!Connecting = {}
      <4>1. overlapped' = overlapped
        BY <2>3, <3>4 DEF M!Admit
      <4>2. Cardinality(sessions) \in Nat /\ Cardinality(overlapped) \in Nat
        BY OpenSets, FS_Subset, FS_CardinalityType
      <4>3. Cardinality((sessions \cup M!Connecting) \cup {c}) = Cardinality(sessions) + 1
        BY <3>2, <3>4, OpenSets, FS_AddElement
      <4>4. Cardinality(sessions) + 1 <= MaxSessions
        BY SessionsAreCounted, <2>3, <4>2 DEF SessionsSane
      <4>5. M!SessionsBounded'
        BY SessionsAreBounded, <3>3, <4>1, <4>2, <4>3, <4>4 DEF SessionsSane
      <4> QED  BY <3>3, <4>1, <4>5 DEF SessionsInv, OverlappedAreOpen
    <3>5. CASE M!Connecting # {}
      <4>1. overlapped' = overlapped \cup {c}
        BY <2>3, <3>5 DEF M!Admit
      <4>2. M!SessionsBounded'
        BY SessionsAreBounded, <3>1, <3>2, <3>3, <4>1, OpenSets, GrowBoth
        DEF SessionsInv, SessionsSane
      <4> QED  BY <3>3, <4>1, <4>2 DEF SessionsInv, OverlappedAreOpen
    <3> QED  BY <3>4, <3>5
  <2>4. CASE M!Initialized(c)
    <3>1. /\ c \in M!Connecting /\ c \notin sessions
          /\ M!Connecting' = M!Connecting \ {c}
      BY <2>4 DEF M!Initialized, M!Connecting, SessionsInv, M!TypeOK, SessionsAreOver
    <3>2. CASE sessions' = sessions \cup {c} /\ overlapped' = overlapped
      <4>1. (sessions \cup M!Connecting)' = sessions \cup M!Connecting
        BY <3>1, <3>2
      <4> QED  BY SessionsAreBounded, <3>2, <4>1 DEF SessionsInv, OverlappedAreOpen
    <3>3. CASE sessions' = sessions /\ overlapped' = overlapped \ {c}
      <4>1. (sessions \cup M!Connecting)' = (sessions \cup M!Connecting) \ {c}
        BY <3>1, <3>3
      <4>2. M!SessionsBounded'
        BY SessionsAreBounded, <3>1, <3>3, <4>1, OpenSets, ShrinkBoth
        DEF SessionsInv, SessionsSane
      <4> QED  BY <3>3, <4>1, <4>2 DEF SessionsInv, OverlappedAreOpen
    <3> QED  BY <2>4, <3>2, <3>3 DEF M!Initialized
  <2> QED  BY <2>1, <2>2, <2>3, <2>4
<1> QED  BY <1>0, <1>1, <1>2 DEF SessionsInv

\* closeIdleSessions, onsessionclosed and close.
LEMMA SessionCloses ==
    ASSUME SessionsSane, SessionsInv,
           (\E c, s \in Client : M!CloseIdle(c, s)) \/ (\E s \in Client : M!Delete(s)) \/ M!CloseAll
    PROVE  SessionsInv'
<1>0. AskedCanAnswer' /\ M!DispatchNeedsConsent'
  BY DEF SessionsInv, AskedCanAnswer, M!DispatchNeedsConsent, M!CloseIdle, M!Delete,
         M!CloseAll
<1>1. M!TypeOK' /\ SessionsAreOver'
  <2> USE DEF SessionsInv, M!TypeOK, SessionsAreOver
  <2>1. ASSUME NEW c \in Client, NEW s \in Client, M!CloseIdle(c, s)
        PROVE  M!TypeOK' /\ SessionsAreOver'
    <3>1. toClose' = [toClose EXCEPT ![c] = toClose[c] \ {s}]
      BY <2>1 DEF M!CloseIdle
    <3>2. /\ sessions' \subseteq sessions /\ overlapped' \subseteq overlapped
          /\ UNCHANGED <<clock, opening, lastSeen, elicits, call>>
      BY <2>1 DEF M!CloseIdle
    <3>3. \A d \in Client : toClose'[d] \subseteq toClose[d]
      BY <3>1
    <3> QED  BY <3>1, <3>2, <3>3
  <2>2. ASSUME NEW s \in Client, M!Delete(s)
        PROVE  M!TypeOK' /\ SessionsAreOver'
    BY <2>2 DEF M!Delete
  <2>3. CASE M!CloseAll
    BY <2>3 DEF M!CloseAll
  <2> QED  BY <2>1, <2>2, <2>3
<1>2. M!Connecting' = M!Connecting
  BY DEF M!CloseIdle, M!Delete, M!CloseAll, M!Connecting
<1>3. ASSUME NEW s \in Client, opening[s].at = "over",
             sessions' = sessions \ {s}, overlapped' = overlapped \ {s}
      PROVE  OverlappedAreOpen' /\ M!SessionsBounded'
  <2>1. s \notin M!Connecting
    BY <1>3 DEF M!Connecting
  <2>2. (sessions \cup M!Connecting)' = (sessions \cup M!Connecting) \ {s}
    BY <1>2, <1>3, <2>1
  <2>3. CASE s \in sessions
    <3>1. M!SessionsBounded'
      BY SessionsAreBounded, <1>3, <2>2, <2>3, OpenSets, ShrinkBoth
      DEF SessionsInv, SessionsSane
    <3> QED  BY <1>3, <2>2, <3>1 DEF SessionsInv, OverlappedAreOpen
  <2>4. CASE s \notin sessions
    <3>1. /\ (sessions \cup M!Connecting) \ {s} = sessions \cup M!Connecting
          /\ overlapped \ {s} = overlapped
      BY <2>1, <2>4 DEF SessionsInv, OverlappedAreOpen
    <3> QED  BY SessionsAreBounded, <1>3, <2>2, <3>1 DEF SessionsInv, OverlappedAreOpen
  <2> QED  BY <2>3, <2>4
<1>4. ASSUME NEW c \in Client, NEW s \in Client, M!CloseIdle(c, s)
      PROVE  OverlappedAreOpen' /\ M!SessionsBounded'
  <2>1. opening[s].at = "over"
    BY <1>4 DEF M!CloseIdle, SessionsInv, SessionsAreOver
  <2>2. CASE UNCHANGED <<sessions, overlapped>>
    BY SessionsAreBounded, <1>2, <2>2 DEF SessionsInv, OverlappedAreOpen
  <2> QED  BY <1>3, <1>4, <2>1, <2>2 DEF M!CloseIdle
<1>5. ASSUME NEW s \in Client, M!Delete(s)
      PROVE  OverlappedAreOpen' /\ M!SessionsBounded'
  <2>1. opening[s].at = "over"
    BY <1>5 DEF M!Delete, SessionsInv, SessionsAreOver
  <2> QED  BY <1>3, <1>5, <2>1 DEF M!Delete
<1>6. ASSUME M!CloseAll
      PROVE  OverlappedAreOpen' /\ M!SessionsBounded'
  <2>1. sessions' = {} /\ overlapped' = overlapped \cap M!Connecting
    BY <1>6 DEF M!CloseAll
  <2>2. (sessions \cup M!Connecting)' = M!Connecting
    BY <1>2, <2>1
  <2>3. Cardinality(M!Connecting) <= MaxSessions + Cardinality(overlapped \cap M!Connecting)
    <3>1. Cardinality(sessions \cup M!Connecting) <= MaxSessions + Cardinality(overlapped)
      BY SessionsAreBounded DEF SessionsInv
    <3>2. MaxSessions \in Nat
      BY DEF SessionsSane
    <3> QED  BY <3>1, <3>2, OpenSets, DropPart
  <2>4. OverlappedAreOpen'
    BY <2>1, <2>2 DEF OverlappedAreOpen
  <2>5. Cardinality((sessions \cup M!Connecting)') <= MaxSessions + Cardinality(overlapped')
    BY <2>1, <2>2, <2>3
  <2> QED  BY SessionsAreBounded, <2>4, <2>5
<1> QED  BY <1>0, <1>1, <1>4, <1>5, <1>6 DEF SessionsInv

\* The requests of a session, and time.
LEMMA SessionCalls ==
    ASSUME SessionsSane, SessionsInv,
           \/ \E k \in Call : \/ \E s \in Client : M!DispatchTask(k, s)
                              \/ \E a \in {"confirm", "unconfirmed", "decline"} : M!Answer(k, a)
                              \/ M!AskFails(k)
           \/ M!Tick
    PROVE  SessionsInv'
<1>1. UNCHANGED <<opening, toClose, sessions, elicits, overlapped>>
  BY DEF M!DispatchTask, M!Answer, M!AskFails, M!Tick
<1>2. SessionsAreOver' /\ OverlappedAreOpen' /\ M!SessionsBounded'
  BY SessionsAreBounded, <1>1
  DEF SessionsInv, SessionsAreOver, OverlappedAreOpen, M!Connecting
<1>3. M!TypeOK' /\ AskedCanAnswer' /\ M!DispatchNeedsConsent'
  <2> USE DEF SessionsSane, SessionsInv, M!TypeOK, AskedCanAnswer, M!DispatchNeedsConsent, M!SignOfLife
  <2>1. ASSUME NEW k \in Call, NEW s \in Client, M!DispatchTask(k, s)
        PROVE  M!TypeOK' /\ AskedCanAnswer' /\ M!DispatchNeedsConsent'
    BY <2>1 DEF M!DispatchTask
  <2>2. ASSUME NEW k \in Call, NEW a \in {"confirm", "unconfirmed", "decline"}, M!Answer(k, a)
        PROVE  M!TypeOK' /\ AskedCanAnswer' /\ M!DispatchNeedsConsent'
    BY <2>2 DEF M!Answer
  <2>3. ASSUME NEW k \in Call, M!AskFails(k)
        PROVE  M!TypeOK' /\ AskedCanAnswer' /\ M!DispatchNeedsConsent'
    BY <2>3 DEF M!AskFails
  <2>4. CASE M!Tick
    BY <2>4 DEF M!Tick
  <2> QED  BY <2>1, <2>2, <2>3, <2>4
<1> QED  BY <1>2, <1>3 DEF SessionsInv

LEMMA SessionsInvHolds ==
    ASSUME SessionsSane
    PROVE  M!Spec => []SessionsInv
<1>1. M!Init => SessionsInv
  BY SessionsInit
<1>2. SessionsInv /\ [M!Next]_(M!mcpVars) => SessionsInv'
  <2> SUFFICES ASSUME SessionsInv, [M!Next]_(M!mcpVars) PROVE SessionsInv'
    OBVIOUS
  <2>1. CASE M!Next
    BY <2>1, SessionOpens, SessionCloses, SessionCalls DEF M!Next
  <2>2. CASE UNCHANGED M!mcpVars
    BY SessionsAreBounded, <2>2
    DEF M!mcpVars, SessionsInv, M!TypeOK, SessionsAreOver, OverlappedAreOpen,
        AskedCanAnswer, M!DispatchNeedsConsent, M!Connecting
  <2> QED  BY <2>1, <2>2
<1> QED  BY <1>1, <1>2, PTL DEF M!Spec

\* The variables of StreamableMcpHandler and of the pending calls keep their types.
THEOREM SessionsTypeCorrect ==
    ASSUME SessionsSane
    PROVE  M!Spec => []M!TypeOK
<1>1. SessionsInv => M!TypeOK
  BY DEF SessionsInv
<1> QED  BY <1>1, SessionsInvHolds, PTL

\* For any limit and any number of clients that open at once, the sessions above the
\* limit are those openSession admitted beside another one, and a task is dispatched
\* only after its client confirmed it (requestDispatchConsent).
THEOREM SessionsStaySafe ==
    ASSUME SessionsSane
    PROVE  Spec => []SessionsAreSafe
<1>1. SessionsInv => SessionsAreSafe
  BY DEF SessionsAreSafe, SessionsInv, M!SessionsAreSafe
<1> QED  BY <1>1, SessionsInvHolds, GateRunsAlone, PTL


-----------------------------------------------------------------------------
(* SlidingWindowBreaker: the refinement of the counting breaker.           *)

\* A breaker its constructor accepts, and a clock.
BreakerSane == /\ Threshold \in Nat \ {0} /\ WindowMs \in Nat \ {0}
               /\ MaxTime \in Nat /\ MaxFailures \in Nat

\* The failures kept are numbered below the next one and not from the future.
BreakerInv ==
    /\ now \in Nat /\ recorded \in Nat /\ opened \in BOOLEAN
    /\ IsFiniteSet(failures)
    /\ failures \subseteq (0 .. recorded - 1) \X (0 .. now)

LEMMA FailuresAreCounted == \A S : B!Cardinality(S) = Cardinality(S)
BY DEF B!Cardinality, Cardinality

LEMMA BreakerStart ==
    ASSUME BreakerSane
    PROVE  B!Init => BreakerInv /\ B!WindowBreaker!Closed
<1> SUFFICES ASSUME B!Init PROVE BreakerInv /\ B!WindowBreaker!Closed
  OBVIOUS
<1>1. failures = {} /\ B!Pruned(failures) = {}
  BY DEF B!Init, B!Pruned
<1>2. B!InWindowCount = 0
  BY <1>1, FailuresAreCounted, FS_EmptySet DEF B!InWindowCount
<1> QED  BY <1>1, <1>2, FS_EmptySet DEF B!Init, BreakerInv, B!WindowBreaker!Closed

LEMMA BreakerKeeps ==
    ASSUME BreakerSane, BreakerInv, [B!Next]_(B!vars)
    PROVE  BreakerInv'
<1> USE DEF BreakerInv
<1>1. CASE B!RecordFailure
  <2>1. /\ failures' \subseteq failures \cup {<<recorded, now>>}
        /\ recorded' = recorded + 1 /\ now' = now
    BY <1>1 DEF B!RecordFailure, B!Pruned
  <2>2. IsFiniteSet(failures')
    BY <2>1, FS_AddElement, FS_Subset
  <2>3. opened' \in BOOLEAN
    BY <1>1 DEF B!RecordFailure
  <2> QED  BY <2>1, <2>2, <2>3
<1>2. CASE B!Refresh
  <2>1. failures' \subseteq failures /\ recorded' = recorded /\ now' = now
    BY <1>2 DEF B!Refresh, B!Pruned
  <2>2. IsFiniteSet(failures')
    BY <2>1, FS_Subset
  <2>3. opened' \in BOOLEAN
    BY <1>2 DEF B!Refresh
  <2> QED  BY <2>1, <2>2, <2>3
<1>3. CASE B!Tick
  BY <1>3 DEF B!Tick
<1>4. CASE UNCHANGED B!vars
  BY <1>4 DEF B!vars
<1> QED  BY <1>1, <1>2, <1>3, <1>4 DEF B!Next

\* Each step of the breaker is one of the window: a failure is one more of the count, a
\* call that prunes leaves it, and time takes the oldest away.
LEMMA BreakerStepsImplement ==
    ASSUME BreakerSane, BreakerInv, [B!Next]_(B!vars)
    PROVE  [B!WindowBreaker!WindowNext]_<<B!InWindowCount, opened>>
<1>0. /\ IsFiniteSet(B!Pruned(failures)) /\ B!Pruned(failures) \subseteq failures
      /\ B!InWindowCount = Cardinality(B!Pruned(failures)) /\ B!InWindowCount \in Nat
      /\ B!InWindowCount' = Cardinality(B!Pruned(failures)')
  BY FS_Subset, FS_CardinalityType, FailuresAreCounted
  DEF BreakerInv, B!Pruned, B!InWindowCount
<1>1. CASE B!RecordFailure
  <2>1. /\ failures' = B!Pruned(failures) \cup {<<recorded, now>>}
        /\ <<recorded, now>> \notin B!Pruned(failures)
    BY <1>1 DEF B!RecordFailure, B!Pruned, B!InWindow, BreakerInv, BreakerSane
  <2>2. B!Pruned(failures)' = failures'
    BY <1>1 DEF B!RecordFailure, B!Pruned, B!InWindow
  <2>3. B!InWindowCount' = B!InWindowCount + 1
    BY <1>0, <2>1, <2>2, FS_AddElement
  <2>4. opened' = (opened \/ B!InWindowCount' >= Threshold)
    BY <1>0, <1>1, <2>2, FailuresAreCounted DEF B!RecordFailure
  <2> QED  BY <2>3, <2>4 DEF B!WindowBreaker!WindowNext, B!WindowBreaker!RecordFailure
<1>2. CASE B!Refresh
  <2>1. failures' = B!Pruned(failures) /\ B!Pruned(failures)' = failures'
    BY <1>2 DEF B!Refresh, B!Pruned, B!InWindow
  <2>2. B!InWindowCount' = B!InWindowCount
    BY <1>0, <2>1
  <2>3. opened' = (opened /\ B!InWindowCount >= Threshold)
    BY <1>0, <1>2, <2>1, FailuresAreCounted DEF B!Refresh
  <2> QED
    BY <2>2, <2>3
    DEF B!WindowBreaker!WindowNext, B!WindowBreaker!Refresh, B!WindowBreaker!StillOpen
<1>3. CASE B!Tick
  <2>1. B!Pruned(failures)' \subseteq B!Pruned(failures)
    BY <1>3 DEF B!Tick, B!Pruned, B!InWindow, BreakerInv, BreakerSane
  <2>2. B!InWindowCount' \in Nat /\ B!InWindowCount' <= B!InWindowCount
    BY <1>0, <2>1, FS_Subset, FS_CardinalityType
  <2>3. opened' = opened
    BY <1>3 DEF B!Tick
  <2> QED  BY <1>0, <2>2, <2>3 DEF B!WindowBreaker!WindowNext, B!WindowBreaker!Expire
<1>4. CASE UNCHANGED B!vars
  BY <1>4 DEF B!vars, B!InWindowCount, B!Pruned, B!InWindow
<1> QED  BY <1>1, <1>2, <1>3, <1>4 DEF B!Next

\* The sliding window with its clock implements the counting breaker AgentActor is
\* written against: recordFailure, recordSuccess and isOpen, whatever time passes.
THEOREM BreakerRefines ==
    ASSUME BreakerSane
    PROVE  Spec => ImplementsWindow
<1>1. B!Init => BreakerInv /\ B!WindowBreaker!Closed
  BY BreakerStart
<1>2. BreakerInv /\ [B!Next]_(B!vars) => BreakerInv'
  BY BreakerKeeps
<1>3. BreakerInv /\ [B!Next]_(B!vars) =>
          [B!WindowBreaker!WindowNext]_<<B!InWindowCount, opened>>
  BY BreakerStepsImplement
<1> QED
  BY <1>1, <1>2, <1>3, GateRunsAlone, PTL
  DEF B!Spec, ImplementsWindow, B!ImplementsWindow, B!WindowBreaker!Window


-----------------------------------------------------------------------------
(* GatewayIngress: the limits.                                             *)

\* The constructor's arguments are numbers; the emergency stop has its two limiters.
IngressSane ==
    /\ MaxMoment \in Nat /\ MaxAsks \in Nat
    /\ \A l \in I!Names : /\ Limiter[l].max \in Nat /\ Limiter[l].window \in Nat
                          /\ Limiter[l].keys \in Nat
    /\ {"stop", "refused"} \subseteq I!Names

LEMMA HitsAreCounted == \A S : I!Cardinality(S) = Cardinality(S)
BY DEF I!Cardinality, Cardinality

\* What the Map remembers of this window was let in, and is within the limit; all that
\* was let in is remembered, unless the key was evicted.
HitsAreLetIn ==
    \A l \in I!Names, k \in I!Key : I!Since(l, hits[l][k]) \subseteq letIn[l][k]
HitsAreLimited ==
    \A l \in I!Names, k \in I!Key :
        Cardinality(I!Since(l, hits[l][k])) <= Limiter[l].max
LetInIsHit ==
    \A l \in I!Names, k \in I!Key :
        <<l, k>> \notin evicted => I!Since(l, letIn[l][k]) \subseteq hits[l][k]

IngressInv ==
    I!TypeOK /\ HitsAreLetIn /\ HitsAreLimited /\ LetInIsHit /\ I!StopBudgetIsItsHolders

LEMMA HitsAreFinite ==
    ASSUME IngressSane
    PROVE  \A S \in SUBSET I!Hit : IsFiniteSet(S) /\ Cardinality(S) \in Nat
<1>1. IsFiniteSet(1 .. MaxAsks) /\ IsFiniteSet(0 .. MaxMoment)
  BY FS_Interval DEF IngressSane
<1>2. IsFiniteSet(I!Hit)
  BY <1>1, FS_Product DEF I!Hit
<1> QED  BY <1>2, FS_Subset, FS_CardinalityType

LEMMA IngressStart ==
    ASSUME IngressSane
    PROVE  I!Init => IngressInv
<1> SUFFICES ASSUME I!Init PROVE IngressInv
  OBVIOUS
<1>1. /\ hits \in [I!Names -> [I!Key -> SUBSET I!Hit]] /\ letIn = hits
      /\ tracked \in [I!Names -> [I!Key -> 0 .. MaxAsks]]
  BY DEF I!Init, IngressSane
<1>2. \A l \in I!Names, k \in I!Key : hits[l][k] = {} /\ letIn[l][k] = {}
  BY DEF I!Init
<1>3. sweptAt \in [I!Names -> Int]
  BY DEF I!Init, IngressSane
<1>4. I!TypeOK
  BY <1>1, <1>2, <1>3 DEF I!Init, I!TypeOK, IngressSane
<1>5. \A l \in I!Names, k \in I!Key :
          I!Since(l, hits[l][k]) = {} /\ I!Since(l, letIn[l][k]) = {}
  BY <1>2 DEF I!Since
<1>6. Cardinality({}) = 0 /\ \A l \in I!Names : 0 <= Limiter[l].max
  BY FS_EmptySet DEF IngressSane
<1>7. HitsAreLetIn /\ HitsAreLimited /\ LetInIsHit
  BY <1>5, <1>6 DEF HitsAreLetIn, HitsAreLimited, LetInIsHit
<1>8. I!StopBudgetIsItsHolders
  BY DEF I!Init, I!StopBudgetIsItsHolders
<1> QED  BY <1>4, <1>7, <1>8 DEF IngressInv

\* isAllowed keeps the books of every key: the one it is asked for and the ones it
\* sweeps or evicts.
LEMMA AskKeeps ==
    ASSUME IngressSane, IngressInv, NEW l \in I!Names, NEW k \in I!Key, I!Ask(l, k)
    PROVE  /\ HitsAreLetIn' /\ HitsAreLimited' /\ LetInIsHit'
           /\ answer' \in {<<>>} \cup (I!Names \X I!Key \X {200, 202, 401, 429}) => I!TypeOK'
<1> DEFINE ok == I!Allows(l, k)
           keys == IF ok THEN I!Swept(l) \cup {k} ELSE I!Swept(l)
           order == IF ok THEN [tracked[l] EXCEPT ![k] = asks'] ELSE tracked[l]
           gone == I!Evicted(l, keys, order)
           new == IF ok THEN {<<asks', moment>>} ELSE {}
           after(x) == IF x \notin keys \ gone THEN {}
                       ELSE IF x = k THEN I!Kept(l, k) \cup new ELSE hits[l][x]
<1>1. /\ moment \in 0 .. MaxMoment /\ asks \in 0 .. MaxAsks
      /\ tracked \in [I!Names -> [I!Key -> 0 .. MaxAsks]]
      /\ hits \in [I!Names -> [I!Key -> SUBSET I!Hit]]
      /\ letIn \in [I!Names -> [I!Key -> SUBSET I!Hit]]
      /\ sweptAt \in [I!Names -> Int] /\ evicted \subseteq I!Names \X I!Key
      /\ \A m \in I!Names, x \in I!Key : tracked[m][x] = 0 => hits[m][x] = {}
      /\ MaxAsks \in Nat /\ MaxMoment \in Nat
  BY DEF IngressInv, I!TypeOK, IngressSane
<1>2. /\ asks' = asks + 1 /\ moment' = moment /\ asks' \in 1 .. MaxAsks
      /\ tracked' = [tracked EXCEPT ![l] =
             [x \in I!Key |-> IF x \in keys \ gone THEN order[x] ELSE 0]]
      /\ hits' = [hits EXCEPT ![l] = [x \in I!Key |-> after(x)]]
      /\ letIn' = [letIn EXCEPT ![l][k] = @ \cup new]
      /\ evicted' = evicted \cup ({l} \X gone)
  BY <1>1 DEF I!Ask
<1>3. sweptAt' \in [I!Names -> Int]
  <2>1. sweptAt' = [sweptAt EXCEPT ![l] =
            IF moment - sweptAt[l] < Limiter[l].window THEN sweptAt[l] ELSE moment]
    BY <1>1 DEF I!Ask
  <2> QED  BY <1>1, <2>1
<1>4. /\ keys \subseteq I!Key /\ gone \subseteq keys /\ new \subseteq I!Hit
      /\ order \in [I!Key -> 0 .. MaxAsks]
      /\ I!Kept(l, k) \subseteq I!Since(l, hits[l][k]) /\ I!Kept(l, k) \subseteq hits[l][k]
  BY <1>1, <1>2 DEF I!Swept, I!Evicted, I!Hit, I!Kept, I!Since
<1>5. \A x \in I!Key \ keys : I!Since(l, hits[l][x]) = {}
  BY <1>1 DEF I!Swept, I!Since, I!Cutoff
<1>6. I!Since(l, hits[l][k]) = I!Kept(l, k)
  BY <1>1 DEF I!Kept, I!Swept, I!Since, I!Cutoff
<1>7. IF ok THEN new = {<<asks', moment>>} /\ Cardinality(I!Kept(l, k)) < Limiter[l].max
      ELSE new = {}
  BY HitsAreCounted DEF I!Allows
<1> HIDE DEF ok, keys, order, gone, new
<1>8. \A x \in I!Key : after(x) \in SUBSET I!Hit
  BY <1>1, <1>4
<1>9. /\ hits' \in [I!Names -> [I!Key -> SUBSET I!Hit]]
      /\ \A x \in I!Key : hits'[l][x] = after(x)
      /\ \A m \in I!Names \ {l} : hits'[m] = hits[m]
  <2> HIDE DEF after
  <2> QED  BY <1>1, <1>2, <1>8
<1>10. /\ letIn' \in [I!Names -> [I!Key -> SUBSET I!Hit]]
       /\ letIn'[l][k] = letIn[l][k] \cup new
       /\ \A m \in I!Names, x \in I!Key : <<m, x>> # <<l, k>> => letIn'[m][x] = letIn[m][x]
  BY <1>1, <1>2, <1>4
<1> HIDE DEF after
<1>11. /\ tracked' \in [I!Names -> [I!Key -> 0 .. MaxAsks]]
       /\ \A x \in keys \ gone : tracked'[l][x] = order[x]
       /\ \A m \in I!Names \ {l} : tracked'[m] = tracked[m]
  BY <1>1, <1>2, <1>4
<1>12. evicted' \subseteq I!Names \X I!Key /\ evicted \subseteq evicted'
       /\ \A x \in gone : <<l, x>> \in evicted'
  BY <1>1, <1>2, <1>4
<1>13. ASSUME NEW m \in I!Names, NEW x \in I!Key
       PROVE  /\ I!Since(m, hits[m][x])' = I!Since(m, hits'[m][x])
              /\ I!Since(m, letIn[m][x])' = I!Since(m, letIn'[m][x])
  BY <1>2 DEF I!Since, I!Cutoff
<1>14. \A m \in I!Names, S \in SUBSET I!Hit, R \in SUBSET I!Hit :
           /\ I!Since(m, S \cup R) = I!Since(m, S) \cup I!Since(m, R)
           /\ I!Since(m, S) \subseteq S /\ I!Since(m, I!Since(m, S)) = I!Since(m, S)
  BY DEF I!Since
<1>15. I!Since(l, I!Kept(l, k)) = I!Kept(l, k)
  BY <1>1, <1>6, <1>14
<1>16. k \in keys \/ new = {}
  BY <1>7 DEF keys
<1>17. ASSUME NEW x \in I!Key
       PROVE  /\ I!Since(l, hits'[l][x]) \subseteq letIn'[l][x]
              /\ Cardinality(I!Since(l, hits'[l][x])) <= Limiter[l].max
              /\ <<l, x>> \notin evicted' => I!Since(l, letIn'[l][x]) \subseteq hits'[l][x]
  <2>0. /\ I!Since(l, hits[l][x]) \subseteq letIn[l][x]
        /\ Cardinality(I!Since(l, hits[l][x])) <= Limiter[l].max
        /\ <<l, x>> \notin evicted => I!Since(l, letIn[l][x]) \subseteq hits[l][x]
        /\ hits'[l][x] = after(x)
        /\ hits[l][x] \in SUBSET I!Hit /\ letIn[l][x] \in SUBSET I!Hit
    BY <1>1, <1>9 DEF IngressInv, HitsAreLetIn, HitsAreLimited, LetInIsHit
  <2>1. CASE x \notin keys \ gone
    <3>1. hits'[l][x] = {} /\ I!Since(l, hits'[l][x]) = {}
      BY <2>0, <2>1 DEF after, I!Since
    <3>2. Cardinality({}) <= Limiter[l].max
      BY FS_EmptySet DEF IngressSane
    <3>3. ASSUME <<l, x>> \notin evicted' PROVE I!Since(l, letIn'[l][x]) = {}
      <4>1. x \notin keys /\ <<l, x>> \notin evicted
        BY <1>12, <2>1, <3>3
      <4>2. letIn'[l][x] = letIn[l][x]
        BY <1>10, <1>16, <4>1
      <4>3. I!Since(l, letIn[l][x]) \subseteq I!Since(l, hits[l][x])
        BY <2>0, <4>1 DEF I!Since
      <4> QED  BY <1>5, <4>1, <4>2, <4>3
    <3> QED  BY <3>1, <3>2, <3>3
  <2>2. CASE x \in keys \ gone /\ x # k
    BY <1>10, <1>12, <2>0, <2>2 DEF after
  <2>3. CASE x \in keys \ gone /\ x = k
    <3>1. hits'[l][x] = I!Kept(l, k) \cup new /\ letIn'[l][x] = letIn[l][x] \cup new
      BY <1>10, <2>0, <2>3 DEF after
    <3>2. /\ I!Kept(l, k) \in SUBSET I!Hit /\ new \in SUBSET I!Hit
          /\ I!Since(l, new) \subseteq new
      BY <1>1, <1>4, <1>14 DEF I!Since
    <3>3. I!Since(l, hits'[l][x]) = I!Kept(l, k) \cup I!Since(l, new)
      BY <1>14, <1>15, <3>1, <3>2
    <3>4. I!Since(l, hits'[l][x]) \subseteq letIn'[l][x]
      BY <1>6, <2>0, <2>3, <3>1, <3>2, <3>3
    <3>5. Cardinality(I!Since(l, hits'[l][x])) <= Limiter[l].max
      <4>1. I!Since(l, hits'[l][x]) \subseteq I!Kept(l, k) \cup new
        BY <3>2, <3>3
      <4>2. IsFiniteSet(I!Kept(l, k)) /\ IsFiniteSet(I!Kept(l, k) \cup new)
        BY <3>2, HitsAreFinite
      <4>3. Cardinality(I!Since(l, hits'[l][x])) <= Cardinality(I!Kept(l, k) \cup new)
        BY <4>1, <4>2, FS_Subset
      <4>4. Cardinality(I!Kept(l, k) \cup new) <= Limiter[l].max
        <5>1. CASE ok
          <6>1. Cardinality(I!Kept(l, k) \cup new) \in
                    {Cardinality(I!Kept(l, k)), Cardinality(I!Kept(l, k)) + 1}
            BY <1>7, <4>2, <5>1, FS_AddElement
          <6>2. /\ Cardinality(I!Kept(l, k)) \in Nat /\ Limiter[l].max \in Nat
                /\ Cardinality(I!Kept(l, k)) < Limiter[l].max
            BY <1>7, <4>2, <5>1, FS_CardinalityType DEF IngressSane
          <6> QED  BY <6>1, <6>2
        <5>2. CASE ~ok
          BY <1>6, <1>7, <2>0, <2>3, <5>2
        <5> QED  BY <5>1, <5>2
      <4>5. /\ Cardinality(I!Since(l, hits'[l][x])) \in Nat
            /\ Cardinality(I!Kept(l, k) \cup new) \in Nat /\ Limiter[l].max \in Nat
        BY <3>2, <4>1, HitsAreFinite DEF IngressSane
      <4> QED  BY <4>3, <4>4, <4>5
    <3>6. ASSUME <<l, x>> \notin evicted' PROVE I!Since(l, letIn'[l][x]) \subseteq hits'[l][x]
      <4>1. I!Since(l, letIn'[l][x]) \subseteq I!Since(l, letIn[l][x]) \cup new
        BY <3>1 DEF I!Since
      <4>2. I!Since(l, letIn[l][x]) \subseteq I!Since(l, hits[l][x])
        BY <1>12, <2>0, <3>6 DEF I!Since
      <4> QED  BY <1>6, <2>3, <3>1, <4>1, <4>2
    <3> QED  BY <3>4, <3>5, <3>6
  <2> QED  BY <2>1, <2>2, <2>3
<1>18. ASSUME NEW m \in I!Names, NEW x \in I!Key
       PROVE  /\ I!Since(m, hits'[m][x]) \subseteq letIn'[m][x]
              /\ Cardinality(I!Since(m, hits'[m][x])) <= Limiter[m].max
              /\ <<m, x>> \notin evicted' => I!Since(m, letIn'[m][x]) \subseteq hits'[m][x]
  <2>1. CASE m = l
    BY <1>17, <2>1
  <2>2. CASE m # l
    <3>1. hits'[m][x] = hits[m][x] /\ letIn'[m][x] = letIn[m][x]
      BY <1>9, <1>10, <2>2
    <3> QED  BY <1>12, <3>1 DEF IngressInv, HitsAreLetIn, HitsAreLimited, LetInIsHit
  <2> QED  BY <2>1, <2>2
<1>19. \A m \in I!Names, x \in I!Key : tracked'[m][x] = 0 => hits'[m][x] = {}
  <2> SUFFICES ASSUME NEW m \in I!Names, NEW x \in I!Key, tracked'[m][x] = 0
               PROVE  hits'[m][x] = {}
    OBVIOUS
  <2>1. CASE m # l
    BY <1>1, <1>9, <1>11, <2>1
  <2>2. CASE m = l /\ x \notin keys \ gone
    BY <1>9, <2>2 DEF after
  <2>3. CASE m = l /\ x \in keys \ gone
    <3>1. order[x] # 0
      BY <1>1, <1>2, <2>3 DEF order, keys, I!Swept
    <3> QED  BY <1>11, <2>3, <3>1
  <2> QED  BY <2>1, <2>2, <2>3
<1>20. HitsAreLetIn' /\ HitsAreLimited' /\ LetInIsHit'
  <2>1. HitsAreLetIn'
    BY <1>13, <1>18 DEF HitsAreLetIn
  <2>2. HitsAreLimited'
    BY <1>13, <1>18 DEF HitsAreLimited
  <2>3. LetInIsHit'
    BY <1>13, <1>18 DEF LetInIsHit
  <2> QED  BY <2>1, <2>2, <2>3
<1>21. answer' \in {<<>>} \cup (I!Names \X I!Key \X {200, 202, 401, 429}) => I!TypeOK'
  BY <1>1, <1>2, <1>3, <1>9, <1>10, <1>11, <1>12, <1>19 DEF I!TypeOK, I!Hit
<1> QED  BY <1>20, <1>21

LEMMA IngressStep ==
    ASSUME IngressSane, IngressInv, [I!Next]_(I!ingressVars)
    PROVE  IngressInv'
<1>0. Address \subseteq I!Key /\ Holder \subseteq I!Key
  BY DEF I!Key
<1>1. ASSUME NEW l \in I!Names \ {"stop", "refused"}, NEW a \in Address, I!Visit(l, a)
      PROVE  IngressInv'
  <2>1. I!Ask(l, a) /\ answer' \in I!Names \X I!Key \X {200, 202, 401, 429} /\ answer'[1] = l
    BY <1>0, <1>1 DEF I!Visit, I!Answered
  <2>2. I!StopBudgetIsItsHolders'
    BY <1>1, <2>1 DEF I!StopBudgetIsItsHolders
  <2> QED  BY <1>0, <2>1, <2>2, AskKeeps DEF IngressInv
<1>2. ASSUME NEW token \in Holder \cup {"none"}, NEW a \in Address, I!StopAll(token, a)
      PROVE  IngressInv'
  <2>0. {"stop", "refused"} \subseteq I!Names
    BY DEF IngressSane
  <2>1. CASE token \in Holder /\ Secured
    <3>1. /\ I!Ask("stop", token)
          /\ answer' = <<"stop", token, IF I!Allows("stop", token) THEN 202 ELSE 429>>
      BY <1>2, <2>1 DEF I!StopAll, I!Answered
    <3>2. answer' \in I!Names \X I!Key \X {200, 202, 401, 429}
      BY <1>0, <2>0, <2>1, <3>1
    <3>3. HitsAreLetIn' /\ HitsAreLimited' /\ LetInIsHit' /\ I!TypeOK'
      BY <1>0, <2>0, <2>1, <3>1, <3>2, AskKeeps
    <3>4. ASSUME NEW h \in Holder, answer' = <<"stop", h, 429>>
          PROVE  Cardinality(I!Since("stop", letIn["stop"][h])') >= Limiter["stop"].max
      <4>1. h = token /\ ~I!Allows("stop", h)
        BY <3>1, <3>4
      <4>2. moment' = moment /\ letIn'["stop"][h] = letIn["stop"][h]
        <5>1. moment' = moment /\ letIn' = [letIn EXCEPT !["stop"][h] = @ \cup {}]
          BY <3>1, <4>1 DEF I!Ask
        <5>2. letIn \in [I!Names -> [I!Key -> SUBSET I!Hit]]
          BY DEF IngressInv, I!TypeOK
        <5> QED  BY <1>0, <2>0, <5>1, <5>2
      <4>3. I!Since("stop", letIn["stop"][h])' = I!Since("stop", letIn["stop"][h])
        BY <4>2 DEF I!Since, I!Cutoff
      <4>4. I!Kept("stop", h) \subseteq I!Since("stop", letIn["stop"][h])
        <5>1. I!Since("stop", hits["stop"][h]) \subseteq letIn["stop"][h]
          BY <1>0, <2>0 DEF IngressInv, HitsAreLetIn
        <5> QED  BY <5>1 DEF I!Kept, I!Since
      <4>5. /\ I!Since("stop", letIn["stop"][h]) \in SUBSET I!Hit
            /\ I!Kept("stop", h) \in SUBSET I!Hit
        <5>1. letIn["stop"][h] \in SUBSET I!Hit
          BY <1>0, <2>0 DEF IngressInv, I!TypeOK
        <5> QED  BY <4>4, <5>1 DEF I!Since
      <4>6. Cardinality(I!Kept("stop", h)) <= Cardinality(I!Since("stop", letIn["stop"][h]))
        BY <4>4, <4>5, HitsAreFinite, FS_Subset
      <4>7. ~(Cardinality(I!Kept("stop", h)) < Limiter["stop"].max)
        BY <4>1, HitsAreCounted DEF I!Allows
      <4>8. /\ Cardinality(I!Since("stop", letIn["stop"][h])) \in Nat
            /\ Cardinality(I!Kept("stop", h)) \in Nat /\ Limiter["stop"].max \in Nat
        BY <2>0, <4>5, HitsAreFinite DEF IngressSane
      <4> QED  BY <4>3, <4>6, <4>7, <4>8
    <3>5. I!StopBudgetIsItsHolders'
      BY <3>4, HitsAreCounted DEF I!StopBudgetIsItsHolders
    <3> QED  BY <3>3, <3>5 DEF IngressInv
  <2>2. CASE ~(token \in Holder /\ Secured)
    <3>1. /\ I!Ask("refused", a) /\ answer'[1] = "refused"
          /\ answer' \in I!Names \X I!Key \X {200, 202, 401, 429}
      BY <1>0, <1>2, <2>0, <2>2 DEF I!StopAll, I!Answered
    <3>2. I!StopBudgetIsItsHolders'
      BY <3>1 DEF I!StopBudgetIsItsHolders
    <3> QED  BY <1>0, <2>0, <3>1, <3>2, AskKeeps DEF IngressInv
  <2> QED  BY <2>1, <2>2
<1>3. CASE I!Tick
  <2>1. /\ moment \in 0 .. MaxMoment /\ moment' = moment + 1 /\ moment' \in 0 .. MaxMoment
        /\ hits \in [I!Names -> [I!Key -> SUBSET I!Hit]]
        /\ letIn \in [I!Names -> [I!Key -> SUBSET I!Hit]]
        /\ hits' = hits /\ evicted' = evicted /\ answer' = <<>>
    BY <1>3 DEF I!Tick, IngressInv, I!TypeOK, IngressSane
  <2>2. ASSUME NEW l \in I!Names, NEW k \in I!Key
        PROVE  /\ I!Since(l, hits[l][k])' \subseteq I!Since(l, hits[l][k])
               /\ letIn'[l][k] = I!Since(l, letIn[l][k])'
               /\ I!Since(l, hits[l][k])' \subseteq letIn'[l][k]
               /\ I!Since(l, letIn[l][k])' \subseteq I!Since(l, letIn[l][k])
               /\ letIn'[l][k] \subseteq letIn[l][k]
    <3> DEFINE inWindow(h) == h[2] >= moment' - Limiter[l].window
    <3>1. letIn'[l][k] = {h \in letIn[l][k] : inWindow(h)}
      BY <1>3 DEF I!Tick
    <3>2. \A h \in I!Hit : inWindow(h) => h[2] >= I!Cutoff(l)
      BY <2>1 DEF I!Hit, I!Cutoff, IngressSane
    <3>3. /\ I!Since(l, hits[l][k])' = {h \in hits[l][k] : inWindow(h)}
          /\ I!Since(l, letIn[l][k])' = {h \in letIn'[l][k] : inWindow(h)}
      BY <2>1 DEF I!Since, I!Cutoff
    <3>4. I!Since(l, hits[l][k]) \subseteq letIn[l][k]
      BY DEF IngressInv, HitsAreLetIn
    <3>5. hits[l][k] \subseteq I!Hit /\ letIn[l][k] \subseteq I!Hit
      BY <2>1
    <3> HIDE DEF inWindow
    <3> QED  BY <3>1, <3>2, <3>3, <3>4, <3>5 DEF I!Since
  <2>3. I!TypeOK'
    <3>1. letIn' \in [I!Names -> [I!Key -> SUBSET I!Hit]]
      <4>1. letIn' = [l \in I!Names |-> [k \in I!Key |-> letIn'[l][k]]]
        BY <1>3 DEF I!Tick
      <4> QED  BY <2>1, <2>2, <4>1
    <3> QED  BY <1>3, <2>1, <3>1 DEF I!Tick, I!TypeOK, IngressInv, I!Hit
  <2>4. HitsAreLetIn'
    BY <2>2 DEF HitsAreLetIn
  <2>5. HitsAreLimited'
    <3> SUFFICES ASSUME NEW l \in I!Names, NEW k \in I!Key
                 PROVE  Cardinality(I!Since(l, hits[l][k])') <= Limiter[l].max
      BY DEF HitsAreLimited
    <3>1. /\ I!Since(l, hits[l][k]) \in SUBSET I!Hit
          /\ I!Since(l, hits[l][k])' \subseteq I!Since(l, hits[l][k])
      BY <2>1, <2>2 DEF I!Since
    <3>2. Cardinality(I!Since(l, hits[l][k])') <= Cardinality(I!Since(l, hits[l][k]))
      BY <3>1, HitsAreFinite, FS_Subset
    <3>3. /\ Cardinality(I!Since(l, hits[l][k])') \in Nat /\ Limiter[l].max \in Nat
          /\ Cardinality(I!Since(l, hits[l][k])) \in Nat
      BY <3>1, HitsAreFinite DEF IngressSane
    <3> QED  BY <3>2, <3>3 DEF IngressInv, HitsAreLimited
  <2>6. LetInIsHit'
    <3> SUFFICES ASSUME NEW l \in I!Names, NEW k \in I!Key, <<l, k>> \notin evicted
                 PROVE  I!Since(l, letIn[l][k])' \subseteq hits[l][k]
      BY <2>1 DEF LetInIsHit
    <3> QED  BY <2>2 DEF IngressInv, LetInIsHit
  <2>7. I!StopBudgetIsItsHolders'
    BY <2>1 DEF I!StopBudgetIsItsHolders
  <2> QED  BY <2>3, <2>4, <2>5, <2>6, <2>7 DEF IngressInv
<1>4. CASE UNCHANGED I!ingressVars
  BY <1>4
  DEF I!ingressVars, IngressInv, I!TypeOK, HitsAreLetIn, HitsAreLimited, LetInIsHit,
              I!StopBudgetIsItsHolders, I!Since, I!Cutoff
<1>5. ASSUME NEW l \in I!Names, NEW a \in Address, I!Visit(l, a)
      PROVE  l \notin {"stop", "refused"}
  BY <1>5 DEF I!Visit
<1> QED  BY <1>1, <1>2, <1>3, <1>4, <1>5 DEF I!Next

LEMMA IngressInvHolds ==
    ASSUME IngressSane
    PROVE  I!Spec => []IngressInv
BY IngressStart, IngressStep, PTL DEF I!Spec

\* The variables of the limiters keep their types, and a key not in the Map has no hits.
THEOREM IngressTypeCorrect ==
    ASSUME IngressSane
    PROVE  I!Spec => []I!TypeOK
<1>1. IngressInv => I!TypeOK
  BY DEF IngressInv
<1> QED  BY <1>1, IngressInvHolds, PTL

\* For any limits, keys and traffic: a limiter counts all it let in of a key it keeps,
\* and refuses the holder of a token only for commands of its own (rateLimiter).
THEOREM LimitsStayOwn ==
    ASSUME IngressSane
    PROVE  Spec => []LimitsAreOwn
<1>1. IngressInv => LimitsAreOwn
  <2> SUFFICES ASSUME IngressInv PROVE LimitsAreOwn
    OBVIOUS
  <2>1. ASSUME NEW l \in I!Names, NEW k \in I!Key, <<l, k>> \notin evicted
        PROVE  /\ I!Since(l, hits[l][k]) = I!Since(l, letIn[l][k])
               /\ Cardinality(I!Since(l, letIn[l][k])) <= Limiter[l].max
    <3>1. I!Since(l, hits[l][k]) \subseteq letIn[l][k]
      BY DEF IngressInv, HitsAreLetIn
    <3>2. I!Since(l, letIn[l][k]) \subseteq hits[l][k]
      BY <2>1 DEF IngressInv, LetInIsHit
    <3>3. I!Since(l, hits[l][k]) = I!Since(l, letIn[l][k])
      BY <3>1, <3>2 DEF I!Since
    <3> QED  BY <3>3 DEF IngressInv, HitsAreLimited
  <2> QED
    BY <2>1, HitsAreCounted
    DEF LimitsAreOwn, IngressInv, I!LimitsAreOwn, I!LimiterForgetsNothing
<1> QED  BY <1>1, IngressInvHolds, GateRunsAlone, PTL

=============================================================================
