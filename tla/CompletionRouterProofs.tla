------------------------- MODULE CompletionRouterProofs -------------------------
(* What holds of the router for any calls, tasks, signals and results: the       *)
(* variables keep their types and waitAll never returns a stop as if it were a   *)
(* set of failures; and, as long as no task id is waited for twice with a signal *)
(* on one of the calls, every pending wait can still be settled.                 *)
EXTENDS CompletionRouter, TLAPS

\* The entry of a task id is a call on that task which still waits.
EntriesWait ==
    \A t \in Tasks : waiter[t] # Nobody =>
        TaskOf[waiter[t]] = t /\ status[waiter[t]] = "waiting"

\* A wait is aborted by its own signal.
AbortedBySignal == \A w \in Waits : status[w] = "aborted" => SignalOf[w] \in aborted

\* What waitAll returned does not change any more.
ReturnedIsSettled ==
    fanIn = "returned" => \A w \in FanIn : Settled(w) /\ status[w] # "aborted"

IInv == TypeOK /\ EntriesWait /\ AbortedBySignal /\ ReturnedIsSettled

-----------------------------------------------------------------------------
(* The two ways in which several variables change together.                *)

\* The calls of one turn wait for different tasks.
LEMMA TurnsAreDistinct ==
    ASSUME NEW calls \in Turns
    PROVE  /\ calls \subseteq Waits
           /\ \A v, w \in calls : TaskOf[v] = TaskOf[w] => v = w
BY RouterAssumption DEF Turns

\* What wait() leaves in the entries: those that were there, and the new calls.
LEMMA EntriesAfterWait ==
    ASSUME IInv, NEW calls \in Turns, Wait(calls)
    PROVE  /\ \A t \in Tasks : waiter[t] # Nobody => waiter'[t] = waiter[t]
           /\ \A t \in Tasks : waiter'[t] # waiter[t] =>
                 /\ waiter'[t] \in calls /\ TaskOf[waiter'[t]] = t
                 /\ status'[waiter'[t]] = "waiting"
           /\ \A w \in calls : status'[w] = "waiting" => waiter'[TaskOf[w]] = w
           /\ \A w \in Waits \ calls : status'[w] = status[w]
           /\ \A w \in calls : /\ status[w] = "idle"
                               /\ status'[w] \in {"waiting", "duplicate", "aborted"}
                               /\ status'[w] = "aborted" => SignalOf[w] \in aborted
           /\ status' \in [Waits -> Statuses]
<1> DEFINE taken(w)   == waiter[TaskOf[w]] # Nobody
           stopped(w) == SignalOf[w] \in aborted
           made       == {w \in calls : ~taken(w) /\ ~stopped(w)}
           Pick(t)    == CHOOSE w \in made : TaskOf[w] = t
<1>1. /\ calls \subseteq Waits
      /\ \A v, w \in calls : TaskOf[v] = TaskOf[w] => v = w
  BY TurnsAreDistinct
<1>2. \A w \in calls : TaskOf[w] \in Tasks
  BY <1>1, RouterAssumption
<1>3. status' = [w \in Waits |-> IF w \notin calls THEN status[w]
                                 ELSE IF taken(w)   THEN "duplicate"
                                 ELSE IF stopped(w) THEN "aborted" ELSE "waiting"]
  BY DEF Wait
<1>4. waiter' = [t \in Tasks |-> IF \E w \in made : TaskOf[w] = t THEN Pick(t)
                                                                  ELSE waiter[t]]
  BY DEF Wait
<1>5. \A w \in calls : status[w] = "idle"
  BY DEF Wait
<1>6. \A t \in Tasks : (\E w \in made : TaskOf[w] = t) => Pick(t) \in made /\ TaskOf[Pick(t)] = t
  OBVIOUS
<1>7. \A w \in made : waiter'[TaskOf[w]] = w
  BY <1>1, <1>2, <1>4, <1>6
<1>8. \A w \in calls : status'[w] = "waiting" <=> w \in made
  BY <1>1, <1>3
<1>9. \A t \in Tasks : waiter[t] # Nobody => waiter'[t] = waiter[t]
  BY <1>4
<1>10. \A t \in Tasks : waiter'[t] # waiter[t] =>
          waiter'[t] \in made /\ TaskOf[waiter'[t]] = t
  BY <1>4, <1>6
<1>11. status' \in [Waits -> Statuses]
  BY <1>3 DEF IInv, TypeOK, Statuses, Rejections
<1> HIDE DEF made, Pick
<1>12. made \subseteq calls
  BY DEF made
<1>13. \A w \in calls : /\ status'[w] \in {"waiting", "duplicate", "aborted"}
                        /\ status'[w] = "aborted" => SignalOf[w] \in aborted
  BY <1>1, <1>3
<1>14. \A w \in Waits \ calls : status'[w] = status[w]
  BY <1>3
<1> QED
  BY <1>5, <1>7, <1>8, <1>9, <1>10, <1>11, <1>12, <1>13, <1>14

\* Settling calls that wait: who else waited still does.
LEMMA AfterSettle ==
    ASSUME IInv, NEW calls, calls \subseteq Waiting, NEW outcome \in Statuses,
           outcome \notin {"idle", "waiting", "aborted"}, Settle(calls, outcome)
    PROVE  /\ status' \in [Waits -> Statuses]
           /\ waiter' \in [Tasks -> Waits \cup {Nobody}]
           /\ EntriesWait'
           /\ \A w \in Waits : w \notin calls => status'[w] = status[w]
           /\ \A w \in calls : status'[w] = outcome
           /\ \A t \in Tasks : waiter[t] \notin calls => waiter'[t] = waiter[t]
<1>1. calls \subseteq Waits
  BY DEF Waiting
<1>2. \A w \in Waits : status'[w] = IF w \in calls THEN outcome ELSE status[w]
  BY DEF Settle
<1>3. \A t \in Tasks : waiter'[t] = IF waiter[t] \in calls THEN Nobody ELSE waiter[t]
  BY DEF Settle
<1>4. status' \in [Waits -> Statuses] /\ waiter' \in [Tasks -> Waits \cup {Nobody}]
  BY DEF Settle, IInv, TypeOK
<1>5. EntriesWait'
  <2> SUFFICES ASSUME NEW t \in Tasks, waiter'[t] # Nobody
               PROVE  TaskOf[waiter'[t]] = t /\ status'[waiter'[t]] = "waiting"
    BY DEF EntriesWait
  <2>1. waiter'[t] = waiter[t] /\ waiter[t] \notin calls /\ waiter[t] \in Waits
    BY <1>3, <1>4
  <2> QED  BY <1>2, <2>1 DEF IInv, EntriesWait
<1> QED  BY <1>1, <1>2, <1>3, <1>4, <1>5

\* ... and what is returned stays returned.
LEMMA SettleKeeps ==
    ASSUME IInv, NEW calls, calls \subseteq Waiting, NEW outcome \in Statuses,
           outcome \notin {"idle", "waiting", "aborted"}, Settle(calls, outcome),
           UNCHANGED <<aborted, fanIn>>
    PROVE  AbortedBySignal' /\ ReturnedIsSettled'
<1>0. /\ \A w \in Waits : w \notin calls => status'[w] = status[w]
      /\ \A w \in calls : status'[w] = outcome
  BY AfterSettle
<1>1. \A w \in Waits : status'[w] = "aborted" => status[w] = "aborted"
  BY <1>0
<1>2. AbortedBySignal'
  BY <1>1 DEF IInv, AbortedBySignal
<1>3. ASSUME fanIn' = "returned", NEW w \in FanIn
      PROVE  Settled(w)' /\ status'[w] # "aborted"
  <2>1. w \in Waits /\ Settled(w) /\ status[w] # "aborted"
    BY <1>3, RouterAssumption DEF IInv, ReturnedIsSettled
  <2>2. w \notin calls
    BY <2>1 DEF Waiting, Settled
  <2> QED  BY <1>0, <2>1, <2>2 DEF Settled
<1> QED  BY <1>2, <1>3 DEF ReturnedIsSettled

\* An entry is a call that waits.
LEMMA EntryIsWaiting ==
    ASSUME IInv, NEW t \in Tasks, waiter[t] # Nobody
    PROVE  waiter[t] \in Waiting
BY DEF IInv, TypeOK, EntriesWait, Waiting

-----------------------------------------------------------------------------
(* What holds whatever the calls: IInv.                                    *)

LEMMA IInvInit ==
    Init => IInv
BY RouterAssumption
DEF Init, IInv, TypeOK, EntriesWait, AbortedBySignal, ReturnedIsSettled, Statuses, Queues

\* wait() and waitAll().
LEMMA IInvWait ==
    ASSUME IInv, NEW calls \in Turns, Wait(calls)
    PROVE  IInv'
<1>1. calls \subseteq Waits
  BY TurnsAreDistinct
<1>2. /\ \A t \in Tasks : waiter[t] # Nobody => waiter'[t] = waiter[t]
      /\ \A t \in Tasks : waiter'[t] # waiter[t] =>
            /\ waiter'[t] \in calls /\ TaskOf[waiter'[t]] = t
            /\ status'[waiter'[t]] = "waiting"
      /\ \A w \in Waits \ calls : status'[w] = status[w]
      /\ \A w \in calls : /\ status[w] = "idle"
                          /\ status'[w] = "aborted" => SignalOf[w] \in aborted
      /\ status' \in [Waits -> Statuses]
  BY EntriesAfterWait
<1>3. aborted' = aborted /\ fanIn' = fanIn /\ queue' = queue /\ published' = published
  BY DEF Wait
<1>4. TypeOK'
  <2>1. waiter' \in [Tasks -> Waits \cup {Nobody}]
    <3>1. waiter' = [t \in Tasks |-> waiter'[t]]
      BY DEF Wait
    <3>2. \A t \in Tasks : waiter'[t] \in Waits \cup {Nobody}
      BY <1>1, <1>2 DEF IInv, TypeOK
    <3> QED  BY <3>1, <3>2
  <2>2. listeners' \subseteq Waits
    BY <1>1 DEF Wait, IInv, TypeOK
  <2>3. subscription' \in [Queues -> {"none", "pending", "active"}]
    BY DEF Wait, IInv, TypeOK
  <2> QED  BY <1>2, <1>3, <2>1, <2>2, <2>3 DEF IInv, TypeOK
<1>5. EntriesWait'
  <2> SUFFICES ASSUME NEW t \in Tasks, waiter'[t] # Nobody
               PROVE  TaskOf[waiter'[t]] = t /\ status'[waiter'[t]] = "waiting"
    BY DEF EntriesWait
  <2>1. CASE waiter'[t] = waiter[t]
    <3>1. waiter[t] \in Waits /\ TaskOf[waiter[t]] = t /\ status[waiter[t]] = "waiting"
      BY <2>1 DEF IInv, TypeOK, EntriesWait
    <3>2. waiter[t] \notin calls
      BY <1>2, <3>1
    <3> QED  BY <1>2, <2>1, <3>1, <3>2
  <2> QED  BY <1>2, <2>1
<1>6. AbortedBySignal'
  BY <1>2, <1>3 DEF IInv, AbortedBySignal
<1>7. ReturnedIsSettled'
  <2> SUFFICES ASSUME fanIn = "returned", NEW w \in FanIn
               PROVE  Settled(w)' /\ status'[w] # "aborted"
    BY <1>3 DEF ReturnedIsSettled
  <2>1. w \in Waits /\ Settled(w) /\ status[w] # "aborted"
    BY RouterAssumption DEF IInv, ReturnedIsSettled
  <2> QED  BY <1>2, <2>1 DEF Settled
<1> QED  BY <1>4, <1>5, <1>6, <1>7 DEF IInv

\* Results, timers and failed subscribes: each settles calls that wait.
LEMMA IInvSettle ==
    ASSUME IInv, NEW calls, calls \subseteq Waiting, NEW outcome \in Statuses,
           outcome \notin {"idle", "waiting", "aborted"}, Settle(calls, outcome),
           UNCHANGED <<listeners, aborted, published, fanIn>>,
           subscription' \in [Queues -> {"none", "pending", "active"}],
           queue' \subseteq queue
    PROVE  IInv'
<1>1. AbortedBySignal' /\ ReturnedIsSettled'
  BY SettleKeeps
<1>2. /\ status' \in [Waits -> Statuses]
      /\ waiter' \in [Tasks -> Waits \cup {Nobody}]
      /\ EntriesWait'
  BY AfterSettle
<1> QED  BY <1>1, <1>2 DEF IInv, TypeOK

LEMMA IInvSettling ==
    ASSUME IInv,
           \/ \E w \in Waits : TimerFires(w)
           \/ \E q \in Queues : SubscribeFails(q)
           \/ \E t \in Tasks, o \in Outcomes : ResultDelivered(t, o)
    PROVE  IInv'
<1>1. ASSUME NEW w \in Waits, TimerFires(w)
      PROVE  IInv'
  <2>1. {w} \subseteq Waiting
    BY <1>1, EntryIsWaiting, RouterAssumption DEF TimerFires
  <2> QED
    BY <1>1, <2>1, IInvSettle DEF TimerFires, Statuses, Rejections, IInv, TypeOK
<1>2. ASSUME NEW q \in Queues, SubscribeFails(q)
      PROVE  IInv'
  <2>1. subscription' \in [Queues -> {"none", "pending", "active"}]
    BY <1>2 DEF SubscribeFails, IInv, TypeOK
  <2> DEFINE calls == Waiting \cap {waiter[t] : t \in Tasks}
  <2>2. calls \subseteq Waiting /\ Settle(calls, "subscribe_failed")
    BY <1>2 DEF SubscribeFails
  <2>3. UNCHANGED <<listeners, aborted, queue, published, fanIn>>
    BY <1>2 DEF SubscribeFails
  <2> HIDE DEF calls
  <2> QED
    BY <2>1, <2>2, <2>3, IInvSettle DEF Statuses, Rejections
<1>3. ASSUME NEW t \in Tasks, NEW o \in Outcomes, ResultDelivered(t, o)
      PROVE  IInv'
  <2>1. {waiter[t]} \ {Nobody} \subseteq Waiting
    BY EntryIsWaiting
  <2>2. o \in Statuses /\ o \notin {"idle", "waiting", "aborted"}
    BY DEF Outcomes, Statuses
  <2>3. /\ Settle({waiter[t]} \ {Nobody}, o) /\ queue' \subseteq queue
        /\ UNCHANGED <<listeners, aborted, subscription, published, fanIn>>
    BY <1>3 DEF ResultDelivered
  <2>4. subscription' \in [Queues -> {"none", "pending", "active"}]
    BY <2>3 DEF IInv, TypeOK
  <2> QED
    BY <2>1, <2>2, <2>3, <2>4, IInvSettle
<1> QED  BY <1>1, <1>2, <1>3

\* A signal rejects calls that are the entry of their task.
LEMMA IInvAbort ==
    ASSUME IInv, NEW s \in Signals, Abort(s)
    PROVE  IInv'
<1> DEFINE Heard(t)  == {w \in listeners : SignalOf[w] = s /\ TaskOf[w] = t}
           cleared   == {t \in Tasks : waiter[t] # Nobody /\ Heard(t) # {}}
           rejected  == {w \in Waits : waiter[TaskOf[w]] = w /\ Heard(TaskOf[w]) = {w}}
<1>1. /\ aborted' = aborted \cup {s} /\ listeners' \subseteq listeners
      /\ status' = [w \in Waits |-> IF w \in rejected THEN "aborted" ELSE status[w]]
      /\ waiter' = [t \in Tasks |-> IF t \in cleared THEN Nobody ELSE waiter[t]]
      /\ UNCHANGED <<subscription, queue, published, fanIn>>
  BY DEF Abort
<1>2. \A w \in rejected : /\ SignalOf[w] = s /\ TaskOf[w] \in Tasks
                          /\ w = waiter[TaskOf[w]] /\ TaskOf[w] \in cleared
  BY RouterAssumption
<1>3. \A w \in rejected : status[w] = "waiting"
  BY <1>2, RouterAssumption DEF IInv, EntriesWait
<1> HIDE DEF rejected, cleared
<1>4. TypeOK'
  BY <1>1 DEF IInv, TypeOK, Statuses, Rejections
<1>5. EntriesWait'
  <2> SUFFICES ASSUME NEW t \in Tasks, waiter'[t] # Nobody
               PROVE  TaskOf[waiter'[t]] = t /\ status'[waiter'[t]] = "waiting"
    BY DEF EntriesWait
  <2>1. t \notin cleared /\ waiter'[t] = waiter[t]
    BY <1>1
  <2>2. waiter[t] \in Waits /\ TaskOf[waiter[t]] = t /\ status[waiter[t]] = "waiting"
    BY <2>1 DEF IInv, TypeOK, EntriesWait
  <2>3. waiter[t] \notin rejected
    BY <1>2, <2>1, <2>2
  <2> QED  BY <1>1, <2>1, <2>2, <2>3
<1>6. AbortedBySignal'
  BY <1>1, <1>2 DEF IInv, AbortedBySignal
<1>7. ReturnedIsSettled'
  <2> SUFFICES ASSUME fanIn = "returned", NEW w \in FanIn
               PROVE  Settled(w)' /\ status'[w] # "aborted"
    BY <1>1 DEF ReturnedIsSettled
  <2>1. w \in Waits /\ Settled(w) /\ status[w] # "aborted"
    BY RouterAssumption DEF IInv, ReturnedIsSettled
  <2>2. w \notin rejected
    BY <1>3, <2>1 DEF Settled
  <2> QED  BY <1>1, <2>1, <2>2 DEF Settled
<1> QED  BY <1>4, <1>5, <1>6, <1>7 DEF IInv

LEMMA IInvStep ==
    IInv /\ [Next]_vars => IInv'
<1> SUFFICES ASSUME IInv, [Next]_vars PROVE IInv'
  OBVIOUS
<1> USE DEF IInv, TypeOK, EntriesWait, AbortedBySignal, ReturnedIsSettled, Settled
<1>1. ASSUME NEW q \in Queues, SubscribeSucceeds(q) PROVE IInv'
  BY <1>1 DEF SubscribeSucceeds
<1>2. ASSUME NEW t \in Tasks, NEW o \in Outcomes, ResultPublished(t, o) PROVE IInv'
  BY <1>2, RouterAssumption DEF ResultPublished
<1>3. ASSUME NEW t \in Tasks, NEW o \in Outcomes, ResultTaken(t, o) PROVE IInv'
  BY <1>3 DEF ResultTaken
<1>4. CASE WaitAllAnswers
  BY <1>4, RouterAssumption DEF WaitAllAnswers
<1>5. CASE UNCHANGED vars
  BY <1>5 DEF vars
<1> HIDE DEF IInv, TypeOK, EntriesWait, AbortedBySignal, ReturnedIsSettled, Settled
<1> QED
  BY <1>1, <1>2, <1>3, <1>4, <1>5, IInvWait, IInvSettling, IInvAbort DEF Next

LEMMA IInvAlways ==
    Spec => []IInv
BY IInvInit, IInvStep, PTL DEF Spec

-----------------------------------------------------------------------------
(* What holds when a task id that a call with a signal waits for is no other *)
(* call's.                                                                 *)

SignalledOnce == \A v, w \in Waits : TaskOf[v] = TaskOf[w] /\ SignalOf[v] \in Signals => v = w

LEMMA ServedAfterWait ==
    ASSUME IInv, WaitersAreServed, NEW calls \in Turns, Wait(calls)
    PROVE  WaitersAreServed'
<1>1. calls \subseteq Waits
  BY TurnsAreDistinct
<1>2. /\ \A t \in Tasks : waiter[t] # Nobody => waiter'[t] = waiter[t]
      /\ \A w \in calls : status'[w] = "waiting" => waiter'[TaskOf[w]] = w
      /\ \A w \in Waits \ calls : status'[w] = status[w]
  BY EntriesAfterWait
<1>3. NoWaiterOrphaned'
  <2> SUFFICES ASSUME NEW w \in Waits, status'[w] = "waiting"
               PROVE  waiter'[TaskOf[w]] = w
    BY DEF NoWaiterOrphaned, Waiting
  <2>1. CASE w \in calls
    BY <1>2, <2>1
  <2>2. CASE w \notin calls
    <3>1. waiter[TaskOf[w]] = w /\ w # Nobody /\ TaskOf[w] \in Tasks
      BY <1>2, <2>2, RouterAssumption DEF WaitersAreServed, NoWaiterOrphaned, Waiting
    <3> QED  BY <1>2, <3>1
  <2> QED  BY <2>1, <2>2
<1>4. WaitersAreListenedFor'
  <2> SUFFICES ASSUME NEW w \in Waits, status'[w] = "waiting", NEW q \in Queues
               PROVE  subscription'[q] # "none"
    BY DEF WaitersAreListenedFor, Waiting
  <2> DEFINE made == {c \in calls : /\ ~(waiter[TaskOf[c]] # Nobody)
                                    /\ ~(SignalOf[c] \in aborted)}
  <2>1. subscription'[q] = IF subscription[q] = "none" /\ made # {} THEN "pending"
                                                                    ELSE subscription[q]
    BY DEF Wait
  <2>2. CASE w \in calls
    <3>1. w \in made
      BY <2>2 DEF Wait
    <3> QED  BY <2>1, <3>1
  <2>3. CASE w \notin calls
    <3>1. subscription[q] # "none"
      BY <1>2, <2>3 DEF WaitersAreServed, WaitersAreListenedFor, Waiting
    <3> QED  BY <2>1, <3>1
  <2> QED  BY <2>2, <2>3
<1> QED  BY <1>3, <1>4 DEF WaitersAreServed

\* A call that still waits after a settling waited before, with the same entry.
LEMMA ServedAfterSettle ==
    ASSUME IInv, WaitersAreServed, NEW calls, calls \subseteq Waiting,
           NEW outcome \in Statuses, outcome \notin {"idle", "waiting", "aborted"},
           Settle(calls, outcome), subscription' = subscription
    PROVE  WaitersAreServed'
<1>1. /\ \A w \in Waits : w \notin calls => status'[w] = status[w]
      /\ \A w \in calls : status'[w] = outcome
      /\ \A t \in Tasks : waiter[t] \notin calls => waiter'[t] = waiter[t]
  BY AfterSettle
<1>2. \A w \in Waiting' : w \in Waiting /\ w \notin calls
  BY <1>1 DEF Waiting
<1>3. \A w \in Waiting : waiter[TaskOf[w]] = w /\ TaskOf[w] \in Tasks
  BY RouterAssumption DEF WaitersAreServed, NoWaiterOrphaned, Waiting
<1>4. NoWaiterOrphaned'
  BY <1>1, <1>2, <1>3 DEF NoWaiterOrphaned
<1>5. WaitersAreListenedFor'
  BY <1>2 DEF WaitersAreServed, WaitersAreListenedFor
<1> QED  BY <1>4, <1>5 DEF WaitersAreServed

\* A failed subscribe leaves nobody waiting.
LEMMA ServedAfterFailure ==
    ASSUME IInv, WaitersAreServed, NEW q \in Queues, SubscribeFails(q)
    PROVE  WaitersAreServed'
<1> DEFINE calls == Waiting \cap {waiter[t] : t \in Tasks}
<1>1. Waiting \subseteq calls
  BY RouterAssumption DEF WaitersAreServed, NoWaiterOrphaned, Waiting
<1>2. status' = [w \in Waits |-> IF w \in calls THEN "subscribe_failed" ELSE status[w]]
  BY DEF SubscribeFails, Settle
<1> HIDE DEF calls
<1>3. Waiting' = {}
  BY <1>1, <1>2 DEF Waiting
<1> QED
  BY <1>3 DEF WaitersAreServed, NoWaiterOrphaned, WaitersAreListenedFor

\* The entry a signal clears is the one call on its task.
LEMMA ServedAfterAbort ==
    ASSUME SignalledOnce, IInv, WaitersAreServed, NEW s \in Signals, Abort(s)
    PROVE  WaitersAreServed'
<1> DEFINE Heard(t)  == {w \in listeners : SignalOf[w] = s /\ TaskOf[w] = t}
           cleared   == {t \in Tasks : waiter[t] # Nobody /\ Heard(t) # {}}
           rejected  == {w \in Waits : waiter[TaskOf[w]] = w /\ Heard(TaskOf[w]) = {w}}
<1>1. /\ status' = [w \in Waits |-> IF w \in rejected THEN "aborted" ELSE status[w]]
      /\ waiter' = [t \in Tasks |-> IF t \in cleared THEN Nobody ELSE waiter[t]]
      /\ subscription' = subscription
  BY DEF Abort
<1>2. ASSUME NEW w \in Waits, waiter[TaskOf[w]] = w, TaskOf[w] \in cleared
      PROVE  w \in rejected
  <2>1. \A v \in Heard(TaskOf[w]) : v \in Waits /\ v = w
    BY DEF SignalledOnce, IInv, TypeOK
  <2>2. Heard(TaskOf[w]) # {}
    BY <1>2
  <2>3. Heard(TaskOf[w]) = {w}
    BY <2>1, <2>2
  <2> QED  BY <1>2, <2>3
<1> HIDE DEF rejected, cleared
<1>3. \A w \in Waiting' : w \in Waiting /\ w \notin rejected
  BY <1>1 DEF Waiting
<1>4. \A w \in Waiting : w \in Waits /\ waiter[TaskOf[w]] = w /\ TaskOf[w] \in Tasks
  BY RouterAssumption DEF WaitersAreServed, NoWaiterOrphaned, Waiting
<1>5. NoWaiterOrphaned'
  BY <1>1, <1>2, <1>3, <1>4 DEF NoWaiterOrphaned
<1>6. WaitersAreListenedFor'
  BY <1>1, <1>3 DEF WaitersAreServed, WaitersAreListenedFor
<1> QED  BY <1>5, <1>6 DEF WaitersAreServed

LEMMA ServedStep ==
    ASSUME SignalledOnce
    PROVE  IInv /\ WaitersAreServed /\ [Next]_vars => WaitersAreServed'
<1> SUFFICES ASSUME IInv, WaitersAreServed, [Next]_vars PROVE WaitersAreServed'
  OBVIOUS
<1>1. ASSUME NEW w \in Waits, TimerFires(w) PROVE WaitersAreServed'
  <2>1. {w} \subseteq Waiting
    BY <1>1, EntryIsWaiting, RouterAssumption DEF TimerFires
  <2> QED  BY <1>1, <2>1, ServedAfterSettle DEF TimerFires, Statuses, Rejections
<1>2. ASSUME NEW t \in Tasks, NEW o \in Outcomes, ResultDelivered(t, o)
      PROVE  WaitersAreServed'
  <2>1. {waiter[t]} \ {Nobody} \subseteq Waiting
    BY EntryIsWaiting
  <2>2. o \in Statuses /\ o \notin {"idle", "waiting", "aborted"}
    BY DEF Outcomes, Statuses
  <2>3. Settle({waiter[t]} \ {Nobody}, o) /\ subscription' = subscription
    BY <1>2 DEF ResultDelivered
  <2> QED  BY <2>1, <2>2, <2>3, ServedAfterSettle
<1> USE DEF WaitersAreServed, NoWaiterOrphaned, WaitersAreListenedFor, Waiting
<1>3. ASSUME NEW q \in Queues, SubscribeSucceeds(q) PROVE WaitersAreServed'
  BY <1>3 DEF SubscribeSucceeds, IInv, TypeOK
<1>4. ASSUME NEW t \in Tasks, NEW o \in Outcomes, ResultPublished(t, o) \/ ResultTaken(t, o)
      PROVE  WaitersAreServed'
  BY <1>4 DEF ResultPublished, ResultTaken
<1>5. CASE WaitAllAnswers
  BY <1>5 DEF WaitAllAnswers
<1>6. CASE UNCHANGED vars
  BY <1>6 DEF vars
<1> HIDE DEF WaitersAreServed, NoWaiterOrphaned, WaitersAreListenedFor, Waiting
<1> QED
  BY <1>1, <1>2, <1>3, <1>4, <1>5, <1>6, ServedAfterWait, ServedAfterFailure,
     ServedAfterAbort DEF Next

-----------------------------------------------------------------------------
\* The maps of CompletionRouter and the promises of its callers keep their types.
THEOREM RouterTypeCorrect ==
    Spec => []TypeOK
<1>1. IInv => TypeOK
  BY DEF IInv
<1> QED  BY <1>1, IInvAlways, PTL

\* waitAll() does not return when its signal stopped one of its calls, whatever
\* calls share its tasks and in whatever order results, timers and signals come.
THEOREM FanInStopped ==
    Spec => []FanInEndsWithItsStop
<1>1. IInv => FanInEndsWithItsStop
  BY DEF IInv, ReturnedIsSettled, FanInEndsWithItsStop
<1> QED  BY <1>1, IInvAlways, PTL

\* A pending wait() has its entry in the router and both queues are read, if no
\* task id waited for under a signal is waited for by another call.  Without that
\* assumption abort() clears an entry its listener does not own.
THEOREM PendingIsServed ==
    ASSUME SignalledOnce
    PROVE  Spec => []WaitersAreServed
<1>1. Init => WaitersAreServed
  BY DEF Init, WaitersAreServed, NoWaiterOrphaned, WaitersAreListenedFor, Waiting
<1>2. IInv /\ WaitersAreServed /\ [Next]_vars => WaitersAreServed'
  BY ServedStep
<1> QED  BY <1>1, <1>2, IInvAlways, PTL DEF Spec
=============================================================================
