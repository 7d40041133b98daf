-------------------------- MODULE ControlChannelProofs --------------------------
(* Type correctness and the safety properties of ControlChannel, for any nodes, *)
(* tasks and stop moments and any number of lost connections and crashes.       *)
EXTENDS ControlChannel, TLAPS

-----------------------------------------------------------------------------
\* What a node knows of the stops, given the saved one and the commands.
Informed(state, key, commands) ==
    /\ \A k \in state.running : SentAt[k] > state.stoppedAt
    /\ state.running # {} => state.phase = "up"
    /\ state.atStart <= key /\ state.atReady <= key
    /\ state.phase = "up" => state.atStart <= state.stoppedAt
    /\ state.catchUps = 0 => state.atReady <= state.stoppedAt
    /\ state.steady /\ state.phase \in {"reading", "up"} => state.link = "subscribed"
    /\ state.steady /\ state.phase = "up" =>
          \A t \in Moments : commands[t] = "published" =>
              t <= state.stoppedAt \/ t \in state.inbox

\* A catchUp loop was begun by the start or by a reconnect after a lost connection.
LoopsCounted(state, lost) ==
    /\ state.catchUps <= lost + 1
    /\ state.phase # "off" /\ state.link = "down" => state.catchUps <= lost

Inv ==
    /\ TypeOK
    /\ PublishedIsSaved
    /\ \A n \in Nodes : /\ Informed(node[n], saved, command)
                        /\ LoopsCounted(node[n], drops)

StopMoments == Moments \cup {NeverStopped}

LEMMA StopMomentsAreInts == StopMoments \subseteq Int
BY ControlAssumption DEF StopMoments, NeverStopped

-----------------------------------------------------------------------------
\* A stop reaches the actor: stoppedAt grows to it and covers what goes on running.
LEMMA StoppedNode ==
    ASSUME NEW s \in NodeStates, NEW t \in StopMoments
    PROVE  LET r == Stopped(s, t) IN
           /\ r \in NodeStates
           /\ r.phase = s.phase /\ r.link = s.link /\ r.inbox = s.inbox
           /\ r.catchUps = s.catchUps /\ r.steady = s.steady
           /\ r.atStart = s.atStart /\ r.atReady = s.atReady
           /\ r.stoppedAt >= t /\ r.stoppedAt >= s.stoppedAt
           /\ r.running \subseteq s.running
           /\ (\A k \in s.running : SentAt[k] > s.stoppedAt)
                 => \A k \in r.running : SentAt[k] > r.stoppedAt
<1>1. CASE t > s.stoppedAt
  <2> DEFINE left == {k \in s.running : SentAt[k] > t}
             r == [s EXCEPT !.stoppedAt = t, !.running = left]
  <2>1. Stopped(s, t) = r
    BY <1>1 DEF Stopped
  <2>2. r \in NodeStates
    BY DEF NodeStates, StopMoments
  <2>3. /\ r.phase = s.phase /\ r.link = s.link /\ r.inbox = s.inbox
        /\ r.catchUps = s.catchUps /\ r.steady = s.steady
        /\ r.atStart = s.atStart /\ r.atReady = s.atReady
        /\ r.stoppedAt = t /\ r.running = left
    BY DEF NodeStates
  <2>4. t \in Int /\ s.stoppedAt \in Int
    BY StopMomentsAreInts DEF NodeStates, StopMoments
  <2> HIDE DEF r
  <2> QED
    BY <1>1, <2>1, <2>2, <2>3, <2>4
<1>2. CASE ~(t > s.stoppedAt)
  BY <1>2, StopMomentsAreInts DEF Stopped, NodeStates, StopMoments
<1> QED
  BY <1>1, <1>2

\* A step of one node that leaves Redis and the commands alone.
LEMMA OneNodeMoves ==
    ASSUME Inv, NEW n \in Nodes, NEW s \in NodeStates, Becomes(n, s),
           UNCHANGED <<command, saved>>,
           drops' \in 0 .. MaxDrops, crashes' \in 0 .. MaxCrashes,
           drops' >= drops, ended' \subseteq Tasks,
           Informed(s, saved, command), LoopsCounted(s, drops')
    PROVE  Inv'
<1>1. TypeOK'
  BY DEF Inv, TypeOK, Becomes
<1>2. PublishedIsSaved'
  BY DEF Inv, PublishedIsSaved
<1>3. ASSUME NEW m \in Nodes PROVE Informed(node'[m], saved', command')
  BY <1>3 DEF Inv, TypeOK, Becomes
<1>4. ASSUME NEW m \in Nodes PROVE LoopsCounted(node'[m], drops')
  <2>1. CASE m = n
    BY <2>1 DEF Inv, TypeOK, Becomes
  <2>2. CASE m # n
    <3>1. node'[m] = node[m] /\ node[m] \in NodeStates
      BY <2>2 DEF Inv, TypeOK, Becomes
    <3> QED
      BY <3>1, ControlAssumption DEF Inv, TypeOK, LoopsCounted, NodeStates
  <2> QED
    BY <2>1, <2>2
<1> QED
  BY <1>1, <1>2, <1>3, <1>4 DEF Inv

\* A stop that reaches one node, known to be saved or sent by a running command.
LEMMA StopArrives ==
    ASSUME Inv, NEW n \in Nodes, NEW s \in NodeStates, NEW t \in StopMoments,
           OnStop(n, s, t),
           UNCHANGED <<command, saved, drops, crashes>>,
           s.running = node[n].running,
           LoopsCounted(s, drops),
           Informed(Stopped(s, t), saved, command)
    PROVE  Inv'
<1>1. Stopped(s, t) \in NodeStates /\ Stopped(s, t).phase = s.phase
      /\ Stopped(s, t).link = s.link /\ Stopped(s, t).catchUps = s.catchUps
  BY StoppedNode
<1>2. LoopsCounted(Stopped(s, t), drops)
  BY <1>1 DEF LoopsCounted
<1>3. ended' \subseteq Tasks
  BY DEF OnStop, Inv, TypeOK, NodeStates
<1> QED
  BY <1>1, <1>2, <1>3, OneNodeMoves, ControlAssumption DEF OnStop, Inv, TypeOK

-----------------------------------------------------------------------------
LEMMA OffIsInformed ==
    ASSUME Inv
    PROVE  /\ Off \in NodeStates
           /\ Informed(Off, saved, command)
           /\ LoopsCounted(Off, drops)
<1>1. Off \in NodeStates
  BY ControlAssumption DEF Off, NodeStates, NeverStopped
<1>2. saved \in Int /\ saved >= NeverStopped /\ drops \in Nat
  BY ControlAssumption DEF Inv, TypeOK, NeverStopped
<1> QED
  BY <1>1, <1>2 DEF Off, Informed, LoopsCounted, NeverStopped

LEMMA InvInit == Init => Inv
<1> SUFFICES ASSUME Init PROVE Inv
  OBVIOUS
<1>1. Off \in NodeStates
  BY ControlAssumption DEF Off, NodeStates, NeverStopped
<1>2. TypeOK
  BY <1>1, ControlAssumption DEF Init, TypeOK
<1>3. PublishedIsSaved
  BY DEF Init, PublishedIsSaved
<1>4. Informed(Off, saved, command) /\ LoopsCounted(Off, drops)
  BY DEF Init, Off, Informed, LoopsCounted, NeverStopped
<1> QED
  BY <1>2, <1>3, <1>4 DEF Inv, Init

-----------------------------------------------------------------------------
\* The key only grows, and no node loses what it knows by that.
LEMMA GatewayKeepsInv ==
    ASSUME Inv, NEW t \in Moments, GatewayStep(t)
    PROVE  Inv'
<1> USE ControlAssumption
<1>0. /\ saved \in Int /\ saved >= NeverStopped /\ t \in Int /\ Moments \subseteq Int
      /\ \A n \in Nodes : node[n] \in NodeStates
  BY DEF Inv, TypeOK, NeverStopped
<1>1. CASE Issue(t)
  <2>1. /\ TypeOK' /\ PublishedIsSaved'
    BY <1>1 DEF Issue, CommandMoves, Inv, TypeOK, PublishedIsSaved
  <2>2. ASSUME NEW n \in Nodes PROVE Informed(node[n], saved, command')
    BY <1>1, <2>2 DEF Issue, CommandMoves, Inv, TypeOK, Informed
  <2> QED
    BY <1>1, <2>1, <2>2 DEF Issue, Inv
<1>2. CASE Save(t) \/ SaveFails(t)
  <2>1. /\ saved' \in StopMoments /\ saved' >= saved
        /\ command'[t] = "publishing" => saved' >= t
        /\ command'[t] # "published"
    BY <1>0, <1>2 DEF Save, SaveFails, CommandMoves, Later, Inv, TypeOK, StopMoments
  <2>2. /\ command' \in [Moments ->
                 {"none", "saving", "publishing", "published", "failed"}]
        /\ \A u \in Moments \ {t} : command'[u] = command[u]
    BY <1>2 DEF Save, SaveFails, CommandMoves, Inv, TypeOK
  <2>3. UNCHANGED <<node, ended, drops, crashes>>
    BY <1>2 DEF Save, SaveFails
  <2>4. TypeOK'
    BY <2>1, <2>2, <2>3 DEF Inv, TypeOK, StopMoments
  <2>5. PublishedIsSaved'
    BY <1>0, <2>1, <2>2, StopMomentsAreInts DEF Inv, PublishedIsSaved
  <2>6. ASSUME NEW n \in Nodes PROVE Informed(node[n], saved', command')
    <3>1. /\ node[n].atStart \in Int /\ node[n].atReady \in Int /\ saved' \in Int
      BY <1>0, <2>1, StopMomentsAreInts DEF NodeStates, StopMoments
    <3> QED
      BY <1>0, <2>1, <2>2, <3>1 DEF Inv, Informed
  <2> QED
    BY <2>3, <2>4, <2>5, <2>6 DEF Inv
<1>3. CASE Publish(t) \/ PublishFails(t)
  <2>1. /\ UNCHANGED <<saved, ended, drops, crashes>>
        /\ Broadcast(t) \/ (UNCHANGED node /\ command'[t] = "failed")
        /\ command[t] = "publishing"
    BY <1>3 DEF Publish, PublishFails, CommandMoves, Inv, TypeOK
  <2>2. /\ command' \in [Moments ->
                 {"none", "saving", "publishing", "published", "failed"}]
        /\ \A u \in Moments \ {t} : command'[u] = command[u]
    BY <1>3 DEF Publish, PublishFails, CommandMoves, Inv, TypeOK
  <2>3. PublishedIsSaved'
    BY <2>1, <2>2 DEF Inv, PublishedIsSaved
  <2>4. ASSUME NEW n \in Nodes
        PROVE  /\ node'[n] \in NodeStates
               /\ Informed(node'[n], saved, command')
               /\ LoopsCounted(node'[n], drops)
    <3>1. CASE Broadcast(t) /\ node[n].link = "subscribed"
      <4>1. node'[n] = [node[n] EXCEPT !.inbox = @ \cup {t}]
        BY <3>1 DEF Broadcast
      <4>2. node'[n] \in NodeStates /\ t \in node'[n].inbox
        BY <1>0, <4>1 DEF NodeStates
      <4> QED
        BY <1>0, <2>2, <4>1, <4>2 DEF Inv, Informed, LoopsCounted, NodeStates
    <3>2. CASE Broadcast(t) /\ node[n].link # "subscribed"
      <4>1. node'[n] = node[n]
        BY <3>2 DEF Broadcast
      <4> QED
        BY <1>0, <2>2, <3>2, <4>1 DEF Inv, Informed
    <3>3. CASE UNCHANGED node /\ command'[t] = "failed"
      BY <1>0, <2>2, <3>3 DEF Inv, Informed
    <3> QED
      BY <2>1, <3>1, <3>2, <3>3
  <2>5. node' \in [Nodes -> NodeStates]
    <3>1. node' = [n \in Nodes |-> node'[n]]
      BY <2>1 DEF Broadcast, Inv, TypeOK
    <3> QED
      BY <2>4, <3>1
  <2>6. TypeOK'
    BY <2>1, <2>2, <2>5 DEF Inv, TypeOK
  <2> QED
    BY <2>1, <2>3, <2>4, <2>6 DEF Inv
<1> QED
  BY <1>1, <1>2, <1>3 DEF GatewayStep

-----------------------------------------------------------------------------
\* Reading the key tells a node all that was published, and what it must know.
LEMMA SavedStopArrives ==
    ASSUME Inv, NEW n \in Nodes, NEW s \in NodeStates, OnStop(n, s, saved),
           UNCHANGED <<command, saved, drops, crashes>>,
           s.running = node[n].running, s.running # {} => s.phase = "up",
           s.steady = node[n].steady, s.link = node[n].link,
           s.stoppedAt = node[n].stoppedAt,
           s.atStart = node[n].atStart, s.atReady = node[n].atReady,
           s.steady /\ s.phase \in {"reading", "up"} => s.link = "subscribed",
           LoopsCounted(s, drops)
    PROVE  Inv'
<1> DEFINE r == Stopped(s, saved)
<1>1. saved \in StopMoments /\ saved \in Int /\ node[n] \in NodeStates
  BY StopMomentsAreInts DEF Inv, TypeOK, StopMoments
<1>2. /\ r \in NodeStates
      /\ r.phase = s.phase /\ r.link = s.link /\ r.inbox = s.inbox
      /\ r.catchUps = s.catchUps /\ r.steady = s.steady
      /\ r.atStart = s.atStart /\ r.atReady = s.atReady
      /\ r.stoppedAt >= saved
      /\ r.running \subseteq s.running
      /\ (\A k \in s.running : SentAt[k] > s.stoppedAt)
            => \A k \in r.running : SentAt[k] > r.stoppedAt
  BY <1>1, StoppedNode
<1> HIDE DEF r
<1>3. r.stoppedAt \in Int /\ r.atStart \in Int /\ r.atReady \in Int
  BY <1>2, StopMomentsAreInts DEF NodeStates, StopMoments
<1>4. Informed(node[n], saved, command)
  BY DEF Inv
<1>5. \A t \in Moments : command[t] = "published" => t <= r.stoppedAt
  BY <1>1, <1>2, <1>3, ControlAssumption DEF Inv, PublishedIsSaved
<1>6. Informed(r, saved, command)
  BY <1>1, <1>2, <1>3, <1>4, <1>5 DEF Informed
<1> QED
  BY <1>1, <1>6, StopArrives DEF r

\* A stop message that reaches a node leaves the inbox for its stoppedAt.
LEMMA ReceiveKeepsInv ==
    ASSUME Inv, NEW n \in Nodes, NEW t \in Moments, Receive(n, t)
    PROVE  Inv'
<1> DEFINE s == [node[n] EXCEPT !.inbox = @ \ {t}]
           r == Stopped(s, t)
<1>1. node[n] \in NodeStates /\ t \in StopMoments
  BY DEF Inv, TypeOK, StopMoments
<1>2. /\ s \in NodeStates
      /\ s.phase = node[n].phase /\ s.link = node[n].link
      /\ s.inbox = node[n].inbox \ {t} /\ s.catchUps = node[n].catchUps
      /\ s.stoppedAt = node[n].stoppedAt /\ s.running = node[n].running
      /\ s.atStart = node[n].atStart /\ s.atReady = node[n].atReady
      /\ s.steady = node[n].steady
  BY <1>1 DEF NodeStates
<1>3. OnStop(n, s, t) /\ UNCHANGED <<command, saved, drops, crashes>>
  BY DEF Receive
<1> HIDE DEF s
<1>4. /\ r \in NodeStates
      /\ r.phase = s.phase /\ r.link = s.link /\ r.inbox = s.inbox
      /\ r.catchUps = s.catchUps /\ r.steady = s.steady
      /\ r.atStart = s.atStart /\ r.atReady = s.atReady
      /\ r.stoppedAt >= t /\ r.stoppedAt >= s.stoppedAt
      /\ r.running \subseteq s.running
      /\ (\A k \in s.running : SentAt[k] > s.stoppedAt)
            => \A k \in r.running : SentAt[k] > r.stoppedAt
  BY <1>1, <1>2, StoppedNode
<1> HIDE DEF r
<1>5. /\ r.stoppedAt \in Int /\ r.atStart \in Int /\ r.atReady \in Int
      /\ s.stoppedAt \in Int
  BY <1>2, <1>4, StopMomentsAreInts DEF NodeStates, StopMoments
<1>6. Informed(node[n], saved, command) /\ LoopsCounted(s, drops)
  BY <1>2 DEF Inv, LoopsCounted
<1>7. \A u \in Moments : u \in Int
  BY ControlAssumption
<1>8. Informed(r, saved, command)
  BY <1>2, <1>4, <1>5, <1>6, <1>7 DEF Informed
<1> QED
  BY <1>1, <1>2, <1>3, <1>6, <1>8, StopArrives DEF r

LEMMA NodeKeepsInv ==
    ASSUME Inv, NEW n \in Nodes, NodeStep(n)
    PROVE  Inv'
<1> USE ControlAssumption
<1>0. /\ node[n] \in NodeStates /\ saved \in Int /\ saved \in StopMoments
      /\ saved >= NeverStopped /\ drops \in 0 .. MaxDrops
      /\ crashes \in 0 .. MaxCrashes /\ ended \subseteq Tasks
      /\ Informed(node[n], saved, command) /\ LoopsCounted(node[n], drops)
      /\ node[n].catchUps \in Nat
  BY DEF Inv, TypeOK, NeverStopped, StopMoments, NodeStates
<1>1. CASE Boot(n)
  <2> DEFINE s == [Off EXCEPT !.phase = "subscribing", !.link = "joining",
                      !.catchUps = 1, !.atStart = saved, !.atReady = saved]
  <2>1. /\ Off \in NodeStates
        /\ Off.running = {} /\ Off.steady = TRUE /\ Off.stoppedAt = NeverStopped
        /\ 1 \in 0 .. MaxDrops + 1 /\ saved \in Moments \cup {NeverStopped}
    BY <1>0, OffIsInformed DEF Off, StopMoments
  <2>2. /\ s \in NodeStates
        /\ s.phase = "subscribing" /\ s.link = "joining" /\ s.catchUps = 1
        /\ s.running = {} /\ s.steady = TRUE
        /\ s.atStart = saved /\ s.atReady = saved
    BY <2>1 DEF NodeStates
  <2>3. Becomes(n, s) /\ UNCHANGED <<command, saved, ended, drops, crashes>>
    BY <1>1 DEF Boot
  <2> HIDE DEF s
  <2>4. Informed(s, saved, command) /\ LoopsCounted(s, drops)
    BY <1>0, <2>2 DEF Informed, LoopsCounted
  <2> QED
    BY <1>0, <2>2, <2>3, <2>4, OneNodeMoves
<1>2. CASE Subscribed(n)
  <2> DEFINE s == [node[n] EXCEPT !.link = "subscribed",
                      !.phase = IF @ = "subscribing" THEN "reading" ELSE @]
  <2>1. /\ s \in NodeStates
        /\ s.link = "subscribed" /\ s.inbox = node[n].inbox
        /\ s.phase = IF node[n].phase = "subscribing" THEN "reading"
                                                      ELSE node[n].phase
        /\ s.catchUps = node[n].catchUps
        /\ s.stoppedAt = node[n].stoppedAt /\ s.running = node[n].running
        /\ s.atStart = node[n].atStart /\ s.atReady = node[n].atReady
        /\ s.steady = node[n].steady
    BY <1>0 DEF NodeStates
  <2>2. Becomes(n, s) /\ UNCHANGED <<command, saved, ended, drops, crashes>>
    BY <1>2 DEF Subscribed
  <2> HIDE DEF s
  <2>3. Informed(s, saved, command) /\ LoopsCounted(s, drops)
    BY <1>0, <2>1 DEF Informed, LoopsCounted
  <2> QED
    BY <1>0, <2>1, <2>2, <2>3, OneNodeMoves
<1>3. CASE StartReads(n)
  <2> DEFINE s == [node[n] EXCEPT !.phase = "up"]
  <2>1. /\ s \in NodeStates
        /\ s.phase = "up" /\ s.link = node[n].link /\ s.catchUps = node[n].catchUps
        /\ s.stoppedAt = node[n].stoppedAt /\ s.running = node[n].running
        /\ s.atStart = node[n].atStart /\ s.atReady = node[n].atReady
        /\ s.steady = node[n].steady
    BY <1>0 DEF NodeStates
  <2>2. OnStop(n, s, saved) /\ UNCHANGED <<command, saved, drops, crashes>>
        /\ node[n].phase = "reading"
    BY <1>3 DEF StartReads
  <2> HIDE DEF s
  <2>3. LoopsCounted(s, drops)
    BY <1>0, <2>1, <2>2 DEF LoopsCounted
  <2>4. s.steady => s.link = "subscribed"
    BY <1>0, <2>1, <2>2 DEF Informed
  <2> QED
    BY <2>1, <2>2, <2>3, <2>4, SavedStopArrives
<1>4. CASE StartFails(n)
  BY <1>0, <1>4, OffIsInformed, OneNodeMoves DEF StartFails
<1>5. CASE Drop(n)
  <2> DEFINE s == [node[n] EXCEPT !.link = "down", !.inbox = {}, !.steady = FALSE]
  <2>1. /\ s \in NodeStates
        /\ s.phase = node[n].phase /\ s.catchUps = node[n].catchUps
        /\ s.stoppedAt = node[n].stoppedAt /\ s.running = node[n].running
        /\ s.atStart = node[n].atStart /\ s.atReady = node[n].atReady
        /\ s.steady = FALSE
    BY <1>0 DEF NodeStates
  <2>2. Becomes(n, s) /\ UNCHANGED <<command, saved, ended, crashes>>
        /\ drops' = drops + 1 /\ drops < MaxDrops
    BY <1>5 DEF Drop
  <2> HIDE DEF s
  <2>3. Informed(s, saved, command) /\ LoopsCounted(s, drops')
    BY <1>0, <2>1, <2>2 DEF Informed, LoopsCounted
  <2> QED
    BY <1>0, <2>1, <2>2, <2>3, OneNodeMoves
<1>6. CASE Reconnect(n)
  <2> DEFINE s == [node[n] EXCEPT !.link = "joining", !.catchUps = @ + 1,
                                  !.atReady = saved]
  <2>1. /\ node[n].catchUps <= drops /\ node[n].catchUps + 1 \in 0 .. MaxDrops + 1
        /\ saved \in Moments \cup {NeverStopped}
    BY <1>0, <1>6 DEF Reconnect, LoopsCounted, StopMoments
  <2>2. /\ s \in NodeStates
        /\ s.phase = node[n].phase /\ s.link = "joining"
        /\ s.catchUps = node[n].catchUps + 1
        /\ s.stoppedAt = node[n].stoppedAt /\ s.running = node[n].running
        /\ s.atStart = node[n].atStart /\ s.atReady = saved
        /\ s.inbox = node[n].inbox /\ s.steady = node[n].steady
    BY <1>0, <2>1 DEF NodeStates
  <2>3. Becomes(n, s) /\ UNCHANGED <<command, saved, ended, drops, crashes>>
        /\ node[n].link = "down"
    BY <1>6 DEF Reconnect
  <2> HIDE DEF s
  <2>4. Informed(s, saved, command) /\ LoopsCounted(s, drops)
    BY <1>0, <2>1, <2>2, <2>3 DEF Informed, LoopsCounted
  <2> QED
    BY <1>0, <2>2, <2>3, <2>4, OneNodeMoves
<1>7. CASE CatchUpReads(n)
  <2> DEFINE s == [node[n] EXCEPT !.catchUps = @ - 1]
  <2>1. node[n].catchUps > 0
    BY <1>7 DEF CatchUpReads
  <2>2. /\ s \in NodeStates
        /\ s.phase = node[n].phase /\ s.link = node[n].link
        /\ s.catchUps = node[n].catchUps - 1
        /\ s.stoppedAt = node[n].stoppedAt /\ s.running = node[n].running
        /\ s.atStart = node[n].atStart /\ s.atReady = node[n].atReady
        /\ s.steady = node[n].steady
    BY <1>0, <2>1 DEF NodeStates
  <2>3. OnStop(n, s, saved) /\ UNCHANGED <<command, saved, drops, crashes>>
    BY <1>7 DEF CatchUpReads
  <2> HIDE DEF s
  <2>4. LoopsCounted(s, drops)
    BY <1>0, <2>1, <2>2 DEF LoopsCounted
  <2> QED
    BY <1>0, <2>2, <2>3, <2>4, SavedStopArrives DEF Informed
<1>8. CASE Leave(n)
  <2>1. /\ Becomes(n, Off) /\ UNCHANGED <<command, saved, drops>>
        /\ crashes' \in 0 .. MaxCrashes /\ ended' \subseteq Tasks
    BY <1>0, <1>8 DEF Leave, NodeStates
  <2> QED
    BY <1>0, <2>1, OffIsInformed, OneNodeMoves
<1>9. ASSUME NEW t \in Moments, Receive(n, t) PROVE Inv'
  BY <1>9, ReceiveKeepsInv
<1>10. ASSUME NEW k \in Tasks, TakeTask(n, k) PROVE Inv'
  <2>1. CASE SentAt[k] > node[n].stoppedAt
    <3> DEFINE s == [node[n] EXCEPT !.running = @ \cup {k}]
    <3>1. /\ s \in NodeStates
          /\ s.phase = node[n].phase /\ s.link = node[n].link
          /\ s.inbox = node[n].inbox /\ s.catchUps = node[n].catchUps
          /\ s.stoppedAt = node[n].stoppedAt
          /\ s.running = node[n].running \cup {k}
          /\ s.atStart = node[n].atStart /\ s.atReady = node[n].atReady
          /\ s.steady = node[n].steady
      BY <1>0 DEF NodeStates
    <3>2. Becomes(n, s) /\ UNCHANGED <<command, saved, ended, drops, crashes>>
          /\ node[n].phase = "up"
      BY <1>10, <2>1 DEF TakeTask
    <3> HIDE DEF s
    <3>3. Informed(s, saved, command) /\ LoopsCounted(s, drops)
      BY <1>0, <2>1, <3>1, <3>2 DEF Informed, LoopsCounted
    <3> QED
      BY <1>0, <3>1, <3>2, <3>3, OneNodeMoves
  <2>2. CASE ~(SentAt[k] > node[n].stoppedAt)
    BY <1>10, <2>2 DEF TakeTask, Inv, TypeOK, PublishedIsSaved
  <2> QED
    BY <2>1, <2>2
<1>11. ASSUME NEW k \in Tasks, TaskFinishes(n, k) \/ TaskReturns(n, k) PROVE Inv'
  <2> DEFINE s == [node[n] EXCEPT !.running = @ \ {k}]
  <2>1. /\ s \in NodeStates
        /\ s.phase = node[n].phase /\ s.link = node[n].link
        /\ s.inbox = node[n].inbox /\ s.catchUps = node[n].catchUps
        /\ s.stoppedAt = node[n].stoppedAt /\ s.running = node[n].running \ {k}
        /\ s.atStart = node[n].atStart /\ s.atReady = node[n].atReady
        /\ s.steady = node[n].steady
    BY <1>0 DEF NodeStates
  <2>2. Becomes(n, s) /\ UNCHANGED <<command, saved, drops, crashes>>
        /\ ended' \subseteq Tasks
    BY <1>0, <1>11 DEF TaskFinishes, TaskReturns
  <2> HIDE DEF s
  <2>3. Informed(s, saved, command) /\ LoopsCounted(s, drops)
    BY <1>0, <2>1 DEF Informed, LoopsCounted
  <2> QED
    BY <1>0, <2>1, <2>2, <2>3, OneNodeMoves
<1> QED
  BY <1>1, <1>2, <1>3, <1>4, <1>5, <1>6, <1>7, <1>8, <1>9, <1>10, <1>11 DEF NodeStep

LEMMA InvNext == Inv /\ [Next]_vars => Inv'
<1>1. ASSUME Inv, UNCHANGED vars PROVE Inv'
  BY <1>1 DEF vars, Inv, TypeOK, PublishedIsSaved
<1> QED
  BY <1>1, GatewayKeepsInv, NodeKeepsInv DEF Next

LEMMA Invariance == Spec => []Inv
BY InvInit, InvNext, PTL DEF Spec

-----------------------------------------------------------------------------
\* TypeOK is invariant: every part of a node keeps its type and each catchUp loop
\* that runs was begun by a start or a reconnect.
THEOREM ControlTypeCorrect == Spec => []TypeOK
BY Invariance, PTL DEF Inv

\* ES-3: a node never runs a task covered by a stop saved before it started.
THEOREM StartersAreBound == Spec => []SavedStopBindsStarters
<1>1. Inv => SavedStopBindsStarters
  <2> SUFFICES ASSUME Inv, NEW n \in Nodes, NEW k \in node[n].running
               PROVE  SentAt[k] > node[n].atStart
    BY DEF SavedStopBindsStarters
  <2>1. node[n] \in NodeStates /\ Informed(node[n], saved, command)
    BY DEF Inv, TypeOK
  <2>2. node[n].atStart \in Int /\ node[n].stoppedAt \in Int /\ SentAt[k] \in Int
    BY <2>1, StopMomentsAreInts, ControlAssumption DEF NodeStates, StopMoments
  <2> QED
    BY <2>1, <2>2 DEF Informed
<1> QED
  BY <1>1, Invariance, PTL

\* SAVE_IF_LATER: what is published is covered by what is saved.
THEOREM SavedCoversPublished == Spec => []PublishedIsSaved
BY Invariance, PTL DEF Inv

\* Subscribe, then read: a node that keeps its connection misses no published stop.
THEOREM SteadyNodesMissNothing == Spec => []SteadyNodesHearEverything
<1>1. Inv => SteadyNodesHearEverything
  BY DEF Inv, Informed, SteadyNodesHearEverything
<1> QED
  BY <1>1, Invariance, PTL

\* catchUp: a node that has read the key since its connection came back obeys it.
THEOREM CaughtUpNodesObey == Spec => []CaughtUpNodesObeySaved
<1>1. Inv => CaughtUpNodesObeySaved
  BY DEF Inv, Informed, CaughtUpNodesObeySaved
<1> QED
  BY <1>1, Invariance, PTL

\* Both reads of the key bind a node: the one at its start and the ones it catches
\* up with.
THEOREM NodesObey == Spec => []NodesObeySaved
BY StartersAreBound, CaughtUpNodesObey, PTL DEF NodesObeySaved
-----------------------------------------------------------------------------
(* Every node implements StoppableWorker.                                  *)

\* No task runs at two nodes, and none that is over.
Apart ==
    /\ \A n \in Nodes : node[n].running \cap ended = {}
    /\ \A n, m \in Nodes : n # m => node[n].running \cap node[m].running = {}

\* One node moves: what it comes to run was nowhere before, what it ends it ran or
\* refused.
Moves(n) ==
    /\ \A m \in Nodes \ {n} : node'[m] = node[m]
    /\ \E tasks \in SUBSET Tasks :
          /\ ended' = ended \cup tasks
          /\ \A m \in Nodes \ {n} : tasks \cap node[m].running = {}
          /\ tasks \cap node'[n].running = {}
    /\ node'[n].running \cap ended = {}
    /\ \A m \in Nodes \ {n} : node'[n].running \cap node[m].running = {}

\* What a stop that reaches node n is to its worker.
LEMMA StopReaches ==
    ASSUME Inv, Apart, NEW n \in Nodes, NEW s \in NodeStates, NEW t \in StopMoments,
           OnStop(n, s, t), s.running = node[n].running, s.stoppedAt = node[n].stoppedAt
    PROVE  /\ Moves(n)
           /\ node'[n].phase = s.phase
           /\ \/ /\ t \in Moments /\ t > node[n].stoppedAt /\ node'[n].stoppedAt = t
                 /\ node'[n].running = {k \in node[n].running : SentAt[k] > t}
                 /\ ended' = ended \cup {k \in node[n].running : SentAt[k] <= t}
              \/ /\ node'[n].stoppedAt = node[n].stoppedAt
                 /\ node'[n].running = node[n].running /\ ended' = ended
<1> DEFINE r == Stopped(s, t)
<1>1. /\ s.running \subseteq Tasks /\ t \in Int /\ s.stoppedAt \in Int
      /\ s.stoppedAt >= NeverStopped /\ \A k \in Tasks : SentAt[k] \in Int
  <2>1. s.running \subseteq Tasks /\ s.stoppedAt \in StopMoments
    BY DEF NodeStates, StopMoments
  <2>2. \A u \in StopMoments : u \in Int /\ u >= NeverStopped
    BY ControlAssumption DEF StopMoments, NeverStopped
  <2> QED  BY <2>1, <2>2, ControlAssumption
<1>2. /\ r.phase = s.phase /\ r.running \subseteq s.running
      /\ \/ /\ t > s.stoppedAt /\ r.stoppedAt = t
            /\ r.running = {k \in s.running : SentAt[k] > t}
         \/ r.stoppedAt = s.stoppedAt /\ r.running = s.running
  <2>1. CASE t > s.stoppedAt
    BY <2>1 DEF Stopped, NodeStates
  <2>2. CASE ~(t > s.stoppedAt)
    BY <2>2 DEF Stopped
  <2> QED  BY <2>1, <2>2
<1>3. /\ node'[n] = r /\ \A m \in Nodes \ {n} : node'[m] = node[m]
      /\ ended' = ended \cup (s.running \ r.running)
  BY DEF OnStop, Becomes, Inv, TypeOK
<1> HIDE DEF r
<1>4. t > s.stoppedAt => t \in Moments
  BY <1>1 DEF StopMoments, NeverStopped
<1>5. Moves(n)
  <2> DEFINE tasks == s.running \ r.running
  <2>1. tasks \in SUBSET Tasks /\ ended' = ended \cup tasks
    BY <1>1, <1>3
  <2>2. \A m \in Nodes \ {n} : node[n].running \cap node[m].running = {}
    BY DEF Apart
  <2>3. \A m \in Nodes \ {n} : tasks \cap node[m].running = {}
    BY <2>2
  <2>4. tasks \cap node'[n].running = {}
    BY <1>3
  <2>5. node'[n].running \cap ended = {}
    BY <1>2, <1>3 DEF Apart
  <2>6. \A m \in Nodes \ {n} : node'[n].running \cap node[m].running = {}
    BY <1>2, <1>3, <2>2
  <2> QED  BY <1>3, <2>1, <2>3, <2>4, <2>5, <2>6 DEF Moves
<1>6. s.running \ {k \in s.running : SentAt[k] > t} = {k \in s.running : SentAt[k] <= t}
  BY <1>1
<1> QED
  BY <1>2, <1>3, <1>4, <1>5, <1>6

\* To another node, a move of n is at most an ending of tasks elsewhere.
LEMMA OthersSettle ==
    ASSUME NEW n \in Nodes, NEW m \in Nodes \ {n}, Moves(n)
    PROVE  Worker(m)!Settle
<1>1. PICK tasks \in SUBSET Tasks : /\ ended' = ended \cup tasks
                                   /\ tasks \cap node[m].running = {}
  BY DEF Moves
<1>2. tasks \in SUBSET (Tasks \ node[m].running) /\ node'[m] = node[m]
  BY <1>1 DEF Moves
<1> QED
  BY <1>1, <1>2 DEF Worker!Settle

\* What a step of node n is to its own worker.
Simulated(n) == [Worker(n)!Next]_(Worker(n)!vars)

\* A stop that a running node receives or reads is a stop of the worker, or nothing.
LEMMA StopIsWorkerStop ==
    ASSUME Inv, Apart, NEW n \in Nodes, NEW s \in NodeStates, NEW t \in StopMoments,
           OnStop(n, s, t), s.running = node[n].running, s.stoppedAt = node[n].stoppedAt,
           s.phase = node[n].phase
    PROVE  Moves(n) /\ Simulated(n)
<1>1. /\ Moves(n)
      /\ node'[n].phase = node[n].phase
      /\ \/ /\ t \in Moments /\ t > node[n].stoppedAt /\ node'[n].stoppedAt = t
            /\ node'[n].running = {k \in node[n].running : SentAt[k] > t}
            /\ ended' = ended \cup {k \in node[n].running : SentAt[k] <= t}
         \/ /\ node'[n].stoppedAt = node[n].stoppedAt
            /\ node'[n].running = node[n].running /\ ended' = ended
  BY StopReaches
<1>2. CASE t \in Moments /\ t > node[n].stoppedAt /\ node'[n].stoppedAt = t
           /\ node'[n].running = {k \in node[n].running : SentAt[k] > t}
           /\ ended' = ended \cup {k \in node[n].running : SentAt[k] <= t}
  <2>1. Worker(n)!Stop(t)
    BY <1>1, <1>2 DEF Worker!Stop, Worker!Learn
  <2> QED  BY <1>1, <1>2, <2>1 DEF Simulated, Worker!Next
<1>3. CASE node'[n].stoppedAt = node[n].stoppedAt
           /\ node'[n].running = node[n].running /\ ended' = ended
  BY <1>1, <1>3 DEF Simulated, Worker!vars
<1> QED  BY <1>1, <1>2, <1>3

\* A node that ends or begins anew is replaced.
LEMMA ReplacedNode ==
    ASSUME Inv, Apart, NEW n \in Nodes, NEW s \in NodeStates, Becomes(n, s),
           s.phase # "up", s.stoppedAt = NeverStopped, s.running = {},
           ended' \in {ended, ended \cup node[n].running}
    PROVE  Moves(n) /\ Simulated(n)
<1>1. node'[n] = s /\ \A m \in Nodes \ {n} : node'[m] = node[m]
  BY DEF Becomes, Inv, TypeOK
<1>2. node[n].running \in SUBSET Tasks
  BY DEF Inv, TypeOK, NodeStates
<1>3. \A m \in Nodes \ {n} : node[n].running \cap node[m].running = {}
  BY DEF Apart
<1>4. PICK tasks \in {{}, node[n].running} : ended' = ended \cup tasks
  OBVIOUS
<1>5. /\ tasks \in SUBSET Tasks /\ tasks \cap s.running = {}
      /\ \A m \in Nodes \ {n} : tasks \cap node[m].running = {}
  BY <1>2, <1>3, <1>4
<1>6. Moves(n)
  BY <1>1, <1>4, <1>5 DEF Moves
<1>7. Worker(n)!Replace
  BY <1>1 DEF Worker!Replace, Worker!NeverStopped, NeverStopped
<1> QED  BY <1>6, <1>7 DEF Simulated, Worker!Next

\* A node whose actor is not touched: only its link, its loops or its start move on.
LEMMA UntouchedNode ==
    ASSUME Inv, Apart, NEW n \in Nodes, NEW s \in NodeStates, Becomes(n, s),
           s.phase = "up" <=> node[n].phase = "up", s.stoppedAt = node[n].stoppedAt,
           s.running = node[n].running, ended' = ended
    PROVE  Moves(n) /\ Simulated(n)
<1>1. node'[n] = s /\ \A m \in Nodes \ {n} : node'[m] = node[m]
  BY DEF Becomes, Inv, TypeOK
<1>2. ended' = ended \cup {} /\ {} \in SUBSET Tasks
  OBVIOUS
<1>3. Moves(n)
  BY <1>1, <1>2 DEF Moves, Apart
<1>4. UNCHANGED Worker(n)!vars
  BY <1>1 DEF Worker!vars
<1> QED  BY <1>3, <1>4 DEF Simulated

LEMMA TaskSimulates ==
    ASSUME Inv, Apart, NEW n \in Nodes, NEW k \in Tasks,
           TakeTask(n, k) \/ TaskFinishes(n, k) \/ TaskReturns(n, k)
    PROVE  Moves(n) /\ Simulated(n)
<1>1. /\ node[n] \in NodeStates /\ SentAt[k] \in Int /\ node[n].stoppedAt \in Int
      /\ \A m \in Nodes \ {n} : node[n].running \cap node[m].running = {}
      /\ node[n].running \cap ended = {}
  BY StopMomentsAreInts, ControlAssumption DEF Inv, TypeOK, Apart, NodeStates, StopMoments
<1>2. CASE TakeTask(n, k) /\ SentAt[k] > node[n].stoppedAt
  <2> DEFINE s == [node[n] EXCEPT !.running = @ \cup {k}]
  <2>1. /\ s.phase = node[n].phase /\ s.stoppedAt = node[n].stoppedAt
        /\ s.running = node[n].running \cup {k}
    BY <1>1 DEF NodeStates
  <2>2. /\ node'[n] = s /\ \A m \in Nodes \ {n} : node'[m] = node[m]
        /\ node[n].phase = "up" /\ ended' = ended
        /\ k \notin ended /\ \A m \in Nodes : k \notin node[m].running
    BY <1>2 DEF TakeTask, Becomes, Inv, TypeOK
  <2> HIDE DEF s
  <2>3. ended' = ended \cup {} /\ {} \in SUBSET Tasks
    BY <2>2
  <2>4. \A m \in Nodes \ {n} : node'[n].running \cap node[m].running = {}
    BY <1>1, <2>1, <2>2
  <2>5. node'[n].running \cap ended = {}
    BY <1>1, <2>1, <2>2
  <2>6. Moves(n)
    BY <2>2, <2>3, <2>4, <2>5 DEF Moves
  <2>7. Worker(n)!Run(k)
    BY <1>1, <1>2, <2>1, <2>2 DEF Worker!Run, Worker!Covered
  <2> QED  BY <2>6, <2>7 DEF Simulated, Worker!Next
<1>3. CASE TakeTask(n, k) /\ ~(SentAt[k] > node[n].stoppedAt)
  <2>1. /\ node' = node /\ ended' = ended \cup {k}
        /\ \A m \in Nodes : k \notin node[m].running
    BY <1>3 DEF TakeTask
  <2>2. {k} \in SUBSET (Tasks \ node[n].running)
        /\ \A m \in Nodes \ {n} : {k} \cap node[m].running = {}
    BY <2>1
  <2>3. {k} \cap node'[n].running = {} /\ node'[n].running \cap ended = {}
    BY <1>1, <2>1, <2>2
  <2>4. \A m \in Nodes \ {n} : node'[n].running \cap node[m].running = {}
    BY <1>1, <2>1
  <2>5. Moves(n)
    BY <2>1, <2>2, <2>3, <2>4 DEF Moves
  <2>6. Worker(n)!Settle
    BY <2>1, <2>2 DEF Worker!Settle
  <2> QED  BY <2>5, <2>6 DEF Simulated, Worker!Next
<1>4. CASE TaskFinishes(n, k) \/ TaskReturns(n, k)
  <2> DEFINE s == [node[n] EXCEPT !.running = @ \ {k}]
  <2>1. /\ s.phase = node[n].phase /\ s.stoppedAt = node[n].stoppedAt
        /\ s.running = node[n].running \ {k}
    BY <1>1 DEF NodeStates
  <2>2. /\ node'[n] = s /\ \A m \in Nodes \ {n} : node'[m] = node[m]
        /\ k \in node[n].running /\ ended' \in {ended, ended \cup {k}}
    BY <1>4 DEF TaskFinishes, TaskReturns, Becomes, Inv, TypeOK
  <2> HIDE DEF s
  <2>3. PICK tasks \in {{}, {k}} : ended' = ended \cup tasks
    BY <2>2
  <2>4. \A m \in Nodes \ {n} : k \notin node[m].running
    BY <1>1, <2>2
  <2>5. /\ tasks \in SUBSET Tasks /\ tasks \cap node'[n].running = {}
        /\ \A m \in Nodes \ {n} : tasks \cap node[m].running = {}
    BY <2>1, <2>2, <2>3, <2>4
  <2>6. node'[n].running \cap ended = {}
    BY <1>1, <2>1, <2>2
  <2>7. \A m \in Nodes \ {n} : node'[n].running \cap node[m].running = {}
    BY <1>1, <2>1, <2>2
  <2>8. Moves(n)
    BY <2>2, <2>3, <2>5, <2>6, <2>7 DEF Moves
  <2>9. Worker(n)!Return(k)
    BY <2>1, <2>2 DEF Worker!Return
  <2> QED  BY <2>8, <2>9 DEF Simulated, Worker!Next
<1> QED  BY <1>2, <1>3, <1>4

LEMMA NodeSimulates ==
    ASSUME Inv, Apart, NEW n \in Nodes, NodeStep(n)
    PROVE  Moves(n) /\ Simulated(n)
<1>0. /\ node[n] \in NodeStates /\ saved \in StopMoments /\ Off \in NodeStates
      /\ node[n].running # {} => node[n].phase = "up"
      /\ node[n].catchUps \in Nat
  BY OffIsInformed DEF Inv, TypeOK, Informed, NodeStates, StopMoments
<1>1. CASE Boot(n)
  <2> DEFINE s == [Off EXCEPT !.phase = "subscribing", !.link = "joining",
                      !.catchUps = 1, !.atStart = saved, !.atReady = saved]
  <2>1. /\ s \in NodeStates
        /\ s.phase = "subscribing" /\ s.stoppedAt = NeverStopped /\ s.running = {}
    <3>1. 1 \in 0 .. MaxDrops + 1 /\ saved \in Moments \cup {NeverStopped}
      BY <1>0, ControlAssumption DEF StopMoments
    <3> QED  BY <3>1, ControlAssumption DEF Off, NodeStates, NeverStopped
  <2>2. Becomes(n, s) /\ ended' = ended
    BY <1>1 DEF Boot
  <2> HIDE DEF s
  <2> QED  BY <2>1, <2>2, ReplacedNode
<1>2. CASE StartFails(n) \/ Leave(n)
  <2>1. Becomes(n, Off) /\ ended' \in {ended, ended \cup node[n].running}
    BY <1>2 DEF StartFails, Leave
  <2>2. Off.phase # "up" /\ Off.stoppedAt = NeverStopped /\ Off.running = {}
    BY DEF Off
  <2> QED  BY <1>0, <2>1, <2>2, ReplacedNode
<1>3. CASE Subscribed(n)
  <2> DEFINE s == [node[n] EXCEPT !.link = "subscribed",
                      !.phase = IF @ = "subscribing" THEN "reading" ELSE @]
  <2>1. /\ s \in NodeStates
        /\ s.phase = "up" <=> node[n].phase = "up"
        /\ s.stoppedAt = node[n].stoppedAt /\ s.running = node[n].running
    BY <1>0 DEF NodeStates
  <2>2. Becomes(n, s) /\ ended' = ended
    BY <1>3 DEF Subscribed
  <2> HIDE DEF s
  <2> QED  BY <2>1, <2>2, UntouchedNode
<1>4. CASE Drop(n)
  <2> DEFINE s == [node[n] EXCEPT !.link = "down", !.inbox = {}, !.steady = FALSE]
  <2>1. /\ s \in NodeStates
        /\ s.phase = "up" <=> node[n].phase = "up"
        /\ s.stoppedAt = node[n].stoppedAt /\ s.running = node[n].running
    BY <1>0 DEF NodeStates
  <2>2. Becomes(n, s) /\ ended' = ended
    BY <1>4 DEF Drop
  <2> HIDE DEF s
  <2> QED  BY <2>1, <2>2, UntouchedNode
<1>5. CASE Reconnect(n)
  <2> DEFINE s == [node[n] EXCEPT !.link = "joining", !.catchUps = @ + 1,
                                  !.atReady = saved]
  <2>1. node[n].catchUps + 1 \in 0 .. MaxDrops + 1 /\ saved \in Moments \cup {NeverStopped}
    BY <1>0, <1>5, ControlAssumption
    DEF Reconnect, Inv, TypeOK, LoopsCounted, StopMoments
  <2>2. /\ s \in NodeStates
        /\ s.phase = "up" <=> node[n].phase = "up"
        /\ s.stoppedAt = node[n].stoppedAt /\ s.running = node[n].running
    BY <1>0, <2>1 DEF NodeStates
  <2>3. Becomes(n, s) /\ ended' = ended
    BY <1>5 DEF Reconnect
  <2> HIDE DEF s
  <2> QED  BY <2>2, <2>3, UntouchedNode
<1>6. CASE CatchUpReads(n)
  <2> DEFINE s == [node[n] EXCEPT !.catchUps = @ - 1]
  <2>1. /\ s \in NodeStates
        /\ s.phase = node[n].phase
        /\ s.stoppedAt = node[n].stoppedAt /\ s.running = node[n].running
    BY <1>0, <1>6, ControlAssumption DEF CatchUpReads, NodeStates
  <2>2. OnStop(n, s, saved)
    BY <1>6 DEF CatchUpReads
  <2> HIDE DEF s
  <2> QED  BY <1>0, <2>1, <2>2, StopIsWorkerStop
<1>7. ASSUME NEW t \in Moments, Receive(n, t) PROVE Moves(n) /\ Simulated(n)
  <2> DEFINE s == [node[n] EXCEPT !.inbox = @ \ {t}]
  <2>1. /\ s \in NodeStates /\ t \in StopMoments
        /\ s.phase = node[n].phase
        /\ s.stoppedAt = node[n].stoppedAt /\ s.running = node[n].running
    BY <1>0 DEF NodeStates, StopMoments
  <2>2. OnStop(n, s, t)
    BY <1>7 DEF Receive
  <2> HIDE DEF s
  <2> QED  BY <2>1, <2>2, StopIsWorkerStop
<1>8. CASE StartReads(n)
  <2> DEFINE s == [node[n] EXCEPT !.phase = "up"]
  <2>1. /\ s \in NodeStates /\ s.phase = "up"
        /\ s.stoppedAt = node[n].stoppedAt /\ s.running = node[n].running
    BY <1>0 DEF NodeStates
  <2>2. OnStop(n, s, saved) /\ node[n].phase = "reading" /\ node[n].running = {}
    BY <1>0, <1>8 DEF StartReads
  <2> HIDE DEF s
  <2>3. /\ Moves(n)
        /\ node'[n].phase = "up"
        /\ \/ /\ saved \in Moments /\ saved > node[n].stoppedAt
              /\ node'[n].stoppedAt = saved
              /\ node'[n].running = {k \in node[n].running : SentAt[k] > saved}
              /\ ended' = ended \cup {k \in node[n].running : SentAt[k] <= saved}
           \/ /\ node'[n].stoppedAt = node[n].stoppedAt
              /\ node'[n].running = node[n].running /\ ended' = ended
    BY <1>0, <2>1, <2>2, StopReaches
  <2>4. node'[n].running = {} /\ ended' = ended
    BY <2>2, <2>3
  <2>5. Worker(n)!Open
    BY <2>2, <2>3, <2>4 DEF Worker!Open, Worker!Learn
  <2> QED  BY <2>3, <2>5 DEF Simulated, Worker!Next
<1>9. ASSUME NEW k \in Tasks, TakeTask(n, k) \/ TaskFinishes(n, k) \/ TaskReturns(n, k)
      PROVE  Moves(n) /\ Simulated(n)
  BY <1>9, TaskSimulates
<1> QED
  BY <1>1, <1>2, <1>3, <1>4, <1>5, <1>6, <1>7, <1>8, <1>9 DEF NodeStep

\* A message on its way touches no actor.
LEMMA GatewaySimulates ==
    ASSUME Inv, NEW t \in Moments, GatewayStep(t), NEW n \in Nodes
    PROVE  /\ ended' = ended /\ node'[n].running = node[n].running
           /\ Simulated(n)
<1>1. ended' = ended /\ (node' = node \/ Broadcast(t))
  BY DEF GatewayStep, Issue, Save, SaveFails, Publish, PublishFails
<1>2. CASE node' = node
  BY <1>1, <1>2 DEF Simulated, Worker!vars
<1>3. CASE Broadcast(t)
  <2>1. node[n] \in NodeStates
    BY DEF Inv, TypeOK
  <2>2. /\ node'[n].phase = node[n].phase /\ node'[n].running = node[n].running
        /\ node'[n].stoppedAt = node[n].stoppedAt
    BY <1>3, <2>1 DEF Broadcast, NodeStates
  <2> QED  BY <1>1, <2>2 DEF Simulated, Worker!vars
<1> QED  BY <1>1, <1>2, <1>3

LEMMA EveryStepSimulates ==
    ASSUME Inv, Apart, [Next]_vars
    PROVE  Apart' /\ \A n \in Nodes : Simulated(n)
<1>1. CASE UNCHANGED vars
  BY <1>1 DEF vars, Apart, Simulated, Worker!vars
<1>2. ASSUME NEW t \in Moments, GatewayStep(t)
      PROVE  Apart' /\ \A n \in Nodes : Simulated(n)
  BY <1>2, GatewaySimulates DEF Apart
<1>3. ASSUME NEW n \in Nodes, NodeStep(n)
      PROVE  Apart' /\ \A m \in Nodes : Simulated(m)
  <2>1. Moves(n) /\ Simulated(n)
    BY <1>3, NodeSimulates
  <2>2. ASSUME NEW m \in Nodes \ {n} PROVE Simulated(m)
    BY <2>1, <2>2, OthersSettle DEF Simulated, Worker!Next
  <2>3. PICK tasks \in SUBSET Tasks :
           /\ ended' = ended \cup tasks /\ tasks \cap node'[n].running = {}
           /\ \A m \in Nodes \ {n} : tasks \cap node[m].running = {}
    BY <2>1 DEF Moves
  <2>4. ASSUME NEW m \in Nodes PROVE node'[m].running \cap ended' = {}
    <3>1. CASE m = n
      BY <2>1, <2>3, <3>1 DEF Moves
    <3>2. CASE m # n
      BY <2>1, <2>3, <3>2 DEF Moves, Apart
    <3> QED  BY <3>1, <3>2
  <2>5. ASSUME NEW m \in Nodes, NEW o \in Nodes, m # o
        PROVE  node'[m].running \cap node'[o].running = {}
    <3>1. CASE m # n /\ o # n
      BY <2>1, <2>5, <3>1 DEF Moves, Apart
    <3>2. CASE m = n
      BY <2>1, <2>5, <3>2 DEF Moves
    <3>3. CASE o = n
      BY <2>1, <2>5, <3>3 DEF Moves
    <3> QED  BY <3>1, <3>2, <3>3
  <2> QED  BY <2>1, <2>2, <2>4, <2>5 DEF Apart
<1> QED  BY <1>1, <1>2, <1>3 DEF Next

LEMMA ApartInit == Init => Apart /\ \A n \in Nodes : Worker(n)!Init
BY DEF Init, Off, Apart, Worker!Init, Worker!NeverStopped, NeverStopped

\* The nodes of the fleet, whatever reaches them in whatever order, are workers that
\* obey the stop: each is StoppableWorker, with the other nodes as its surroundings.
THEOREM NodesAreWorkers == Spec => NodesImplementWorker
<1>1. Inv /\ Apart /\ [Next]_vars
         => Apart' /\ [\A n \in Nodes : [Worker(n)!Next]_(Worker(n)!vars)]_vars
  BY EveryStepSimulates DEF Simulated
<1>2. Init => Apart /\ \A n \in Nodes : Worker(n)!Init
  BY ApartInit
<1> QED  BY <1>1, <1>2, Invariance, PTL DEF Spec, NodesImplementWorker

\* The same of one node, as its specification: a node alone is StoppableWorker.
COROLLARY EachNodeIsWorker ==
    ASSUME NEW n \in Nodes
    PROVE  Spec => Worker(n)!Spec
<1>1. Inv /\ Apart /\ [Next]_vars => Apart' /\ [Worker(n)!Next]_(Worker(n)!vars)
  BY EveryStepSimulates DEF Simulated
<1>2. Init => Apart /\ Worker(n)!Init
  BY ApartInit
<1> QED  BY <1>1, <1>2, Invariance, PTL DEF Spec, Worker!Spec

\* In every state no task that a node knows to be stopped runs at it, and no task that
\* is over runs anywhere.
THEOREM NodesObeyStops == Spec => [](\A n \in Nodes : Worker(n)!StopIsObeyed)
<1>1. Inv /\ Apart => \A n \in Nodes : Worker(n)!StopIsObeyed
  <2> SUFFICES ASSUME Inv, Apart, NEW n \in Nodes PROVE Worker(n)!StopIsObeyed
    OBVIOUS
  <2>1. /\ \A k \in node[n].running : SentAt[k] > node[n].stoppedAt
        /\ node[n].running # {} => node[n].phase = "up"
        /\ node[n].running \cap ended = {}
    BY DEF Inv, Informed, Apart
  <2>2. node[n].stoppedAt \in Int /\ \A k \in node[n].running : SentAt[k] \in Int
    BY StopMomentsAreInts, ControlAssumption DEF Inv, TypeOK, NodeStates, StopMoments
  <2> QED  BY <2>1, <2>2 DEF Worker!StopIsObeyed, Worker!Covered
<1>2. Inv /\ Apart /\ [Next]_vars => Apart'
  BY EveryStepSimulates
<1> QED  BY <1>1, <1>2, ApartInit, Invariance, PTL DEF Spec
=============================================================================
