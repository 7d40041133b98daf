----------------------------- MODULE RunProofs -----------------------------
(* What holds of a run people watch and decide on: the review of its draft and    *)
(* the research run itself.                                                       *)
EXTENDS MCViews, FiniteSetTheorems, TLAPS

\* What the suite does with a component is a behaviour of the component.
LEMMA ViewsRunAlone ==
    Spec => P!Spec /\ R!Init /\ [][R!Next]_(R!reviewRunVars)
<1>1. Init => P!Init /\ R!Init
  BY DEF Init
<1>2. [Next]_vars => [P!Next]_(P!pipelineVars) /\ [R!Next]_(R!reviewRunVars)
  BY DEF Next, vars, agent, board, review, pipeline, stream, P!pipelineVars,
         R!reviewRunVars, R!reviewVars, R!runVars, R!gateVars, R!sideVars
<1> QED  BY <1>1, <1>2, PTL DEF Spec, P!Spec


-----------------------------------------------------------------------------
(* ReviewRun: the gate, which is HumanReview's.                            *)

\* 0 is Nobody, as a task and as a send.
SendRecord ==
    [task : R!Review \cup {0}, decision : R!Decision \cup {"none"},
     step : {"none", "push", "publish", "acked", "failed"}, wait : 0 .. MaxWaits]

Ending ==
    [task : R!Review \cup {0}, decision : R!Decision \cup {"none", "aborted"},
     by : R!Send \cup {0}]

\* What lies in a task's list was sent for that task.
OnItsList ==
    \A t \in R!Review : \A i \in DOMAIN lists[t] :
        lists[t][i] <= sent /\ sends[lists[t][i]].task = t

\* A wait ended by a board was ended by what the board had sent for its task.
DecidedBySends ==
    \A w \in 1 .. MaxWaits :
        decided[w].by # 0 =>
            /\ decided[w].by <= sent
            /\ sends[decided[w].by].task = decided[w].task
            /\ sends[decided[w].by].decision = decided[w].decision

GateTypes ==
    /\ sends \in [R!Send -> SendRecord] /\ sent \in 0 .. MaxSends
    /\ lists \in [R!Review -> Seq(R!Send)]
    /\ waiting \in R!Review \cup {0} /\ waits \in 0 .. MaxWaits
    /\ subscribed \in BOOLEAN /\ rlOpen \in BOOLEAN
    /\ inbox \in Seq(R!Send) /\ popped \in R!Send \cup {0} /\ prompt \in 0 .. waits
    /\ decided \in [1 .. MaxWaits -> Ending]

ReviewGateInv ==
    /\ GateTypes
    /\ \A s \in R!Send : /\ sends[s].step # "none" => s <= sent
                         /\ s <= sent => sends[s].task \in R!Review
    /\ OnItsList
    /\ \A i \in DOMAIN inbox : inbox[i] <= sent
    /\ subscribed \/ inbox # <<>> => waiting # 0
    /\ popped # 0 => waiting # 0 /\ popped <= sent /\ sends[popped].task = waiting
    /\ waiting # 0 => waits > 0
    /\ DecidedBySends

\* The bounds are numbers, there is a phase before the review, and boards offer
\* decisions there are.
ReviewSane ==
    /\ MaxReviews \in Nat /\ MaxSends \in Nat /\ MaxWaits \in Nat /\ MaxProcesses \in Nat
    /\ Steps \in Nat \ {0}
    /\ BoardChoice \subseteq R!Decision

\* What was sent stays what it is.
SendsStay ==
    \A s \in R!Send : s <= sent =>
        /\ s <= sent' /\ sends'[s].task = sends[s].task
        /\ sends'[s].decision = sends[s].decision

LEMMA ListsStay ==
    ASSUME ReviewGateInv, SendsStay, lists' = lists
    PROVE  OnItsList'
<1>1. \A t \in R!Review : \A i \in DOMAIN lists[t] : lists[t][i] \in R!Send
  BY DEF ReviewGateInv, GateTypes
<1> QED  BY <1>1 DEF ReviewGateInv, OnItsList, SendsStay

LEMMA EndingsStay ==
    ASSUME ReviewGateInv, SendsStay, decided' = decided
    PROVE  DecidedBySends'
<1>1. \A w \in 1 .. MaxWaits : decided[w].by # 0 => decided[w].by \in R!Send
  BY DEF ReviewGateInv, GateTypes, Ending
<1> QED  BY <1>1 DEF ReviewGateInv, DecidedBySends, SendsStay

\* A send that goes one step further, or fails.
LEMMA SendMoves ==
    ASSUME ReviewSane, ReviewGateInv, NEW s \in R!Send, sends[s].step # "none",
           NEW m \in SendRecord, m.task = sends[s].task, m.decision = sends[s].decision,
           sends' = [sends EXCEPT ![s] = m], sent' = sent
    PROVE  /\ SendsStay /\ sends' \in [R!Send -> SendRecord]
           /\ \A x \in R!Send : /\ sends'[x].step # "none" => x <= sent'
                                /\ x <= sent' => sends'[x].task \in R!Review
<1>1. \A x \in R!Send : sends'[x] = IF x = s THEN m ELSE sends[x]
  BY DEF ReviewGateInv, GateTypes
<1>2. s <= sent
  BY DEF ReviewGateInv
<1>3. sends' \in [R!Send -> SendRecord]
  BY DEF ReviewGateInv, GateTypes
<1>4. \A x \in R!Send : sends'[x].task = sends[x].task /\ sends'[x].decision = sends[x].decision
  BY <1>1
<1>5. \A x \in R!Send : sends'[x].step # "none" => x <= sent'
  BY <1>1, <1>2 DEF ReviewGateInv
<1>6. \A x \in R!Send : x <= sent' => sends'[x].task \in R!Review
  BY <1>4 DEF ReviewGateInv
<1> QED  BY <1>3, <1>4, <1>5, <1>6 DEF SendsStay

\* A decision pushed to its list.
LEMMA PushedIsOnItsList ==
    ASSUME ReviewSane, ReviewGateInv, SendsStay, NEW s \in R!Send, s <= sent,
           lists' = [lists EXCEPT ![sends[s].task] = Append(@, s)]
    PROVE  OnItsList' /\ lists' \in [R!Review -> Seq(R!Send)]
<1> DEFINE u == sends[s].task
<1>1. u \in R!Review /\ u = sends[s].task
  BY DEF ReviewGateInv
<1>2. lists' = [lists EXCEPT ![u] = Append(@, s)]
  OBVIOUS
<1> HIDE DEF u
<1>3. lists \in [R!Review -> Seq(R!Send)]
  BY DEF ReviewGateInv, GateTypes
<1>4. Append(lists[u], s) \in Seq(R!Send)
  BY <1>1, <1>3
<1>5. lists' \in [R!Review -> Seq(R!Send)]
  BY <1>1, <1>2, <1>3, <1>4
<1>6. \A t \in R!Review : lists'[t] = IF t = u THEN Append(lists[u], s) ELSE lists[t]
  BY <1>1, <1>2, <1>3
<1>7. \A t \in R!Review : \A i \in DOMAIN lists[t] :
         /\ lists[t][i] \in R!Send /\ lists[t][i] <= sent' /\ sends'[lists[t][i]].task = t
  BY <1>3 DEF ReviewGateInv, OnItsList, SendsStay
<1>8. s <= sent' /\ sends'[s].task = u
  BY <1>1 DEF SendsStay
<1>9. /\ lists[u] \in Seq(R!Send)
      /\ \A i \in DOMAIN Append(lists[u], s) :
            \/ i \in DOMAIN lists[u] /\ Append(lists[u], s)[i] = lists[u][i]
            \/ Append(lists[u], s)[i] = s
  BY <1>1, <1>3
<1>10. ASSUME NEW t \in R!Review, NEW i \in DOMAIN lists'[t]
       PROVE  lists'[t][i] <= sent' /\ sends'[lists'[t][i]].task = t
  <2>1. CASE t = u
    BY <1>1, <1>6, <1>7, <1>8, <1>9, <2>1
  <2>2. CASE t # u
    <3>1. lists'[t] = lists[t]
      BY <1>6, <2>2
    <3>2. i \in DOMAIN lists[t]
      BY <3>1
    <3>3. lists[t][i] <= sent' /\ sends'[lists[t][i]].task = t
      BY <1>7, <3>2
    <3> QED  BY <3>1, <3>3
  <2> QED  BY <2>1, <2>2
<1> QED  BY <1>5, <1>10 DEF OnItsList

\* The gate's own variables are left alone by the boards and the gateway, but for what
\* is published to a live subscription.
LEMMA BoardSide ==
    ASSUME ReviewSane, ReviewGateInv, SendsStay,
           UNCHANGED <<waiting, subscribed, popped, prompt, decided, waits, rlOpen>>,
           sends' \in [R!Send -> SendRecord], sent' \in 0 .. MaxSends,
           \A x \in R!Send : /\ sends'[x].step # "none" => x <= sent'
                             /\ x <= sent' => sends'[x].task \in R!Review,
           OnItsList', lists' \in [R!Review -> Seq(R!Send)],
           \/ inbox' = inbox
           \/ subscribed /\ \E s \in R!Send : s <= sent' /\ inbox' = Append(inbox, s)
    PROVE  ReviewGateInv'
<1>1. inbox \in Seq(R!Send) /\ \A i \in DOMAIN inbox : inbox[i] \in R!Send /\ inbox[i] <= sent
  BY DEF ReviewGateInv, GateTypes
<1>2. \A i \in DOMAIN inbox : inbox[i] <= sent'
  BY <1>1 DEF SendsStay
<1>3. inbox' \in Seq(R!Send) /\ \A i \in DOMAIN inbox' : inbox'[i] <= sent'
  <2>1. CASE inbox' = inbox
    BY <1>1, <1>2, <2>1
  <2>2. ASSUME NEW s \in R!Send, s <= sent', inbox' = Append(inbox, s)
        PROVE  inbox' \in Seq(R!Send) /\ \A i \in DOMAIN inbox' : inbox'[i] <= sent'
    <3>1. /\ Append(inbox, s) \in Seq(R!Send)
          /\ \A i \in DOMAIN Append(inbox, s) :
                \/ i \in DOMAIN inbox /\ Append(inbox, s)[i] = inbox[i]
                \/ Append(inbox, s)[i] = s
      BY <1>1
    <3> QED  BY <1>2, <2>2, <3>1
  <2> QED  BY <2>1, <2>2
<1>4. subscribed' \/ inbox' # <<>> => waiting' # 0
  BY DEF ReviewGateInv
<1>5. popped' # 0 => waiting' # 0 /\ popped' <= sent' /\ sends'[popped'].task = waiting'
  BY DEF ReviewGateInv, GateTypes, SendsStay
<1>6. DecidedBySends'
  BY EndingsStay
<1>7. GateTypes'
  BY <1>3 DEF ReviewGateInv, GateTypes
<1>8. waiting' # 0 => waits' > 0
  BY DEF ReviewGateInv
<1> QED  BY <1>3, <1>4, <1>5, <1>6, <1>7, <1>8 DEF ReviewGateInv

LEMMA BoardsKeepTheGate ==
    ASSUME ReviewSane, ReviewGateInv,
           \/ \E t \in R!Review, d \in BoardChoice : R!BoardDecides(t, d)
           \/ \E s \in R!Send : R!Push(s) \/ R!PublishDecision(s) \/ R!ForwardFails(s)
    PROVE  ReviewGateInv' /\ UNCHANGED <<waiting, decided, waits>> /\ SendsStay
<1>1. ASSUME NEW t \in R!Review, NEW d \in BoardChoice, R!BoardDecides(t, d)
      PROVE  ReviewGateInv' /\ UNCHANGED <<waiting, decided, waits>> /\ SendsStay
  <2> DEFINE m == [task |-> t, decision |-> d, step |-> "push", wait |-> 0]
  <2>1. m \in SendRecord /\ m.step = "push" /\ m.task = t
    BY DEF SendRecord, ReviewSane
  <2>2. /\ sent < MaxSends /\ sent' = sent + 1 /\ sends' = [sends EXCEPT ![sent + 1] = m]
        /\ UNCHANGED <<lists, waiting, subscribed, inbox, popped, prompt, decided, waits, rlOpen>>
    BY <1>1 DEF R!BoardDecides, R!gateVars
  <2> HIDE DEF m
  <2>3. sent \in Nat /\ sent + 1 \in R!Send /\ sent' \in 0 .. MaxSends
    BY <2>2 DEF ReviewGateInv, GateTypes, ReviewSane, R!Send
  <2>4. \A x \in R!Send : sends'[x] = IF x = sent + 1 THEN m ELSE sends[x]
    BY <2>2, <2>3 DEF ReviewGateInv, GateTypes
  <2>5. sends' \in [R!Send -> SendRecord]
    BY <2>1, <2>2, <2>3 DEF ReviewGateInv, GateTypes
  <2>6. \A x \in R!Send : /\ x <= sent + 1 => x <= sent \/ x = sent + 1
                          /\ x <= sent => x <= sent' /\ x # sent + 1
    BY <2>2, <2>3 DEF R!Send
  <2>7. SendsStay
    BY <2>4, <2>6 DEF SendsStay
  <2>8. \A x \in R!Send : /\ sends'[x].step # "none" => x <= sent'
                          /\ x <= sent' => sends'[x].task \in R!Review
    BY <2>1, <2>2, <2>3, <2>4, <2>6 DEF ReviewGateInv
  <2>9. OnItsList' /\ lists' \in [R!Review -> Seq(R!Send)]
    BY <2>2, <2>7, ListsStay DEF ReviewGateInv, GateTypes
  <2> QED  BY <2>2, <2>3, <2>5, <2>7, <2>8, <2>9, BoardSide
<1>2. ASSUME NEW s \in R!Send, R!Push(s) \/ R!PublishDecision(s) \/ R!ForwardFails(s)
      PROVE  ReviewGateInv' /\ UNCHANGED <<waiting, decided, waits>> /\ SendsStay
  <2>1. sends[s] \in SendRecord /\ waits \in 0 .. MaxWaits /\ sent \in 0 .. MaxSends
    BY DEF ReviewGateInv, GateTypes
  <2>2. /\ sends[s].step # "none" /\ sent' = sent
        /\ \E m \in SendRecord :
              /\ m.task = sends[s].task /\ m.decision = sends[s].decision
              /\ sends' = [sends EXCEPT ![s] = m]
    <3>1. CASE R!Push(s)
      <4>1. sends' = [sends EXCEPT ![s] = [sends[s] EXCEPT !.step = "publish", !.wait = waits]]
        BY <3>1 DEF R!Push, ReviewGateInv, GateTypes
      <4>2. [sends[s] EXCEPT !.step = "publish", !.wait = waits] \in SendRecord
        BY <2>1 DEF SendRecord
      <4>3. /\ [sends[s] EXCEPT !.step = "publish", !.wait = waits].task = sends[s].task
            /\ [sends[s] EXCEPT !.step = "publish", !.wait = waits].decision = sends[s].decision
        BY <2>1 DEF SendRecord
      <4> QED  BY <3>1, <4>1, <4>2, <4>3 DEF R!Push
    <3>2. ASSUME R!PublishDecision(s) \/ R!ForwardFails(s),
                 NEW k \in {"acked", "failed"}, sends' = [sends EXCEPT ![s].step = k]
          PROVE  /\ sends[s].step # "none" /\ sent' = sent
                 /\ \E m \in SendRecord :
                       /\ m.task = sends[s].task /\ m.decision = sends[s].decision
                       /\ sends' = [sends EXCEPT ![s] = m]
      <4>1. sends' = [sends EXCEPT ![s] = [sends[s] EXCEPT !.step = k]]
        BY <3>2 DEF ReviewGateInv, GateTypes
      <4>2. [sends[s] EXCEPT !.step = k] \in SendRecord
        BY <2>1 DEF SendRecord
      <4>3. /\ [sends[s] EXCEPT !.step = k].task = sends[s].task
            /\ [sends[s] EXCEPT !.step = k].decision = sends[s].decision
        BY <2>1 DEF SendRecord
      <4> QED  BY <3>2, <4>1, <4>2, <4>3 DEF R!PublishDecision, R!ForwardFails
    <3> QED  BY <1>2, <3>1, <3>2 DEF R!PublishDecision, R!ForwardFails
  <2>3. /\ SendsStay /\ sends' \in [R!Send -> SendRecord]
        /\ \A x \in R!Send : /\ sends'[x].step # "none" => x <= sent'
                             /\ x <= sent' => sends'[x].task \in R!Review
    BY <2>2, SendMoves
  <2>4. s <= sent
    BY <2>2 DEF ReviewGateInv
  <2>5. OnItsList' /\ lists' \in [R!Review -> Seq(R!Send)]
    <3>1. lists' = lists \/ lists' = [lists EXCEPT ![sends[s].task] = Append(@, s)]
      BY <1>2 DEF R!Push, R!PublishDecision, R!ForwardFails
    <3>2. CASE lists' = lists
      BY <2>3, <3>2, ListsStay DEF ReviewGateInv, GateTypes
    <3> QED  BY <2>3, <2>4, <3>1, <3>2, PushedIsOnItsList
  <2>6. /\ UNCHANGED <<waiting, subscribed, popped, prompt, decided, waits, rlOpen>>
        /\ inbox' = inbox \/ (subscribed /\ inbox' = Append(inbox, s))
    BY <1>2 DEF R!Push, R!PublishDecision, R!ForwardFails, R!gateVars
  <2>7. s <= sent' /\ sent' \in 0 .. MaxSends
    BY <2>1, <2>2, <2>4
  <2> QED  BY <2>3, <2>5, <2>6, <2>7, BoardSide
<1> QED  BY <1>1, <1>2

\* The send that ends a wait was sent for its task.
LEMMA FinishKeeps ==
    ASSUME ReviewSane, ReviewGateInv, waiting # 0, NEW by \in R!Send \cup {0},
           NEW d \in R!Decision \cup {"none", "aborted"},
           by # 0 => by <= sent /\ sends[by].task = waiting /\ sends[by].decision = d,
           R!Finish(d, by), UNCHANGED <<sends, sent, lists, waits, rlOpen>>
    PROVE  /\ ReviewGateInv' /\ waiting' = 0 /\ waits \in 1 .. MaxWaits
           /\ decided' = [decided EXCEPT ![waits] = [task |-> waiting, decision |-> d, by |-> by]]
<1> DEFINE e == [task |-> waiting, decision |-> d, by |-> by]
<1>1. /\ waiting' = 0 /\ subscribed' = FALSE /\ inbox' = <<>> /\ popped' = 0 /\ prompt' = 0
      /\ decided' = [decided EXCEPT ![waits] = e]
  BY DEF R!Finish, R!Settle, R!Nobody
<1>2. waits \in 1 .. MaxWaits /\ waits \in Nat
  BY DEF ReviewGateInv, GateTypes, ReviewSane
<1>3. e \in Ending /\ e.task = waiting /\ e.decision = d /\ e.by = by
  BY DEF ReviewGateInv, GateTypes, Ending
<1> HIDE DEF e
<1>4. SendsStay
  <2>1. \A x \in R!Send : x <= sent => x <= sent'
    OBVIOUS
  <2> QED  BY <2>1 DEF SendsStay
<1>5. OnItsList'
  BY <1>4, ListsStay
<1>6. decided' \in [1 .. MaxWaits -> Ending]
  BY <1>1, <1>2, <1>3 DEF ReviewGateInv, GateTypes
<1>7. GateTypes'
  <2>1. <<>> \in Seq(R!Send)
    OBVIOUS
  <2>2. 0 \in 0 .. waits
    BY <1>2
  <2> QED  BY <1>1, <1>6, <2>1, <2>2 DEF ReviewGateInv, GateTypes
<1>8. \A w \in 1 .. MaxWaits : decided'[w] = IF w = waits THEN e ELSE decided[w]
  BY <1>1, <1>2 DEF ReviewGateInv, GateTypes
<1>9. DecidedBySends'
  BY <1>3, <1>8 DEF ReviewGateInv, DecidedBySends
<1>10. \A i \in DOMAIN inbox' : inbox'[i] <= sent'
  BY <1>1
<1>11. /\ ~(subscribed' \/ inbox' # <<>>) /\ popped' = 0 /\ waiting' = 0
       /\ \A x \in R!Send : /\ sends'[x].step # "none" => x <= sent'
                            /\ x <= sent' => sends'[x].task \in R!Review
  BY <1>1 DEF ReviewGateInv
<1>12. ReviewGateInv'
  BY <1>5, <1>7, <1>9, <1>10, <1>11 DEF ReviewGateInv
<1> QED  BY <1>1, <1>2, <1>12 DEF e

\* A step that leaves the decisions alone and what is in hand where it was, or drops it.
LEMMA QuietGate ==
    ASSUME ReviewSane, ReviewGateInv, UNCHANGED <<sends, sent, decided>>,
           OnItsList', lists' \in [R!Review -> Seq(R!Send)],
           waiting' \in R!Review \cup {0}, waits' \in 0 .. MaxWaits,
           waiting' # 0 => waits' > 0,
           subscribed' \in BOOLEAN, rlOpen' \in BOOLEAN, prompt' \in 0 .. waits',
           subscribed' \/ inbox' # <<>> => waiting' # 0,
           inbox' \in Seq(R!Send), \A i \in DOMAIN inbox' : inbox'[i] <= sent,
           popped' \in R!Send \cup {0},
           popped' # 0 => /\ waiting' # 0 /\ popped' <= sent
                          /\ sends[popped'].task = waiting'
    PROVE  ReviewGateInv'
<1>1. SendsStay
  <2>1. \A x \in R!Send : x <= sent => x <= sent'
    OBVIOUS
  <2> QED  BY <2>1 DEF SendsStay
<1>2. DecidedBySends'
  BY <1>1, EndingsStay
<1>3. GateTypes'
  BY DEF ReviewGateInv, GateTypes
<1> QED  BY <1>2, <1>3 DEF ReviewGateInv

\* Taking the oldest entries of a list away leaves what is on it.
LEMMA ShorterList ==
    ASSUME ReviewGateInv, NEW t \in R!Review, lists[t] # <<>>,
           UNCHANGED <<sends, sent>>,
           \/ lists' = [lists EXCEPT ![t] = <<>>]
           \/ lists' = [lists EXCEPT ![t] = Tail(@)]
    PROVE  /\ OnItsList' /\ lists' \in [R!Review -> Seq(R!Send)]
           /\ Head(lists[t]) \in R!Send /\ Head(lists[t]) <= sent
           /\ sends[Head(lists[t])].task = t
<1>1. lists \in [R!Review -> Seq(R!Send)] /\ lists[t] \in Seq(R!Send)
  BY DEF ReviewGateInv, GateTypes
<1>2. /\ Tail(lists[t]) \in Seq(R!Send) /\ 1 \in DOMAIN lists[t]
      /\ Head(lists[t]) = lists[t][1] /\ lists[t][1] \in R!Send
      /\ \A i \in DOMAIN Tail(lists[t]) :
            i + 1 \in DOMAIN lists[t] /\ Tail(lists[t])[i] = lists[t][i + 1]
  BY <1>1
<1>3. <<>> \in Seq(R!Send) /\ \A i \in DOMAIN <<>> : FALSE
  OBVIOUS
<1>4. lists' \in [R!Review -> Seq(R!Send)]
  BY <1>1, <1>2, <1>3
<1>5. /\ \A u \in R!Review : u # t => lists'[u] = lists[u]
      /\ lists'[t] = <<>> \/ lists'[t] = Tail(lists[t])
  BY <1>1
<1>6. OnItsList'
  <2>1. ASSUME NEW u \in R!Review, NEW i \in DOMAIN lists'[u]
        PROVE  lists'[u][i] <= sent /\ sends[lists'[u][i]].task = u
    <3>1. CASE u # t
      BY <1>5, <3>1 DEF ReviewGateInv, OnItsList
    <3>2. CASE u = t /\ lists'[t] = Tail(lists[t])
      BY <1>2, <3>2 DEF ReviewGateInv, OnItsList
    <3>3. CASE u = t /\ lists'[t] = <<>>
      BY <1>3, <3>3
    <3> QED  BY <1>5, <3>1, <3>2, <3>3
  <2> QED  BY <2>1 DEF OnItsList
<1> QED  BY <1>2, <1>4, <1>6 DEF ReviewGateInv, OnItsList

\* The gate waits on ...
GateWaits == UNCHANGED <<waiting, decided, waits>>

\* ... or the wait that is on ends.
WaitEnds ==
    /\ waiting # 0 /\ waiting' = 0 /\ waits' = waits /\ waits \in 1 .. MaxWaits
    /\ \E e \in Ending : e.task = waiting /\ decided' = [decided EXCEPT ![waits] = e]

LEMMA ListeningKeepsTheGate ==
    ASSUME ReviewSane, ReviewGateInv,
           \/ \E t \in R!Review : R!ListExpires(t)
           \/ R!CloseTerminal \/ R!Subscribed \/ R!SubscriptionLost \/ R!Pop \/ R!PopLost
    PROVE  ReviewGateInv' /\ GateWaits /\ UNCHANGED <<sends, sent>>
<1>1. /\ GateTypes /\ OnItsList
      /\ \A i \in DOMAIN inbox : inbox[i] <= sent
      /\ subscribed \/ inbox # <<>> => waiting # 0
      /\ popped # 0 => waiting # 0 /\ popped <= sent /\ sends[popped].task = waiting
      /\ waiting # 0 => waits > 0
  BY DEF ReviewGateInv
<1>2. UNCHANGED <<lists, sends, sent>> => OnItsList' /\ lists' \in [R!Review -> Seq(R!Send)]
  BY <1>1 DEF OnItsList, GateTypes
<1>3. ASSUME NEW t \in R!Review, R!ListExpires(t)
      PROVE  ReviewGateInv' /\ GateWaits /\ UNCHANGED <<sends, sent>>
  <2>1. /\ lists[t] # <<>> /\ lists' = [lists EXCEPT ![t] = <<>>]
        /\ UNCHANGED <<sends, sent, waiting, subscribed, inbox, popped, prompt, decided,
                       waits, rlOpen>>
    BY <1>3 DEF R!ListExpires, R!gateVars
  <2>2. OnItsList' /\ lists' \in [R!Review -> Seq(R!Send)]
    BY <2>1, ShorterList
  <2> QED  BY <1>1, <2>1, <2>2, QuietGate DEF GateTypes, GateWaits
<1>4. CASE R!CloseTerminal
  <2>1. /\ rlOpen' = FALSE /\ prompt' = 0 /\ lists' = lists
        /\ UNCHANGED <<sends, sent, waiting, subscribed, inbox, popped, decided, waits>>
    BY <1>4 DEF R!CloseTerminal, R!sideVars
  <2>2. 0 \in 0 .. waits
    BY <1>1 DEF GateTypes, ReviewSane
  <2> QED  BY <1>1, <1>2, <2>1, <2>2, QuietGate DEF GateTypes, GateWaits
<1>5. CASE R!Subscribed
  <2>1. /\ waiting # 0 /\ subscribed' = TRUE /\ lists' = lists
        /\ UNCHANGED <<sends, sent, waiting, inbox, popped, prompt, decided, waits, rlOpen>>
    BY <1>5 DEF R!Subscribed, R!sideVars, R!Nobody
  <2> QED  BY <1>1, <1>2, <2>1, QuietGate DEF GateTypes, GateWaits
<1>6. CASE R!Pop \/ R!PopLost
  <2>1. /\ waiting # 0 /\ lists[waiting] # <<>> /\ popped' \in {popped, Head(lists[waiting])}
        /\ lists' = [lists EXCEPT ![waiting] = Tail(@)]
        /\ UNCHANGED <<sends, sent, waiting, subscribed, inbox, prompt, decided, waits, rlOpen>>
    BY <1>6 DEF R!Pop, R!PopLost, R!TakeOldest, R!Nobody
  <2>2. waiting \in R!Review
    BY <1>1, <2>1 DEF GateTypes
  <2>3. /\ OnItsList' /\ lists' \in [R!Review -> Seq(R!Send)]
        /\ popped' \in R!Send \cup {0}
        /\ popped' # 0 => popped' <= sent /\ sends[popped'].task = waiting
    BY <1>1, <2>1, <2>2, ShorterList DEF GateTypes
  <2> QED  BY <1>1, <2>1, <2>3, QuietGate DEF GateTypes, GateWaits
<1>7. CASE R!SubscriptionLost
  <2>1. /\ subscribed' = FALSE /\ inbox' = <<>> /\ lists' = lists
        /\ UNCHANGED <<sends, sent, waiting, popped, prompt, decided, waits, rlOpen>>
    BY <1>7 DEF R!SubscriptionLost, R!sideVars
  <2>2. <<>> \in Seq(R!Send) /\ \A i \in DOMAIN <<>> : FALSE
    OBVIOUS
  <2> QED  BY <1>1, <1>2, <2>1, <2>2, QuietGate DEF GateTypes, GateWaits
<1> QED  BY <1>3, <1>4, <1>5, <1>6, <1>7

LEMMA DecidingKeepsTheGate ==
    ASSUME ReviewSane, ReviewGateInv,
           R!HandlePopped \/ R!HandleMessage \/ \E d \in R!Decision : R!Answer(d)
    PROVE  ReviewGateInv' /\ (GateWaits \/ WaitEnds) /\ UNCHANGED <<sends, sent>>
<1>1. /\ GateTypes /\ OnItsList
      /\ \A i \in DOMAIN inbox : inbox[i] <= sent
      /\ subscribed \/ inbox # <<>> => waiting # 0
      /\ popped # 0 => waiting # 0 /\ popped <= sent /\ sends[popped].task = waiting
      /\ waiting # 0 => waits > 0
  BY DEF ReviewGateInv
<1>2. UNCHANGED <<sends, sent, lists, waits, rlOpen>>
  BY DEF R!HandlePopped, R!HandleMessage, R!Answer, R!sideVars
<1>3. OnItsList' /\ lists' \in [R!Review -> Seq(R!Send)]
  BY <1>1, <1>2 DEF OnItsList, GateTypes
<1>4. ASSUME NEW s \in R!Send, s <= sent, sends[s].task = waiting, waiting # 0,
             R!Finish(sends[s].decision, s)
      PROVE  ReviewGateInv' /\ WaitEnds
  <2>1. sends[s].decision \in R!Decision \cup {"none"} /\ s # 0
    <3>1. sends[s] \in SendRecord
      BY <1>1 DEF GateTypes
    <3>2. s # 0
      BY DEF R!Send
    <3> QED  BY <3>1, <3>2 DEF SendRecord
  <2>2. /\ ReviewGateInv' /\ waiting' = 0 /\ waits \in 1 .. MaxWaits
        /\ decided' = [decided EXCEPT ![waits] =
                          [task |-> waiting, decision |-> sends[s].decision, by |-> s]]
    BY <1>2, <1>4, <2>1, FinishKeeps
  <2>3. [task |-> waiting, decision |-> sends[s].decision, by |-> s] \in Ending
    BY <1>1, <2>1 DEF Ending, GateTypes
  <2>4. [task |-> waiting, decision |-> sends[s].decision, by |-> s].task = waiting
    OBVIOUS
  <2> QED  BY <1>2, <1>4, <2>2, <2>3, <2>4 DEF WaitEnds
<1>5. CASE R!HandlePopped
  <2>1. popped \in R!Send /\ popped # 0 /\ R!Finish(sends[popped].decision, popped)
    BY <1>1, <1>5 DEF R!HandlePopped, R!Nobody, GateTypes
  <2> QED  BY <1>1, <1>2, <1>4, <2>1
<1>6. CASE R!HandleMessage
  <2> DEFINE s == Head(inbox)
  <2>1. inbox # <<>> /\ inbox \in Seq(R!Send)
    BY <1>1, <1>6 DEF R!HandleMessage, GateTypes
  <2>2. /\ s \in R!Send /\ s = inbox[1] /\ 1 \in DOMAIN inbox
        /\ Tail(inbox) \in Seq(R!Send)
        /\ \A i \in DOMAIN Tail(inbox) : i + 1 \in DOMAIN inbox /\ Tail(inbox)[i] = inbox[i + 1]
    BY <2>1
  <2>3. s <= sent /\ waiting # 0
    BY <1>1, <2>1, <2>2
  <2>4. IF sends[s].task = waiting
        THEN R!Finish(sends[s].decision, s)
        ELSE /\ inbox' = Tail(inbox)
             /\ UNCHANGED <<waiting, subscribed, popped, prompt, decided>>
    BY <1>6 DEF R!HandleMessage
  <2> HIDE DEF s
  <2>5. CASE sends[s].task = waiting
    BY <1>2, <1>4, <2>2, <2>3, <2>4, <2>5
  <2>6. CASE sends[s].task # waiting
    <3>1. /\ inbox' = Tail(inbox) /\ UNCHANGED <<waiting, subscribed, popped, prompt, decided>>
      BY <2>4, <2>6
    <3>2. \A i \in DOMAIN inbox' : inbox'[i] <= sent
      BY <1>1, <2>2, <3>1
    <3>3. ReviewGateInv'
      BY <1>1, <1>2, <1>3, <2>2, <2>3, <3>1, <3>2, QuietGate DEF GateTypes
    <3> QED  BY <1>2, <3>1, <3>3 DEF GateWaits
  <2> QED  BY <2>5, <2>6
<1>7. ASSUME NEW d \in R!Decision, R!Answer(d)
      PROVE  ReviewGateInv' /\ (GateWaits \/ WaitEnds)
  <2>1. CASE waiting # 0 /\ prompt = waits
    <3>1. R!Finish(d, 0)
      BY <1>7, <2>1 DEF R!Answer, R!Nobody
    <3>2. /\ ReviewGateInv' /\ waiting' = 0 /\ waits \in 1 .. MaxWaits
          /\ decided' = [decided EXCEPT ![waits] =
                            [task |-> waiting, decision |-> d, by |-> 0]]
      BY <1>2, <2>1, <3>1, FinishKeeps
    <3>3. [task |-> waiting, decision |-> d, by |-> 0] \in Ending
      BY <1>1 DEF Ending, GateTypes
    <3>4. [task |-> waiting, decision |-> d, by |-> 0].task = waiting
      OBVIOUS
    <3> QED  BY <1>2, <2>1, <3>2, <3>3, <3>4 DEF WaitEnds
  <2>2. CASE ~(waiting # 0 /\ prompt = waits)
    <3>1. prompt' = 0 /\ UNCHANGED <<waiting, subscribed, inbox, popped, decided>>
      BY <1>7, <2>2 DEF R!Answer, R!Nobody
    <3>2. 0 \in 0 .. waits
      BY <1>1 DEF GateTypes, ReviewSane
    <3>3. ReviewGateInv'
      BY <1>1, <1>2, <1>3, <3>1, <3>2, QuietGate DEF GateTypes
    <3> QED  BY <1>2, <3>1, <3>3 DEF GateWaits
  <2> QED  BY <2>1, <2>2
<1> QED  BY <1>2, <1>5, <1>6, <1>7

\* A wait for a review task begins.
LEMMA StartKeepsTheGate ==
    ASSUME ReviewSane, ReviewGateInv, NEW t \in R!Review, R!StartWait(t)
    PROVE  /\ ReviewGateInv' /\ waiting' = t /\ waits' = waits + 1 /\ decided' = decided
           /\ waiting = 0 /\ waits \in Nat
<1>1. /\ waiting = 0 /\ waits < MaxWaits /\ waits' = waits + 1 /\ waiting' = t
      /\ prompt' = (IF rlOpen /\ prompt = 0 THEN waits + 1 ELSE prompt)
      /\ UNCHANGED <<subscribed, inbox, popped, decided, sends, sent, lists, rlOpen>>
  BY DEF R!StartWait, R!sideVars, R!Nobody
<1>2. /\ GateTypes /\ OnItsList
      /\ \A i \in DOMAIN inbox : inbox[i] <= sent
      /\ ~subscribed /\ inbox = <<>> /\ popped = 0
  BY <1>1 DEF ReviewGateInv
<1>3. waits \in Nat /\ waits + 1 \in 0 .. MaxWaits /\ waits + 1 > 0 /\ t # 0
  BY <1>1, <1>2 DEF GateTypes, ReviewSane, R!Review
<1>4. prompt' \in 0 .. waits'
  BY <1>1, <1>2, <1>3 DEF GateTypes
<1>5. OnItsList' /\ lists' \in [R!Review -> Seq(R!Send)]
  BY <1>1, <1>2 DEF OnItsList, GateTypes
<1>6. ReviewGateInv'
  BY <1>1, <1>2, <1>3, <1>4, <1>5, QuietGate DEF GateTypes
<1> QED  BY <1>1, <1>3, <1>6

\* The process is gone, with the wait.
LEMMA CrashKeepsTheGate ==
    ASSUME ReviewSane, ReviewGateInv, R!Settle, prompt' = 0,
           UNCHANGED <<decided, sends, sent, lists, waits, rlOpen>>
    PROVE  ReviewGateInv' /\ waiting' = 0
<1>1. waiting' = 0 /\ subscribed' = FALSE /\ inbox' = <<>> /\ popped' = 0
  BY DEF R!Settle, R!Nobody
<1>2. GateTypes /\ OnItsList
  BY DEF ReviewGateInv
<1>3. OnItsList' /\ lists' \in [R!Review -> Seq(R!Send)]
  BY <1>2 DEF OnItsList, GateTypes
<1>4. 0 \in 0 .. waits /\ <<>> \in Seq(R!Send) /\ \A i \in DOMAIN <<>> : FALSE
  BY <1>2 DEF GateTypes, ReviewSane
<1>5. ReviewGateInv'
  BY <1>1, <1>2, <1>3, <1>4, QuietGate DEF GateTypes
<1> QED  BY <1>1, <1>5

-----------------------------------------------------------------------------
(* ReviewRun: the run.                                                     *)

ReviewStatus == {"none", "AWAITING", "DOING", "DONE", "BLOCKED", "STOPPED"}

RunTypes ==
    /\ example \in {"blog", "research"} /\ phase \in R!Phase
    /\ steps \in 0 .. Steps /\ tasks \in 0 .. MaxReviews
    /\ editTask \in 0 .. tasks /\ draftTask \in 0 .. tasks /\ pending \in 0 .. tasks
    /\ wf \in {"none", "RUNNING", "FINISHED", "STOPPED"}
    /\ reviewCard \in [R!Review -> ReviewStatus]
    /\ processes \in 0 .. MaxProcesses /\ resumed \in BOOLEAN

Under == phase \in {"working", "review", "decision", "revising"}

\* A wait is about the draft at hand, and a finished run about the draft published.
RoundInv ==
    /\ waiting # 0 => phase \in {"review", "decision"}
    /\ phase \in {"review", "decision"} =>
          /\ waits \in 1 .. MaxWaits /\ draftTask # 0
          /\ waiting = 0 => decided[waits].task = draftTask
          /\ waiting # 0 => waiting = draftTask
    /\ Under => wf = "RUNNING"
    /\ phase \in {"clearing", "wiping"} => wf \in {"FINISHED", "STOPPED"}
    /\ wf = "FINISHED" =>
          \E w \in 1 .. waits : decided[w].decision = "PUBLISH" /\ decided[w].task = draftTask
    /\ steps = Steps => editTask # 0

NoneAwaits == \A t \in R!Review : reviewCard[t] # "AWAITING"

\* A card that awaits a decision is the pending review's; none is left over from a run
\* whose board is not cleared.
CardsInv ==
    /\ wf \in {"none", "RUNNING"} /\ steps # Steps => NoneAwaits
    /\ phase = "review" => draftTask = editTask
    /\ phase \in {"review", "revising", "decision"} => steps = Steps
    /\ ~resumed =>
          /\ phase \in {"ended", "clearing", "wiping", "revising"} => NoneAwaits
          /\ Under => \A t \in R!Review : reviewCard[t] = "AWAITING" => t = pending
          /\ phase \in {"review", "decision"} => pending = draftTask
          /\ phase = "working" /\ steps = Steps /\ example = "research" => pending = editTask
          /\ phase = "working" /\ example # "research" => NoneAwaits

ReviewRunInv == ReviewGateInv /\ RunTypes /\ RoundInv /\ CardsInv

LEMMA ShownOne ==
    ASSUME RunTypes, NEW t, NEW c \in ReviewStatus, reviewCard' = R!Shows(R!One(t, c))
    PROVE  /\ reviewCard' \in [R!Review -> ReviewStatus]
           /\ \A u \in R!Review : reviewCard'[u] = IF u = t THEN c ELSE reviewCard[u]
BY DEF R!Shows, R!One, RunTypes

\* Both cards of a decision get the status; no other one changes.
LEMMA ShownWithEdit ==
    ASSUME RunTypes, NEW t, NEW c \in ReviewStatus, reviewCard' = R!Shows(R!WithEdit(t, c))
    PROVE  /\ reviewCard' \in [R!Review -> ReviewStatus]
           /\ \A u \in R!Review : /\ u = t => reviewCard'[u] = c
                                  /\ u # t => reviewCard'[u] \in {c, reviewCard[u]}
BY DEF R!Shows, R!One, R!WithEdit, RunTypes

LEMMA RunStart ==
    ASSUME ReviewSane
    PROVE  R!Init => ReviewRunInv
<1> SUFFICES ASSUME R!Init PROVE ReviewRunInv
  OBVIOUS
<1>1. <<>> \in Seq(R!Send) /\ \A i \in DOMAIN <<>> : FALSE
  OBVIOUS
<1>2. /\ sends = [s \in R!Send |-> [task |-> 0, decision |-> "none", step |-> "none", wait |-> 0]]
      /\ sent = 0 /\ lists = [t \in R!Review |-> <<>>] /\ waiting = 0 /\ waits = 0
      /\ subscribed = FALSE /\ inbox = <<>> /\ popped = 0 /\ rlOpen \in BOOLEAN /\ prompt = 0
      /\ decided = [w \in 1 .. MaxWaits |-> [task |-> 0, decision |-> "none", by |-> 0]]
  BY DEF R!Init, R!ReviewInit, R!Nobody, R!Undecided
<1>3. [task |-> 0, decision |-> "none", step |-> "none", wait |-> 0] \in SendRecord
  BY DEF SendRecord, ReviewSane
<1>4. [task |-> 0, decision |-> "none", by |-> 0] \in Ending
  BY DEF Ending
<1>5. GateTypes
  <2>1. sends \in [R!Send -> SendRecord] /\ decided \in [1 .. MaxWaits -> Ending]
    BY <1>2, <1>3, <1>4
  <2>2. lists \in [R!Review -> Seq(R!Send)] /\ inbox \in Seq(R!Send)
    BY <1>1, <1>2
  <2>3. 0 \in 0 .. MaxSends /\ 0 \in 0 .. MaxWaits /\ 0 \in 0 .. 0
    BY DEF ReviewSane
  <2> QED  BY <1>2, <2>1, <2>2, <2>3 DEF GateTypes
<1>6. \A s \in R!Send : sends[s].step = "none" /\ ~(s <= sent)
  BY <1>2 DEF R!Send, ReviewSane
<1>7. OnItsList /\ \A i \in DOMAIN inbox : inbox[i] <= sent
  BY <1>1, <1>2 DEF OnItsList
<1>8. DecidedBySends
  BY <1>2 DEF DecidedBySends
<1>9. ReviewGateInv
  BY <1>2, <1>5, <1>6, <1>7, <1>8 DEF ReviewGateInv
<1>10. /\ example \in {"blog", "research"} /\ phase = "off" /\ steps = 0 /\ tasks = 0
       /\ editTask = 0 /\ draftTask = 0 /\ pending = 0 /\ wf = "none" /\ processes = 0
       /\ resumed = FALSE /\ reviewCard = [t \in R!Review |-> "none"]
  BY DEF R!Init, R!Nobody
<1>11. RunTypes
  <2>1. reviewCard \in [R!Review -> ReviewStatus]
    BY <1>10 DEF ReviewStatus
  <2>2. 0 \in 0 .. Steps /\ 0 \in 0 .. MaxReviews /\ 0 \in 0 .. MaxProcesses /\ 0 \in 0 .. 0
    BY DEF ReviewSane
  <2> QED  BY <1>10, <2>1, <2>2 DEF RunTypes, R!Phase
<1>12. RoundInv
  BY <1>2, <1>10 DEF RoundInv, Under, ReviewSane
<1>13. CardsInv
  BY <1>10 DEF CardsInv, Under, NoneAwaits
<1> QED  BY <1>9, <1>11, <1>12, <1>13 DEF ReviewRunInv

\* A step of the run that leaves the gate alone.
LEMMA GateStays ==
    ASSUME ReviewGateInv, UNCHANGED R!reviewVars
    PROVE  /\ ReviewGateInv'
           /\ UNCHANGED <<sends, sent, lists, waiting, waits, subscribed, inbox, popped,
                          rlOpen, prompt, decided>>
<1>1. UNCHANGED <<sends, sent, lists, waiting, waits, subscribed, inbox, popped,
                  rlOpen, prompt, decided>>
  BY DEF R!reviewVars, R!gateVars, R!sideVars
<1> QED  BY <1>1 DEF ReviewGateInv, GateTypes, OnItsList, DecidedBySends

LEMMA WorkingKeeps ==
    ASSUME ReviewSane, ReviewRunInv,
           R!StartRun \/ R!PhaseDone \/ R!EditorialDone \/ R!GovernanceRejects \/ R!Exit
    PROVE  ReviewRunInv'
<1>1. ReviewGateInv' /\ UNCHANGED <<waiting, waits, decided>>
  BY GateStays DEF R!StartRun, R!PhaseDone, R!EditorialDone, R!GovernanceRejects, R!Exit,
     ReviewRunInv
<1>2. CASE R!StartRun
  <2>1. RunTypes'
    BY <1>2 DEF R!StartRun, ReviewRunInv, RunTypes, ReviewStatus, R!Phase, ReviewSane
  <2>2. RoundInv'
    BY <1>1, <1>2 DEF R!StartRun, ReviewRunInv, RunTypes, RoundInv, Under
  <2>3. CardsInv'
    <3>1. /\ phase = "off" /\ phase' = "working" /\ wf' = "RUNNING" /\ steps' = steps
          /\ wf \in {"FINISHED", "STOPPED"} => reviewCard' = [t \in R!Review |-> "none"]
          /\ wf \notin {"FINISHED", "STOPPED"} => reviewCard' = reviewCard
          /\ resumed' = (steps > 0)
      BY <1>2 DEF R!StartRun
    <3>2. steps # Steps => NoneAwaits'
      BY <3>1 DEF ReviewRunInv, RunTypes, CardsInv, NoneAwaits
    <3>3. ~resumed' => steps # Steps
      <4>1. Steps > 0
        BY DEF ReviewSane
      <4>2. steps = Steps => (steps > 0) = TRUE
        BY <4>1
      <4> QED  BY <3>1, <4>2
    <3> QED  BY <3>1, <3>2, <3>3 DEF CardsInv, NoneAwaits, Under
  <2> QED  BY <1>1, <2>1, <2>2, <2>3 DEF ReviewRunInv
<1>3. CASE R!PhaseDone
  <2>1. RunTypes'
    BY <1>3 DEF R!PhaseDone, ReviewRunInv, RunTypes, ReviewSane
  <2>2. RoundInv'
    BY <1>1, <1>3 DEF R!PhaseDone, ReviewRunInv, RunTypes, RoundInv, Under, ReviewSane
  <2>3. CardsInv'
    BY <1>3
    DEF R!PhaseDone, ReviewRunInv, RunTypes, CardsInv, NoneAwaits, Under, ReviewSane,
                RoundInv
  <2> QED  BY <1>1, <2>1, <2>2, <2>3 DEF ReviewRunInv
<1>4. CASE R!EditorialDone
  <2>1. /\ phase = "working" /\ steps # Steps /\ tasks < MaxReviews /\ tasks' = tasks + 1
        /\ steps' = Steps /\ editTask' = tasks + 1
        /\ UNCHANGED <<example, phase, draftTask, wf, processes, resumed>>
    BY <1>4 DEF R!EditorialDone, ReviewSane
  <2>2. \/ /\ example = "research" /\ pending' = tasks + 1
           /\ reviewCard' = R!Shows(R!One(tasks + 1, "AWAITING"))
        \/ example # "research" /\ UNCHANGED <<pending, reviewCard>>
    BY <1>4 DEF R!EditorialDone, R!Awaiting
  <2>3. /\ reviewCard' \in [R!Review -> ReviewStatus]
        /\ \A u \in R!Review : reviewCard'[u] = "AWAITING" =>
              reviewCard[u] = "AWAITING" \/ (example = "research" /\ u = tasks + 1)
    <3>1. "AWAITING" \in ReviewStatus
      BY DEF ReviewStatus
    <3> QED  BY <2>2, <3>1, ShownOne DEF ReviewRunInv, RunTypes
  <2>4. RunTypes'
    BY <2>1, <2>2, <2>3 DEF ReviewRunInv, RunTypes, ReviewSane
  <2>5. RoundInv'
    BY <1>1, <2>1 DEF ReviewRunInv, RunTypes, RoundInv, Under, ReviewSane
  <2>6. NoneAwaits /\ wf = "RUNNING"
    BY <2>1 DEF ReviewRunInv, CardsInv, RoundInv, Under
  <2>7. CardsInv'
    BY <2>1, <2>2, <2>3, <2>6 DEF CardsInv, NoneAwaits, Under
  <2> QED  BY <1>1, <2>4, <2>5, <2>7 DEF ReviewRunInv
<1>5. CASE R!GovernanceRejects
  <2>1. /\ phase = "working" /\ steps # Steps /\ phase' = "clearing" /\ wf' = "STOPPED"
        /\ UNCHANGED <<example, steps, tasks, editTask, draftTask, pending, processes, resumed>>
    BY <1>5 DEF R!GovernanceRejects, R!NotPublished, ReviewSane
  <2>2. reviewCard' = reviewCard
    <3>1. DOMAIN [x \in {} |-> "none"] = {}
      OBVIOUS
    <3>2. reviewCard' = R!Shows([x \in {} |-> "none"])
      BY <1>5 DEF R!GovernanceRejects, R!NotPublished
    <3> QED  BY <3>1, <3>2 DEF R!Shows, ReviewRunInv, RunTypes
  <2>3. RunTypes'
    BY <2>1, <2>2 DEF ReviewRunInv, RunTypes, ReviewSane, R!Phase
  <2>4. RoundInv'
    BY <1>1, <2>1 DEF ReviewRunInv, RoundInv, Under, ReviewSane
  <2>5. NoneAwaits
    BY <2>1 DEF ReviewRunInv, CardsInv, RoundInv, Under
  <2>6. CardsInv'
    BY <2>1, <2>2, <2>5 DEF CardsInv, NoneAwaits, Under
  <2> QED  BY <1>1, <2>3, <2>4, <2>6 DEF ReviewRunInv
<1>6. CASE R!Exit
  <2>1. RunTypes'
    BY <1>6 DEF R!Exit, ReviewRunInv, RunTypes, R!Phase, R!Nobody
  <2>2. RoundInv'
    BY <1>1, <1>6 DEF R!Exit, ReviewRunInv, RoundInv, Under
  <2>3. CardsInv'
    BY <1>6 DEF R!Exit, ReviewRunInv, CardsInv, NoneAwaits, Under
  <2> QED  BY <1>1, <2>1, <2>2, <2>3 DEF ReviewRunInv
<1> QED  BY <1>2, <1>3, <1>4, <1>5, <1>6

\* A review begins, of the edited draft or of the revised one.
LEMMA ReviewingKeeps ==
    ASSUME ReviewSane, ReviewRunInv, R!BeginReview \/ R!RevisionDone
    PROVE  ReviewRunInv'
<1>1. CASE R!BeginReview
  <2>1. /\ phase = "working" /\ steps = Steps /\ phase' = "review" /\ draftTask' = editTask
        /\ R!StartWait(editTask)
        /\ UNCHANGED <<example, steps, tasks, editTask, wf, processes, resumed>>
    BY <1>1 DEF R!BeginReview
  <2>2. editTask \in R!Review /\ editTask # 0 /\ wf = "RUNNING"
    BY <2>1 DEF ReviewRunInv, RunTypes, RoundInv, Under, R!Review, ReviewSane
  <2>3. /\ ReviewGateInv' /\ waiting' = editTask /\ waits' = waits + 1 /\ waits \in Nat
    BY <2>1, <2>2, StartKeepsTheGate DEF ReviewRunInv
  <2>4. \/ /\ example = "blog" /\ pending' = editTask
           /\ reviewCard' = R!Shows(R!One(editTask, "AWAITING"))
        \/ example # "blog" /\ UNCHANGED <<pending, reviewCard>>
    BY <1>1 DEF R!BeginReview, R!Awaiting
  <2>5. /\ reviewCard' \in [R!Review -> ReviewStatus]
        /\ \A u \in R!Review : reviewCard'[u] = "AWAITING" =>
              reviewCard[u] = "AWAITING" \/ u = editTask
    <3>1. "AWAITING" \in ReviewStatus
      BY DEF ReviewStatus
    <3> QED  BY <2>4, <3>1, ShownOne DEF ReviewRunInv, RunTypes
  <2>6. RunTypes'
    BY <2>1, <2>4, <2>5 DEF ReviewRunInv, RunTypes, R!Phase
  <2>7. waits' \in 1 .. MaxWaits
    BY <2>3 DEF ReviewGateInv, GateTypes, ReviewSane
  <2>8. RoundInv'
    BY <2>1, <2>2, <2>3, <2>7 DEF RoundInv, Under
  <2>9. CardsInv'
    BY <2>1, <2>2, <2>4, <2>5 DEF ReviewRunInv, RunTypes, CardsInv, NoneAwaits, Under
  <2> QED  BY <2>3, <2>6, <2>8, <2>9 DEF ReviewRunInv
<1>2. CASE R!RevisionDone
  <2>1. /\ phase = "revising" /\ tasks < MaxReviews /\ tasks' = tasks + 1
        /\ draftTask' = tasks + 1 /\ phase' = "decision" /\ pending' = tasks + 1
        /\ reviewCard' = R!Shows(R!One(tasks + 1, "AWAITING"))
        /\ R!StartWait(tasks + 1)
        /\ UNCHANGED <<example, steps, editTask, wf, processes, resumed>>
    BY <1>2 DEF R!RevisionDone, R!Awaiting
  <2>2. tasks \in Nat /\ tasks + 1 \in R!Review /\ tasks + 1 # 0 /\ wf = "RUNNING"
    BY <2>1 DEF ReviewRunInv, RunTypes, RoundInv, Under, R!Review, ReviewSane
  <2>3. /\ ReviewGateInv' /\ waiting' = tasks + 1 /\ waits' = waits + 1 /\ waits \in Nat
    BY <2>1, <2>2, StartKeepsTheGate DEF ReviewRunInv
  <2>4. /\ reviewCard' \in [R!Review -> ReviewStatus]
        /\ \A u \in R!Review : reviewCard'[u] = "AWAITING" =>
              reviewCard[u] = "AWAITING" \/ u = tasks + 1
    <3>1. "AWAITING" \in ReviewStatus
      BY DEF ReviewStatus
    <3> QED  BY <2>1, <3>1, ShownOne DEF ReviewRunInv
  <2>5. RunTypes'
    BY <2>1, <2>2, <2>4 DEF ReviewRunInv, RunTypes, R!Phase, ReviewSane
  <2>6. waits' \in 1 .. MaxWaits
    BY <2>3 DEF ReviewGateInv, GateTypes, ReviewSane
  <2>7. RoundInv'
    BY <2>1, <2>2, <2>3, <2>6 DEF ReviewRunInv, RoundInv, Under
  <2>8. CardsInv'
    BY <2>1, <2>4 DEF ReviewRunInv, CardsInv, NoneAwaits, Under
  <2> QED  BY <2>3, <2>5, <2>7, <2>8 DEF ReviewRunInv
<1> QED  BY <1>1, <1>2

LEMMA DecisionKeeps ==
    ASSUME ReviewSane, ReviewRunInv, R!DecisionTaken
    PROVE  ReviewRunInv'
<1>1. /\ ReviewGateInv' /\ UNCHANGED <<waiting, waits, decided>>
      /\ UNCHANGED <<example, tasks, draftTask, pending, processes, resumed>>
      /\ phase \in {"review", "decision"} /\ waiting = 0
  BY GateStays DEF R!DecisionTaken, ReviewRunInv, R!Nobody
<1>2. /\ waits \in 1 .. MaxWaits /\ waits \in 1 .. waits /\ decided[waits].task = draftTask
      /\ wf = "RUNNING"
  BY <1>1 DEF ReviewRunInv, RoundInv, Under, ReviewSane
<1>3. draftTask \in R!Review
  BY <1>1 DEF ReviewRunInv, RunTypes, RoundInv, R!Review, ReviewSane
<1>4. /\ phase = "review" => draftTask = editTask
      /\ ~resumed => /\ \A t \in R!Review : reviewCard[t] = "AWAITING" => t = pending
                     /\ pending = draftTask
  BY <1>1 DEF ReviewRunInv, CardsInv, Under
<1>5. CASE decided[waits].decision = "PUBLISH" /\ R!Finished(R!WithEdit(draftTask, "DONE"))
  <2>1. /\ phase' = "clearing" /\ wf' = "FINISHED" /\ UNCHANGED <<steps, editTask>>
        /\ reviewCard' = R!Shows(R!WithEdit(draftTask, "DONE"))
    BY <1>5 DEF R!Finished
  <2>2. /\ reviewCard' \in [R!Review -> ReviewStatus]
        /\ \A u \in R!Review : /\ u = draftTask => reviewCard'[u] = "DONE"
                               /\ u # draftTask => reviewCard'[u] \in {"DONE", reviewCard[u]}
    <3>1. "DONE" \in ReviewStatus
      BY DEF ReviewStatus
    <3> QED  BY <2>1, <3>1, ShownWithEdit DEF ReviewRunInv
  <2>3. RunTypes'
    BY <1>1, <2>1, <2>2 DEF ReviewRunInv, RunTypes, R!Phase, ReviewSane
  <2>4. RoundInv'
    BY <1>1, <1>2, <1>5, <2>1 DEF ReviewRunInv, RoundInv, Under, ReviewSane
  <2>5. ~resumed => NoneAwaits'
    BY <1>4, <2>2 DEF NoneAwaits
  <2>6. CardsInv'
    BY <1>1, <2>1, <2>5 DEF CardsInv, Under
  <2> QED  BY <1>1, <2>3, <2>4, <2>6 DEF ReviewRunInv
<1>6. CASE R!NotPublished(R!WithEdit(draftTask, "BLOCKED"))
  <2>1. /\ phase' = "clearing" /\ wf' = "STOPPED" /\ UNCHANGED <<steps, editTask>>
        /\ reviewCard' = R!Shows(R!WithEdit(draftTask, "BLOCKED"))
    BY <1>6 DEF R!NotPublished
  <2>2. /\ reviewCard' \in [R!Review -> ReviewStatus]
        /\ \A u \in R!Review : /\ u = draftTask => reviewCard'[u] = "BLOCKED"
                               /\ u # draftTask => reviewCard'[u] \in {"BLOCKED", reviewCard[u]}
    <3>1. "BLOCKED" \in ReviewStatus
      BY DEF ReviewStatus
    <3> QED  BY <2>1, <3>1, ShownWithEdit DEF ReviewRunInv
  <2>3. RunTypes'
    BY <1>1, <2>1, <2>2 DEF ReviewRunInv, RunTypes, R!Phase, ReviewSane
  <2>4. RoundInv'
    BY <1>1, <2>1 DEF ReviewRunInv, RoundInv, Under, ReviewSane
  <2>5. ~resumed => NoneAwaits'
    BY <1>4, <2>2 DEF NoneAwaits
  <2>6. CardsInv'
    BY <1>1, <2>1, <2>5 DEF CardsInv, Under
  <2> QED  BY <1>1, <2>3, <2>4, <2>6 DEF ReviewRunInv
<1>7. ASSUME phase = "review", phase' = "revising", NEW c \in {"DOING", "DONE"},
             reviewCard' = R!Shows(R!One(editTask, c)), UNCHANGED <<wf, steps, editTask>>
      PROVE  ReviewRunInv'
  <2>1. /\ reviewCard' \in [R!Review -> ReviewStatus]
        /\ \A u \in R!Review : reviewCard'[u] = IF u = editTask THEN c ELSE reviewCard[u]
    <3>1. c \in ReviewStatus
      BY DEF ReviewStatus
    <3> QED  BY <1>7, <3>1, ShownOne DEF ReviewRunInv
  <2>2. RunTypes'
    BY <1>1, <1>7, <2>1 DEF ReviewRunInv, RunTypes, R!Phase
  <2>3. RoundInv'
    BY <1>1, <1>2, <1>7 DEF ReviewRunInv, RoundInv, Under
  <2>4. ~resumed => NoneAwaits'
    BY <1>4, <1>7, <2>1 DEF NoneAwaits
  <2>5. steps = Steps
    BY <1>7 DEF ReviewRunInv, CardsInv
  <2>6. CardsInv'
    BY <1>1, <1>2, <1>7, <2>4, <2>5 DEF CardsInv, NoneAwaits, Under
  <2> QED  BY <1>1, <2>2, <2>3, <2>6 DEF ReviewRunInv
<1> QED  BY <1>5, <1>6, <1>7 DEF R!DecisionTaken, R!Outcome

\* The way out for a stop, the budget and every other error.
LEMMA FailingShows ==
    ASSUME ReviewSane, ReviewRunInv, NEW why, Under \/ phase = "clearing",
           R!EndFailedRun(why),
           UNCHANGED <<steps, editTask>> \/ (steps' = 0 /\ editTask' = 0),
           UNCHANGED <<example, tasks, draftTask, processes, resumed, waits>>,
           waiting' = 0
    PROVE  RunTypes' /\ RoundInv' /\ CardsInv'
<1>1. /\ phase' \in {"ended", "wiping"} /\ wf' = "STOPPED" /\ pending' = 0
      /\ reviewCard' = (IF pending = 0 THEN reviewCard ELSE R!Shows(R!One(pending, "STOPPED")))
      /\ UNCHANGED <<steps, editTask>> \/ (steps' = 0 /\ editTask' = 0)
  BY DEF R!EndFailedRun, R!ReviewStopped, R!Nobody
<1>2. /\ reviewCard' \in [R!Review -> ReviewStatus]
      /\ \A u \in R!Review :
            reviewCard'[u] = IF u = pending /\ pending # 0 THEN "STOPPED" ELSE reviewCard[u]
  <2>1. "STOPPED" \in ReviewStatus
    BY DEF ReviewStatus
  <2> QED  BY <1>1, <2>1, ShownOne DEF ReviewRunInv, RunTypes
<1>3. RunTypes'
  BY <1>1, <1>2 DEF ReviewRunInv, RunTypes, R!Phase, ReviewSane
<1>4. RoundInv'
  BY <1>1 DEF ReviewRunInv, RoundInv, Under, ReviewSane
<1>5. \A u \in R!Review : u # 0
  BY DEF R!Review
<1>6. ~resumed => NoneAwaits'
  BY <1>2, <1>5 DEF ReviewRunInv, CardsInv, NoneAwaits, Under
<1>7. CardsInv'
  BY <1>1, <1>6 DEF CardsInv, Under
<1> QED  BY <1>3, <1>4, <1>7

LEMMA EndingKeeps ==
    ASSUME ReviewSane, ReviewRunInv,
           R!StopAll \/ R!Crash \/ \E why \in {"budget", "failed"} : R!PhaseFails(why)
    PROVE  ReviewRunInv'
<1>1. waiting # 0 => Under
  BY DEF ReviewRunInv, RoundInv, Under
<1>2. ASSUME NEW why \in {"budget", "failed"}, R!PhaseFails(why) PROVE ReviewRunInv'
  <2>1. /\ ReviewGateInv' /\ UNCHANGED <<waiting, waits>> /\ Under /\ waiting = 0
        /\ R!EndFailedRun(why)
        /\ UNCHANGED <<example, steps, tasks, editTask, draftTask, processes, resumed>>
    BY <1>2, GateStays DEF R!PhaseFails, ReviewRunInv, RoundInv, Under
  <2> QED  BY <2>1, FailingShows DEF ReviewRunInv
<1>3. CASE R!StopAll
  <2>1. /\ Under /\ R!EndFailedRun("stop")
        /\ UNCHANGED <<example, steps, tasks, editTask, draftTask, processes, resumed, waits>>
        /\ UNCHANGED <<sends, sent, lists, rlOpen>>
    BY <1>1, <1>3 DEF R!StopAll, R!sideVars, R!Nobody, Under
  <2>2. ReviewGateInv' /\ waiting' = 0
    <3>1. CASE waiting # 0
      <4>1. R!Finish("aborted", 0)
        BY <1>3, <3>1 DEF R!StopAll, R!Nobody
      <4> QED  BY <2>1, <3>1, <4>1, FinishKeeps DEF ReviewRunInv
    <3>2. CASE waiting = 0
      <4>1. UNCHANGED R!reviewVars
        BY <1>3, <2>1, <3>2 DEF R!StopAll, R!reviewVars, R!sideVars, R!Nobody
      <4> QED  BY <3>2, <4>1, GateStays DEF ReviewRunInv
    <3> QED  BY <3>1, <3>2
  <2> QED  BY <2>1, <2>2, FailingShows DEF ReviewRunInv
<1>4. CASE R!Crash
  <2>1. /\ phase' = "off" /\ pending' = 0 /\ R!Settle /\ prompt' = 0
        /\ UNCHANGED <<example, steps, tasks, editTask, draftTask, wf, reviewCard, processes,
                       resumed, decided, sends, sent, lists, waits, rlOpen>>
    BY <1>4 DEF R!Crash, R!sideVars, R!Nobody
  <2>2. ReviewGateInv' /\ waiting' = 0
    BY <2>1, CrashKeepsTheGate DEF ReviewRunInv
  <2>3. RunTypes'
    BY <2>1 DEF ReviewRunInv, RunTypes, R!Phase
  <2>4. RoundInv'
    BY <2>1, <2>2 DEF ReviewRunInv, RoundInv, Under
  <2>5. CardsInv'
    BY <2>1 DEF ReviewRunInv, CardsInv, NoneAwaits, Under
  <2> QED  BY <2>2, <2>3, <2>4, <2>5 DEF ReviewRunInv
<1> QED  BY <1>2, <1>3, <1>4

\* The checkpoint is cleared, or clearing it fails.
LEMMA ClearingKeeps ==
    ASSUME ReviewSane, ReviewRunInv, R!Clear \/ R!ClearFails
    PROVE  ReviewRunInv'
<1>1. /\ ReviewGateInv' /\ UNCHANGED <<waiting, waits, decided>>
      /\ UNCHANGED <<example, tasks, draftTask, processes, resumed>>
      /\ phase \in {"clearing", "wiping"}
      /\ UNCHANGED <<steps, editTask>> \/ (steps' = 0 /\ editTask' = 0)
  BY GateStays DEF R!Clear, R!ClearFails, R!Cleared, R!Nobody, ReviewRunInv
<1>2. waiting = 0
  BY <1>1 DEF ReviewRunInv, RoundInv
<1>3. CASE phase' = "ended" /\ UNCHANGED <<pending, wf, reviewCard>>
  <2>1. RunTypes'
    BY <1>1, <1>3 DEF ReviewRunInv, RunTypes, R!Phase, ReviewSane
  <2>2. RoundInv'
    BY <1>1, <1>2, <1>3 DEF ReviewRunInv, RoundInv, Under, ReviewSane
  <2>3. wf \in {"none", "RUNNING"} /\ steps' # Steps => NoneAwaits
    BY <1>1 DEF ReviewRunInv, RoundInv
  <2>4. CardsInv'
    BY <1>1, <1>3, <2>3 DEF ReviewRunInv, CardsInv, NoneAwaits, Under
  <2> QED  BY <1>1, <2>1, <2>2, <2>4 DEF ReviewRunInv
<1>4. CASE phase = "clearing" /\ R!EndFailedRun("failed")
  BY <1>1, <1>2, <1>4, FailingShows DEF ReviewRunInv
<1> QED  BY <1>1, <1>3, <1>4 DEF R!Clear, R!ClearFails

LEMMA GateKeepsTheRun ==
    ASSUME ReviewSane, ReviewRunInv, R!Gate, UNCHANGED R!runVars
    PROVE  ReviewRunInv'
<1>1. UNCHANGED <<example, phase, steps, tasks, editTask, draftTask, pending, wf,
                  reviewCard, processes, resumed>>
  BY DEF R!runVars
<1>2. ReviewGateInv' /\ (GateWaits \/ WaitEnds)
  <2>1. ASSUME NEW s \in R!Send, R!Push(s) \/ R!PublishDecision(s) \/ R!ForwardFails(s)
        PROVE  ReviewGateInv' /\ GateWaits
    BY <2>1, BoardsKeepTheGate DEF ReviewRunInv, GateWaits
  <2>2. ASSUME NEW t \in R!Review, NEW d \in BoardChoice, R!BoardDecides(t, d)
        PROVE  ReviewGateInv' /\ GateWaits
    BY <2>2, BoardsKeepTheGate DEF ReviewRunInv, GateWaits
  <2>3. ASSUME \/ \E t \in R!Review : R!ListExpires(t)
               \/ R!CloseTerminal \/ R!Subscribed \/ R!SubscriptionLost
               \/ R!Pop \/ R!PopLost
        PROVE  ReviewGateInv' /\ GateWaits
    BY <2>3, ListeningKeepsTheGate DEF ReviewRunInv
  <2>4. ASSUME R!HandlePopped \/ R!HandleMessage \/ \E d \in R!Decision : R!Answer(d)
        PROVE  ReviewGateInv' /\ (GateWaits \/ WaitEnds)
    BY <2>4, DecidingKeepsTheGate DEF ReviewRunInv
  <2> QED  BY <2>1, <2>2, <2>3, <2>4 DEF R!Gate, R!BoardStep
<1>3. RunTypes' /\ CardsInv'
  BY <1>1 DEF ReviewRunInv, RunTypes, CardsInv, NoneAwaits, Under
<1>4. RoundInv'
  <2>1. CASE GateWaits
    BY <1>1, <2>1 DEF ReviewRunInv, RoundInv, Under, GateWaits
  <2>2. CASE WaitEnds
    <3>1. PICK e \in Ending :
              e.task = waiting /\ decided' = [decided EXCEPT ![waits] = e]
      BY <2>2 DEF WaitEnds
    <3>2. /\ waiting # 0 /\ waiting' = 0 /\ waits' = waits /\ waits \in 1 .. MaxWaits
          /\ decided'[waits].task = waiting
      BY <2>2, <3>1 DEF WaitEnds, ReviewRunInv, ReviewGateInv, GateTypes
    <3>3. phase \in {"review", "decision"} /\ waiting = draftTask /\ wf = "RUNNING"
      BY <3>2 DEF ReviewRunInv, RoundInv, Under
    <3> QED  BY <1>1, <3>2, <3>3 DEF ReviewRunInv, RoundInv, Under
  <2> QED  BY <1>2, <2>1, <2>2
<1> QED  BY <1>2, <1>3, <1>4 DEF ReviewRunInv

LEMMA ReviewRunStep ==
    ASSUME ReviewSane, ReviewRunInv, [R!Next]_(R!reviewRunVars)
    PROVE  ReviewRunInv'
<1>1. CASE UNCHANGED R!reviewRunVars
  <2>1. UNCHANGED R!reviewVars /\ UNCHANGED R!runVars
    BY <1>1 DEF R!reviewRunVars
  <2>2. ReviewGateInv' /\ UNCHANGED <<waiting, waits, decided>>
    BY <2>1, GateStays DEF ReviewRunInv
  <2>3. UNCHANGED <<example, phase, steps, tasks, editTask, draftTask, pending, wf,
                    reviewCard, processes, resumed>>
    BY <2>1 DEF R!runVars
  <2>4. RunTypes' /\ CardsInv' /\ RoundInv'
    BY <2>2, <2>3 DEF ReviewRunInv, RunTypes, CardsInv, RoundInv, NoneAwaits, Under
  <2> QED  BY <2>2, <2>4 DEF ReviewRunInv
<1>2. CASE R!Run
  BY <1>2, WorkingKeeps, ReviewingKeeps, DecisionKeeps, ClearingKeeps DEF R!Run
<1>3. CASE R!StopAll \/ R!Crash \/ \E why \in {"budget", "failed"} : R!PhaseFails(why)
  BY <1>3, EndingKeeps
<1>4. CASE R!Gate /\ UNCHANGED R!runVars
  BY <1>4, GateKeepsTheRun
<1> QED  BY <1>1, <1>2, <1>3, <1>4 DEF R!Next

LEMMA ReviewRunInvHolds ==
    ASSUME ReviewSane
    PROVE  R!Init /\ [][R!Next]_(R!reviewRunVars) => []ReviewRunInv
BY RunStart, ReviewRunStep, PTL

LEMMA DroppedAreSends ==
    ASSUME ReviewSane
    PROVE  R!Init /\ [][R!Next]_(R!reviewRunVars) => [](dropped \subseteq R!Send)
<1> DEFINE D == dropped \subseteq R!Send
<1>1. R!Init => D
  BY DEF R!Init, R!ReviewInit
<1>2. ReviewRunInv /\ D /\ [R!Next]_(R!reviewRunVars) => D'
  <2> SUFFICES ASSUME ReviewRunInv, D, [R!Next]_(R!reviewRunVars) PROVE D'
    OBVIOUS
  <2>1. dropped' = dropped \/ R!PopLost
    BY DEF R!Next, R!Run, R!StartRun, R!PhaseDone, R!EditorialDone, R!BeginReview,
       R!DecisionTaken, R!RevisionDone, R!GovernanceRejects, R!Clear, R!ClearFails, R!Exit,
       R!PhaseFails, R!StopAll, R!Crash, R!Gate, R!BoardStep, R!Push, R!PublishDecision,
       R!ForwardFails, R!ListExpires, R!CloseTerminal, R!BoardDecides, R!Subscribed,
       R!SubscriptionLost, R!Pop, R!HandlePopped, R!HandleMessage, R!Answer, R!StartWait,
       R!reviewRunVars, R!reviewVars, R!sideVars
  <2>2. CASE R!PopLost
    <3>1. /\ waiting \in R!Review /\ lists[waiting] \in Seq(R!Send) /\ lists[waiting] # <<>>
          /\ dropped' = dropped \cup {Head(lists[waiting])}
      BY <2>2 DEF R!PopLost, R!TakeOldest, R!Nobody, ReviewRunInv, ReviewGateInv, GateTypes
    <3> QED  BY <3>1
  <2> QED  BY <2>1, <2>2
<1> QED  BY <1>1, <1>2, ReviewRunInvHolds, PTL

LEMMA ApprovedInv ==
    ASSUME ReviewSane, ReviewRunInv
    PROVE  R!OnlyApprovedIsPublished
<1> SUFFICES ASSUME wf = "FINISHED"
             PROVE  \E w \in 1 .. waits :
                        /\ decided[w].decision = "PUBLISH" /\ decided[w].task = draftTask
                        /\ decided[w].by \in R!Send =>
                              /\ sends[decided[w].by].task = draftTask
                              /\ sends[decided[w].by].decision = "PUBLISH"
  BY DEF R!OnlyApprovedIsPublished
<1>1. PICK w \in 1 .. waits : decided[w].decision = "PUBLISH" /\ decided[w].task = draftTask
  BY DEF ReviewRunInv, RoundInv
<1>2. w \in 1 .. MaxWaits
  BY DEF ReviewRunInv, ReviewGateInv, GateTypes, ReviewSane
<1>3. decided[w].by # 0 => /\ sends[decided[w].by].task = decided[w].task
                           /\ sends[decided[w].by].decision = decided[w].decision
  BY <1>2 DEF ReviewRunInv, ReviewGateInv, DecidedBySends
<1>4. 0 \notin R!Send
  BY DEF R!Send
<1> QED  BY <1>1, <1>3, <1>4

LEMMA NothingPends ==
    ASSUME ReviewRunInv
    PROVE  R!NoPendingReviewUnlessResumed
BY DEF ReviewRunInv, CardsInv, NoneAwaits, R!NoPendingReviewUnlessResumed

LEMMA ReviewTypes ==
    ASSUME ReviewRunInv, dropped \subseteq R!Send
    PROVE  R!TypeOK
<1>1. R!ReviewTypeOK
  BY DEF ReviewRunInv, ReviewGateInv, GateTypes, R!ReviewTypeOK, R!Nobody, SendRecord,
         Ending
<1>2. phase \in {"off", "clearing", "wiping", "ended"} => waiting = 0
  BY DEF ReviewRunInv, RoundInv
<1> QED  BY <1>1, <1>2 DEF ReviewRunInv, RunTypes, R!TypeOK, ReviewStatus, R!Nobody

\* The variables of the run and of its review keep their types.
THEOREM ReviewTypeCorrect ==
    ASSUME ReviewSane
    PROVE  Spec => []R!TypeOK
<1> QED  BY ReviewRunInvHolds, DroppedAreSends, ReviewTypes, ViewsRunAlone, PTL

\* A draft is published only by a PUBLISH of its own review (handleBoardMessage,
\* waitForHITLDecision), for any number of boards, sends, waits and processes.
THEOREM OnlyTheApprovedIsPublished ==
    ASSUME ReviewSane
    PROVE  Spec => []OnlyApprovedIsPublished
<1>1. ReviewSane /\ ReviewRunInv => OnlyApprovedIsPublished
  BY ApprovedInv DEF OnlyApprovedIsPublished
<1> QED  BY <1>1, ReviewRunInvHolds, ViewsRunAlone, PTL

\* No review waits on the board after a run that was not resumed (reviewStopped).
THEOREM NothingPendsAfterTheRun ==
    ASSUME ReviewSane
    PROVE  Spec => []NoPendingReviewUnlessResumed
<1>1. ReviewRunInv => NoPendingReviewUnlessResumed
  BY NothingPends DEF NoPendingReviewUnlessResumed
<1> QED  BY <1>1, ReviewRunInvHolds, ViewsRunAlone, PTL


-----------------------------------------------------------------------------
(* ResearchPipeline: the books and the board.                              *)

Snapshot == [totals : Nat, found : SUBSET (1 .. Searchers),
             verdict : {"none", "passed", "REJECTED"}]
Reply == [task : 1 .. Searchers, kind : {"result", "empty", "failed", "stopped"}, cost : Nat]
PhaseStatus == {"none", "DOING", "AWAITING", "DONE", "BLOCKED", "STOPPED"}

\* The cards of the search tasks: a BLOCKED one is beside another one's result.
SearchCards ==
    {s \in [1 .. Searchers -> [status : PhaseStatus, error : {"none", "failed", "stopped"}]] :
        (\E t \in 1 .. Searchers : s[t].status = "BLOCKED")
            => \E t \in 1 .. Searchers : s[t].status = "DONE"}
BoardShape == [wf : {"none", "RUNNING", "FINISHED", "STOPPED"},
               card : [P!Carded -> PhaseStatus], search : SearchCards]

\* Every task is answered once, and not awaited any more.
Once(as, w) ==
    \A i \in DOMAIN as :
        as[i].task \notin w /\ \A j \in DOMAIN as : as[i].task = as[j].task => i = j

\* What the first n phases cost, by the books f.
PaidTo(f, n) ==
    (IF n >= 1 THEN f[1] ELSE 0) + (IF n >= 2 THEN f[2] ELSE 0)
    + (IF n >= 3 THEN f[3] ELSE 0) + (IF n >= 4 THEN f[4] ELSE 0)

Books ==
    /\ ctx \in Snapshot /\ memo \in Seq(Snapshot) /\ Len(memo) <= 4
    /\ at \in 1 .. 7 /\ laggard \in 0 .. 4
    /\ halted \in BOOLEAN /\ autoPublish \in BOOLEAN
    /\ paidFor \in [P!Phases -> Nat]

Screen ==
    /\ progress \in {"off", "entering", "dispatching", "waiting", "saving", "deciding",
                     "clearing", "ended"}
    /\ awaited \subseteq 1 .. Searchers /\ answers \in Seq(Reply) /\ Once(answers, awaited)
    /\ pendingReview \in {0, 4, 6}
    /\ endedBy \in {"none", "stop", "budget", "error", "decision"}
    /\ shown \in BoardShape

PipeTypes == Books /\ Screen

\* Which phase each step of the run is in.
Stage ==
    /\ progress = "entering" => at \in 1 .. 4 /\ at <= Len(memo) + 1
    /\ progress \in {"dispatching", "waiting"} => at = 6 \/ (at \in 1 .. 4 /\ at = Len(memo) + 1)
    /\ progress = "saving" => at \in 1 .. 4 /\ at = Len(memo) + 1
    /\ progress = "deciding" => at \in {5, 7}
    /\ progress = "off" => at = 1 /\ ~halted /\ ctx = P!Fresh /\ endedBy = "none"

\* A snapshot has the cost of its phase and of those before it.
Checkpoint ==
    \A i \in 1 .. Len(memo) :
        /\ memo[i].totals = PaidTo(paidFor, i) /\ memo[i].found # {}
        /\ i = 4 => memo[i].verdict # "REJECTED"

Going ==
    P!Live =>
        /\ endedBy = "none" /\ shown.wf = "RUNNING"
        /\ progress = "saving" => ctx.totals = PaidTo(paidFor, at)
        /\ at = 7 => ctx.totals = PaidTo(paidFor, 4) + paidFor[6]
        /\ progress # "saving" /\ at <= 4 => ctx.totals = PaidTo(paidFor, at - 1)
        /\ progress # "saving" /\ at \in {5, 6} => ctx.totals = PaidTo(paidFor, 4)
        /\ at > 1 \/ progress = "saving" => ctx.found # {}
        /\ at > 3 => ctx.verdict # "REJECTED"
        /\ progress # "saving" /\ at # 7 => ctx.totals < SpendCap

Clean(b) == \A p \in P!Carded : b.card[p] # "BLOCKED"

\* What the board shows of a run that goes on, and of one that was stopped.
OnBoard ==
    /\ shown.wf \in {"none", "RUNNING"} => Clean(shown)
    /\ laggard # 0 => endedBy = "stop" /\ shown.wf = "STOPPED"
    /\ endedBy = "stop" =>
          /\ Clean(shown)
          /\ \/ shown.wf = "STOPPED"
             \/ shown = [wf |-> "RUNNING", card |-> P!NoCards,
                         search |-> P!AllSearches("DOING")]
    /\ halted /\ shown.wf = "FINISHED" => autoPublish
    /\ endedBy = "decision" /\ ctx.verdict = "REJECTED" => shown.wf # "FINISHED"

PipelineInv == PipeTypes /\ Stage /\ Checkpoint /\ Going /\ OnBoard

\* There is a searcher and a budget, and the bounds are numbers.
PipelineSane ==
    /\ Searchers \in Nat \ {0} /\ SpendCap \in Nat \ {0}
    /\ MaxCost \in Nat /\ MaxRuns \in Nat

LEMMA CardedPhases == P!Carded = {2, 3, 4, 6} /\ P!Phases = {1, 2, 3, 4, 6}
  BY DEF P!Carded, P!Phases, P!Search, P!Write, P!Governance, P!Editorial, P!Revision

LEMMA PipelineIsCounted == \A X_ : P!Cardinality(X_) = Cardinality(X_)
  BY DEF P!Cardinality, Cardinality

LEMMA PaidSums ==
    ASSUME NEW f \in [P!Phases -> Nat]
    PROVE  /\ \A n \in 0 .. 4 : PaidTo(f, n) \in Nat
           /\ PaidTo(f, 0) = 0
           /\ \A n \in 1 .. 4 : PaidTo(f, n) = PaidTo(f, n - 1) + f[n]
<1>1. f[1] \in Nat /\ f[2] \in Nat /\ f[3] \in Nat /\ f[4] \in Nat
  BY CardedPhases
<1> QED  BY <1>1 DEF PaidTo

LEMMA SamePaid ==
    ASSUME NEW f, NEW g, NEW n \in 0 .. 4, \A p \in 1 .. n : f[p] = g[p]
    PROVE  PaidTo(f, n) = PaidTo(g, n)
<1>1. /\ n >= 1 => f[1] = g[1]
      /\ n >= 2 => f[2] = g[2]
      /\ n >= 3 => f[3] = g[3]
      /\ n >= 4 => f[4] = g[4]
  OBVIOUS
<1> QED  BY <1>1 DEF PaidTo

LEMMA SeqOfReplies ==
    ASSUME NEW got \in Seq(Reply)
    PROVE  /\ Len(got) \in Nat /\ DOMAIN got = 1 .. Len(got)
           /\ \A i \in 1 .. Len(got) : got[i] \in Reply
  OBVIOUS

\* What some answers cost is a number.
LEMMA CostIsNumber ==
    ASSUME NEW got \in Seq(Reply)
    PROVE  P!CostOf(got) \in Nat
<1>1. PICK n \in Nat : n = Len(got)
  BY SeqOfReplies
<1>10. DOMAIN got = 1 .. n
  BY <1>1, SeqOfReplies
<1>2. ASSUME NEW i \in 1 .. n PROVE got[i].cost \in Nat
  <2>1. got[i] \in Reply
    BY <1>1, SeqOfReplies
  <2> QED  BY <2>1 DEF Reply
<1> DEFINE Tokens == {{i} \X (1 .. got[i].cost) : i \in DOMAIN got}
           h == [i \in DOMAIN got |-> {i} \X (1 .. got[i].cost)]
<1>3. h \in Surjection(DOMAIN got, Tokens)
  <2>1. h \in [DOMAIN got -> Tokens] /\ \A p \in Tokens : \E i \in DOMAIN got : h[i] = p
    OBVIOUS
  <2> QED  BY <2>1 DEF Surjection
<1> HIDE DEF h
<1>4. IsFiniteSet(DOMAIN got)
  <2>1. IsFiniteSet(1 .. n)
    BY FS_Interval
  <2> QED  BY <1>10, <2>1
<1>5. IsFiniteSet(Tokens)
  BY <1>3, <1>4, FS_Surjection
<1>6. ASSUME NEW k \in Nat, NEW i PROVE IsFiniteSet({i} \X (1 .. k))
  <2>1. IsFiniteSet(1 .. k)
    BY FS_Interval
  <2>2. IsFiniteSet({i})
    BY FS_Singleton
  <2> QED  BY <2>1, <2>2, FS_Product
<1>7. \A p \in Tokens : IsFiniteSet(p)
  BY <1>10, <1>2, <1>6
<1>8. IsFiniteSet(UNION Tokens)
  BY <1>5, <1>7, FS_UNION
<1>9. Cardinality(UNION Tokens) \in Nat
  BY <1>8, FS_CardinalityType
<1> QED  BY <1>9, PipelineIsCounted DEF P!CostOf

LEMMA NothingAnswered == \A w : Once(<<>>, w)
  BY DEF Once

LEMMA OnceMore ==
    ASSUME NEW got \in Seq(Reply), NEW w, NEW r \in Reply, r.task \in w, Once(got, w)
    PROVE  Once(Append(got, r), w \ {r.task})
<1> DEFINE more == Append(got, r)
<1>1. PICK n \in Nat : n = Len(got) /\ DOMAIN got = 1 .. n
  BY SeqOfReplies
<1>2. /\ DOMAIN more = 1 .. (n + 1) /\ more[n + 1] = r
      /\ \A i \in 1 .. n : more[i] = got[i]
  BY <1>1
<1> HIDE DEF more
<1>3. \A i \in 1 .. (n + 1) : i = n + 1 \/ i \in 1 .. n
  BY <1>1
<1>4. \A i \in 1 .. n : /\ got[i].task \notin w
                       /\ \A j \in 1 .. n : got[i].task = got[j].task => i = j
  BY <1>1 DEF Once
<1>5. ASSUME NEW i \in 1 .. (n + 1)
      PROVE  /\ more[i].task \notin w \ {r.task}
             /\ \A j \in 1 .. (n + 1) : more[i].task = more[j].task => i = j
  BY <1>2, <1>3, <1>4
<1> QED  BY <1>2, <1>5 DEF Once, more

\* The cards of the search tasks, all of one status or as their tasks ended.
LEMMA AllOneStatus ==
    ASSUME NEW status \in {"none", "DOING"}
    PROVE  P!AllSearches(status) \in SearchCards
  BY DEF P!AllSearches, P!SearchCard, SearchCards, PhaseStatus

LEMMA SearchesEnded ==
    ASSUME NEW all \in Seq(Reply), Once(all, {}), NEW k \in DOMAIN all, all[k].kind = "result"
    PROVE  [t \in 1 .. Searchers |-> P!SearchEnd(all, t)] \in SearchCards
<1> DEFINE s == [t \in 1 .. Searchers |-> P!SearchEnd(all, t)]
           CardShape == [status : PhaseStatus, error : {"none", "failed", "stopped"}]
<1>1. ASSUME NEW t \in 1 .. Searchers PROVE P!SearchEnd(all, t) \in CardShape
  BY DEF P!SearchEnd, P!SearchCard, PhaseStatus
<1>2. s \in [1 .. Searchers -> CardShape]
  BY <1>1
<1>3. all[k].task \in 1 .. Searchers
  BY SeqOfReplies DEF Reply
<1>4. ~P!EndedAs(all, all[k].task, "stopped") /\ ~P!EndedAs(all, all[k].task, "failed")
  BY DEF P!EndedAs, Once
<1>5. s[all[k].task].status = "DONE"
  BY <1>3, <1>4 DEF P!SearchEnd, P!SearchCard
<1> HIDE DEF s
<1> QED  BY <1>2, <1>3, <1>5 DEF SearchCards, s

\* The board after a stop and after an announcement.
LEMMA StoppedBoard ==
    ASSUME Screen, NEW b \in BoardShape
    PROVE  /\ P!Stopped(b) \in BoardShape /\ P!Stopped(b).wf = "STOPPED"
           /\ Clean(b) => Clean(P!Stopped(b))
<1> DEFINE c == IF pendingReview = 0 THEN b.card
                ELSE [b.card EXCEPT ![pendingReview] = "STOPPED"]
<1>1. b.card \in [P!Carded -> PhaseStatus]
  BY DEF BoardShape
<1>2. c \in [P!Carded -> PhaseStatus]
  BY <1>1, CardedPhases DEF Screen, PhaseStatus
<1>3. \A p \in P!Carded : c[p] \in {"STOPPED", b.card[p]}
  BY <1>1 DEF Screen
<1>4. P!Stopped(b) = [b EXCEPT !.wf = "STOPPED", !.card = c]
  BY DEF P!Stopped
<1> HIDE DEF c
<1>5. /\ P!Stopped(b) \in BoardShape
      /\ P!Stopped(b).wf = "STOPPED" /\ P!Stopped(b).card = c
  BY <1>2, <1>4 DEF BoardShape
<1> QED  BY <1>3, <1>5 DEF Clean

LEMMA RunningBoard ==
    ASSUME Screen
    PROVE  /\ P!Running \in BoardShape /\ P!Running.wf = "RUNNING"
           /\ (shown.wf \in {"none", "RUNNING"} => Clean(shown)) => Clean(P!Running)
           /\ shown.wf = "STOPPED" =>
                 P!Running = [wf |-> "RUNNING", card |-> P!NoCards,
                              search |-> P!AllSearches("none")]
<1>1. shown \in BoardShape
  BY DEF Screen
<1>2. CASE shown.wf \in {"FINISHED", "STOPPED"}
  <2> DEFINE b == [wf |-> "RUNNING", card |-> P!NoCards, search |-> P!AllSearches("none")]
  <2>1. P!Running = b
    BY <1>2 DEF P!Running
  <2>2. P!NoCards \in [P!Carded -> PhaseStatus] /\ \A p \in P!Carded : P!NoCards[p] = "none"
    BY DEF P!NoCards, PhaseStatus
  <2>3. b \in BoardShape /\ b.wf = "RUNNING" /\ b.card = P!NoCards
    <3>1. P!AllSearches("none") \in SearchCards
      BY AllOneStatus
    <3> QED  BY <2>2, <3>1 DEF BoardShape
  <2> QED  BY <2>1, <2>2, <2>3 DEF Clean
<1>3. CASE shown.wf \notin {"FINISHED", "STOPPED"}
  <2>1. P!Running = [shown EXCEPT !.wf = "RUNNING"]
    BY <1>3 DEF P!Running
  <2>2. /\ [shown EXCEPT !.wf = "RUNNING"] \in BoardShape
        /\ [shown EXCEPT !.wf = "RUNNING"].wf = "RUNNING"
        /\ [shown EXCEPT !.wf = "RUNNING"].card = shown.card
    BY <1>1 DEF BoardShape
  <2>3. shown.wf \in {"none", "RUNNING"}
    BY <1>1, <1>3 DEF BoardShape
  <2> QED  BY <1>3, <2>1, <2>2, <2>3 DEF Clean
<1> QED  BY <1>2, <1>3

\* One card is written on a board.
LEMMA CardWritten ==
    ASSUME NEW b \in BoardShape, NEW p \in P!Carded, NEW c \in PhaseStatus
    PROVE  /\ [b EXCEPT !.card[p] = c] \in BoardShape
           /\ [b EXCEPT !.card[p] = c].wf = b.wf
           /\ [b EXCEPT !.card[p] = c].card = [b.card EXCEPT ![p] = c]
           /\ c # "BLOCKED" /\ Clean(b) => Clean([b EXCEPT !.card[p] = c])
<1>1. b.card \in [P!Carded -> PhaseStatus]
  BY DEF BoardShape
<1>2. /\ [b.card EXCEPT ![p] = c] \in [P!Carded -> PhaseStatus]
      /\ \A q \in P!Carded : [b.card EXCEPT ![p] = c][q] = IF q = p THEN c ELSE b.card[q]
  BY <1>1
<1>3. [b EXCEPT !.card[p] = c] = [b EXCEPT !.card = [b.card EXCEPT ![p] = c]]
  BY DEF BoardShape
<1> DEFINE d == [b.card EXCEPT ![p] = c]
<1> HIDE DEF d
<1>4. d \in [P!Carded -> PhaseStatus]
  BY <1>2 DEF d
<1>5. /\ [b EXCEPT !.card = d] \in BoardShape
      /\ [b EXCEPT !.card = d].wf = b.wf /\ [b EXCEPT !.card = d].card = d
  BY <1>4 DEF BoardShape
<1> QED  BY <1>2, <1>3, <1>5 DEF Clean, d

LEMMA AnnouncedBoard ==
    ASSUME Screen, NEW p \in {1, 2, 3, 4, 6}
    PROVE  /\ P!Announced(p) \in BoardShape
           /\ p # 1 => P!Announced(p).wf = shown.wf /\ (Clean(shown) => Clean(P!Announced(p)))
           /\ p = 1 => /\ P!Announced(p).wf = "RUNNING"
                       /\ (shown.wf \in {"none", "RUNNING"} => Clean(shown))
                          => Clean(P!Announced(p))
                       /\ shown.wf = "STOPPED" =>
                             P!Announced(p) = [wf |-> "RUNNING", card |-> P!NoCards,
                                               search |-> P!AllSearches("DOING")]
<1>1. shown \in BoardShape /\ "DOING" \in PhaseStatus
  BY DEF Screen, PhaseStatus
<1>2. CASE p = 1
  <2>1. P!Announced(p) = [P!Running EXCEPT !.search = P!AllSearches("DOING")]
    BY <1>2 DEF P!Announced, P!Search, P!Write, P!Governance
  <2> DEFINE b == P!Running
             a == P!AllSearches("DOING")
  <2>2. /\ b \in BoardShape /\ b.wf = "RUNNING"
        /\ (shown.wf \in {"none", "RUNNING"} => Clean(shown)) => Clean(b)
        /\ shown.wf = "STOPPED" =>
              b = [wf |-> "RUNNING", card |-> P!NoCards, search |-> P!AllSearches("none")]
    BY RunningBoard
  <2>3. a \in SearchCards
    BY AllOneStatus
  <2>4. P!Announced(p) = [b EXCEPT !.search = a]
    BY <2>1
  <2> HIDE DEF a, b
  <2>5. /\ [b EXCEPT !.search = a] \in BoardShape
        /\ [b EXCEPT !.search = a].wf = b.wf /\ [b EXCEPT !.search = a].card = b.card
    BY <2>2, <2>3 DEF BoardShape
  <2>6. ASSUME shown.wf = "STOPPED"
        PROVE  P!Announced(p) = [wf |-> "RUNNING", card |-> P!NoCards, search |-> a]
    BY <2>2, <2>4, <2>6
  <2> QED  BY <1>2, <2>2, <2>4, <2>5, <2>6 DEF Clean, a
<1>3. CASE p \in {2, 3}
  <2>1. P!Announced(p) = [shown EXCEPT !.card[p] = "DOING"]
    BY <1>3 DEF P!Announced, P!Search, P!Write, P!Governance
  <2>2. /\ [shown EXCEPT !.card[p] = "DOING"] \in BoardShape
        /\ [shown EXCEPT !.card[p] = "DOING"].wf = shown.wf
        /\ Clean(shown) => Clean([shown EXCEPT !.card[p] = "DOING"])
    BY <1>1, <1>3, CardWritten, CardedPhases
  <2> QED  BY <1>3, <2>1, <2>2
<1>4. CASE p \in {4, 6}
  <2>1. P!Announced(p) = shown
    BY <1>4 DEF P!Announced, P!Search, P!Write, P!Governance
  <2> QED  BY <1>1, <1>4, <2>1
<1> QED  BY <1>2, <1>3, <1>4

LEMMA PhaseNumbers ==
    /\ P!Search = 1 /\ P!Write = 2 /\ P!Governance = 3 /\ P!Editorial = 4 /\ P!Revision = 6
  BY DEF P!Search, P!Write, P!Governance, P!Editorial, P!Revision

LEMMA SameBooks ==
    ASSUME Checkpoint, UNCHANGED <<memo, paidFor>>
    PROVE  Checkpoint'
  BY DEF Checkpoint

\* While a run goes on no phase shows as failed, and it was not stopped before.
LEMMA GoingBoard ==
    ASSUME PipelineInv, P!Live
    PROVE  shown \in BoardShape /\ shown.wf = "RUNNING" /\ Clean(shown) /\ laggard = 0
<1>1. endedBy = "none" /\ shown.wf = "RUNNING"
  BY DEF PipelineInv, Going
<1> QED  BY <1>1 DEF PipelineInv, OnBoard, PipeTypes, Screen

\* Every way a run ends without a decision.
LEMMA EndsRun ==
    ASSUME Screen, Books', Checkpoint', NEW how \in {"stop", "budget", "error"},
           NEW b \in BoardShape, how = "stop" => Clean(b), laggard' # 0 => how = "stop",
           P!EndFailedRun(how, b)
    PROVE  PipelineInv'
<1>1. /\ shown' = P!Stopped(b) /\ endedBy' = how /\ pendingReview' = 0
      /\ progress' \in {"ended", "clearing"} /\ awaited' = {} /\ answers' = <<>>
  BY DEF P!EndFailedRun
<1>2. /\ shown' \in BoardShape /\ shown'.wf = "STOPPED"
      /\ how = "stop" => Clean(shown')
  BY <1>1, StoppedBoard
<1>3. answers' \in Seq(Reply) /\ Once(answers', awaited')
  BY <1>1, NothingAnswered
<1>4. PipeTypes'
  BY <1>1, <1>2, <1>3 DEF PipeTypes, Screen
<1>5. Stage'
  BY <1>1 DEF Stage
<1>6. Going'
  BY <1>1 DEF Going, P!Live
<1>7. OnBoard'
  BY <1>1, <1>2 DEF OnBoard
<1> QED  BY <1>4, <1>5, <1>6, <1>7 DEF PipelineInv

\* After a phase that is memoized, resumed or just done.
LEMMA Continues ==
    ASSUME PipelineSane, PipelineInv, P!Live, NEW p \in 1 .. 4, p = at, NEW c \in Snapshot, ctx' = c,
           Books', Checkpoint', p <= Len(memo'), c.totals = PaidTo(paidFor', p),
           c.found # {}, p = 4 => c.verdict # "REJECTED",
           UNCHANGED <<halted, laggard, autoPublish>>,
           P!Continue(p, c)
    PROVE  PipelineInv'
<1>1. Screen
  BY DEF PipelineInv, PipeTypes
<1>2. /\ shown \in BoardShape /\ shown.wf = "RUNNING" /\ Clean(shown) /\ laggard = 0
      /\ endedBy = "none"
  BY GoingBoard DEF PipelineInv, Going
<1>3. CASE c.totals >= SpendCap
  <2>1. P!EndFailedRun("budget", shown)
    BY <1>3 DEF P!Continue
  <2> QED  BY <1>1, <1>2, <2>1, EndsRun
<1>4. CASE ~(c.totals >= SpendCap) /\ p = 3 /\ c.verdict = "REJECTED"
  <2>1. /\ shown' = [shown EXCEPT !.wf = "STOPPED"] /\ endedBy' = "decision"
        /\ progress' = "clearing" /\ UNCHANGED <<at, awaited, answers, pendingReview>>
    BY <1>4, PhaseNumbers DEF P!Continue
  <2>2. shown' \in BoardShape /\ shown'.wf = "STOPPED"
    BY <1>2, <2>1 DEF BoardShape
  <2>3. PipeTypes'
    BY <1>1, <2>1, <2>2 DEF PipeTypes, Screen
  <2>4. Stage' /\ Going'
    BY <2>1 DEF Stage, Going, P!Live
  <2>5. OnBoard'
    BY <1>2, <2>1, <2>2 DEF OnBoard
  <2> QED  BY <2>3, <2>4, <2>5 DEF PipelineInv
<1>5. CASE ~(c.totals >= SpendCap) /\ ~(p = 3 /\ c.verdict = "REJECTED")
  <2>1. /\ at' = p + 1 /\ progress' = IF p = 4 THEN "deciding" ELSE "entering"
        /\ UNCHANGED <<awaited, answers, shown, endedBy, pendingReview>>
    BY <1>5, PhaseNumbers DEF P!Continue, P!Goes
  <2>2. PipeTypes'
    BY <1>1, <2>1 DEF PipeTypes, Screen
  <2>3. Stage'
    <3>1. Len(memo') \in Nat
      BY DEF Books
    <3> QED  BY <2>1, <3>1 DEF Stage
  <2>4. c.totals \in Nat
    BY DEF Snapshot
  <2>5. c.totals < SpendCap
    BY <1>5, <2>4 DEF PipelineSane
  <2>6. p > 2 => c.verdict # "REJECTED"
    BY <1>5
  <2>7. Going'
    <3>1. at' - 1 = p /\ at' \in 2 .. 5
      BY <2>1
    <3>2. at' = 5 => p = 4
      BY <2>1
    <3> QED  BY <1>2, <2>1, <2>5, <2>6, <3>1, <3>2 DEF Going, P!Live
  <2>8. OnBoard'
    BY <1>2, <2>1 DEF OnBoard
  <2> QED  BY <2>2, <2>3, <2>7, <2>8 DEF PipelineInv
<1> QED  BY <1>3, <1>4, <1>5

\* A step that leaves the books alone.
LEMMA SameRun ==
    ASSUME PipelineInv, UNCHANGED <<ctx, memo, at, halted, laggard, autoPublish, paidFor>>
    PROVE  Books' /\ Checkpoint'
<1>1. Books'
  BY DEF PipelineInv, PipeTypes, Books
<1> QED  BY <1>1, SameBooks DEF PipelineInv

LEMMA StartStep ==
    ASSUME PipelineSane, PipelineInv, P!Start
    PROVE  PipelineInv'
<1>1. /\ progress = "off" /\ progress' = "entering" /\ shown' = P!Running /\ endedBy' = "none"
      /\ UNCHANGED <<ctx, memo, at, awaited, answers, halted, laggard, pendingReview,
                     autoPublish, paidFor>>
  BY DEF P!Start
<1>2. Screen /\ Stage /\ Books' /\ Checkpoint'
  BY <1>1, SameRun DEF PipelineInv, PipeTypes
<1>3. at = 1 /\ ~halted /\ ctx = P!Fresh /\ endedBy = "none"
  BY <1>1, <1>2 DEF Stage
<1>4. laggard = 0 /\ (shown.wf \in {"none", "RUNNING"} => Clean(shown))
  BY <1>3 DEF PipelineInv, OnBoard
<1>5. shown' \in BoardShape /\ shown'.wf = "RUNNING" /\ Clean(shown')
  BY <1>1, <1>2, <1>4, RunningBoard
<1>6. PipeTypes'
  BY <1>1, <1>2, <1>5 DEF PipeTypes, Screen
<1>7. Stage'
  <2>1. Len(memo) \in Nat
    BY DEF PipelineInv, PipeTypes, Books
  <2> QED  BY <1>1, <1>3, <2>1 DEF Stage
<1>8. Going'
  <2>1. ctx'.totals = 0 /\ at' = 1
    BY <1>1, <1>3 DEF P!Fresh
  <2>2. PaidTo(paidFor', 0) = 0
    BY <1>2, PaidSums DEF Books
  <2>3. 0 < SpendCap
    BY DEF PipelineSane
  <2>4. at' - 1 = 0
    BY <2>1
  <2> QED  BY <1>1, <1>5, <2>1, <2>2, <2>3, <2>4 DEF Going, P!Live
<1>9. OnBoard'
  BY <1>1, <1>4, <1>5 DEF OnBoard
<1> QED  BY <1>2, <1>6, <1>7, <1>8, <1>9 DEF PipelineInv

LEMMA ResumeStep ==
    ASSUME PipelineSane, PipelineInv, P!Resume
    PROVE  PipelineInv'
<1>1. /\ progress = "entering" /\ at <= Len(memo) /\ ctx' = memo[at]
      /\ UNCHANGED <<memo, halted, laggard, runs, autoPublish, paidFor>>
      /\ P!Continue(at, ctx')
  BY DEF P!Resume
<1>2. Books /\ Screen /\ Stage /\ Checkpoint /\ P!Live
  BY <1>1 DEF PipelineInv, PipeTypes, P!Live
<1>3. Len(memo) \in Nat /\ at \in 1 .. 4 /\ at \in 1 .. Len(memo)
  BY <1>1, <1>2 DEF Stage, Books
<1>4. memo[at] \in Snapshot
  BY <1>2, <1>3 DEF Books
<1>5. /\ memo[at].totals = PaidTo(paidFor, at) /\ memo[at].found # {}
      /\ at = 4 => memo[at].verdict # "REJECTED"
  BY <1>2, <1>3 DEF Checkpoint
<1>6. Checkpoint'
  BY <1>1, <1>2, SameBooks
<1>7. at' \in 1 .. 7
  <2>1. at' = at \/ at' = at + 1
    BY <1>1 DEF P!Continue
  <2> QED  BY <1>3, <2>1
<1>8. Books'
  BY <1>1, <1>2, <1>4, <1>7 DEF Books
<1>9. at <= Len(memo') /\ PaidTo(paidFor', at) = PaidTo(paidFor, at)
  BY <1>1
<1> DEFINE c == memo[at]
<1>10. c \in Snapshot /\ ctx' = c /\ c.totals = PaidTo(paidFor', at) /\ c.found # {}
       /\ (at = 4 => c.verdict # "REJECTED") /\ P!Continue(at, c)
  BY <1>1, <1>4, <1>5, <1>9
<1> HIDE DEF c
<1> QED  BY <1>1, <1>2, <1>3, <1>6, <1>8, <1>9, <1>10, Continues

LEMMA EnterStep ==
    ASSUME PipelineInv, P!Enter
    PROVE  PipelineInv'
<1>1. /\ progress = "entering" /\ at > Len(memo)
      /\ UNCHANGED <<ctx, memo, at, halted, laggard, autoPublish, paidFor>>
  BY DEF P!Enter
<1>2. Screen /\ Stage /\ P!Live /\ Books' /\ Checkpoint' /\ Books
  BY <1>1, SameRun DEF PipelineInv, PipeTypes, P!Live
<1>3. shown \in BoardShape /\ shown.wf = "RUNNING" /\ Clean(shown) /\ laggard = 0
  BY <1>2, GoingBoard
<1>4. CASE halted
  <2>1. P!EndFailedRun("stop", shown)
    BY <1>4 DEF P!Enter
  <2> QED  BY <1>1, <1>2, <1>3, <2>1, EndsRun
<1>5. CASE ~halted
  <2>1. /\ progress' = "dispatching"
        /\ UNCHANGED <<awaited, answers, shown, endedBy, pendingReview>>
    BY <1>5 DEF P!Enter, P!Goes
  <2>2. PipeTypes'
    BY <1>2, <2>1 DEF PipeTypes, Screen
  <2>3. Stage'
    <3>1. Len(memo) \in Nat
      BY <1>2 DEF Books
    <3> QED  BY <1>1, <1>2, <2>1, <3>1 DEF Stage
  <2>4. at \in 1 .. 4
    BY <1>1, <1>2 DEF Stage
  <2>5. Going'
    BY <1>1, <1>2, <2>1, <2>4 DEF PipelineInv, Going, P!Live
  <2>6. OnBoard'
    BY <1>1, <1>3, <2>1 DEF PipelineInv, OnBoard
  <2> QED  BY <1>2, <2>2, <2>3, <2>5, <2>6 DEF PipelineInv
<1> QED  BY <1>4, <1>5

LEMMA DispatchedStep ==
    ASSUME PipelineSane, PipelineInv, P!Dispatched
    PROVE  PipelineInv'
<1>1. /\ progress = "dispatching"
      /\ UNCHANGED <<ctx, memo, at, halted, laggard, autoPublish, paidFor>>
  BY DEF P!Dispatched
<1>2. Screen /\ Stage /\ P!Live /\ Books' /\ Checkpoint'
  BY <1>1, SameRun DEF PipelineInv, PipeTypes, P!Live
<1>3. shown \in BoardShape /\ shown.wf = "RUNNING" /\ Clean(shown) /\ laggard = 0
  BY <1>2, GoingBoard
<1>4. CASE halted
  <2>1. P!EndFailedRun("stop", shown)
    BY <1>4 DEF P!Dispatched
  <2> QED  BY <1>1, <1>2, <1>3, <2>1, EndsRun
<1>5. CASE ~halted
  <2>1. /\ progress' = "waiting" /\ awaited' = (IF at = 1 THEN 1 .. Searchers ELSE {1})
        /\ answers' = <<>> /\ shown' = P!Announced(at) /\ UNCHANGED <<endedBy, pendingReview>>
    BY <1>5, PhaseNumbers DEF P!Dispatched
  <2>2. at \in {1, 2, 3, 4, 6}
    BY <1>1, <1>2 DEF Stage
  <2>3. shown' \in BoardShape /\ shown'.wf = "RUNNING" /\ Clean(shown')
    BY <1>2, <1>3, <2>1, <2>2, AnnouncedBoard
  <2>4. answers' \in Seq(Reply) /\ Once(answers', awaited')
    BY <2>1, NothingAnswered
  <2>5. awaited' \subseteq 1 .. Searchers
    BY <2>1 DEF PipelineSane
  <2>6. PipeTypes'
    BY <1>2, <2>1, <2>3, <2>4, <2>5 DEF PipeTypes, Screen
  <2>7. Stage'
    BY <1>1, <1>2, <2>1 DEF Stage
  <2>8. Going'
    BY <1>1, <1>2, <2>1, <2>3 DEF PipelineInv, Going, P!Live
  <2>9. OnBoard'
    <3>1. endedBy' = "none"
      BY <1>2, <2>1 DEF PipelineInv, Going
    <3> QED  BY <1>1, <1>3, <2>3, <3>1 DEF OnBoard
  <2> QED  BY <1>2, <2>6, <2>7, <2>8, <2>9 DEF PipelineInv
<1> QED  BY <1>4, <1>5

LEMMA PhaseFailsStep ==
    ASSUME PipelineInv, P!PhaseFails
    PROVE  PipelineInv'
<1>1. /\ P!Live /\ P!EndFailedRun("error", shown)
      /\ UNCHANGED <<ctx, memo, at, halted, laggard, autoPublish, paidFor>>
  BY DEF P!PhaseFails, P!Live
<1>2. Screen /\ Books' /\ Checkpoint'
  BY <1>1, SameRun DEF PipelineInv, PipeTypes
<1>3. shown \in BoardShape /\ laggard = 0
  BY <1>1, GoingBoard
<1> QED  BY <1>1, <1>2, <1>3, EndsRun

\* The answers of the search phase have all come.
LEMMA SearchedStep ==
    ASSUME PipelineSane, PipelineInv, progress = "waiting", at = 1, NEW all \in Seq(Reply),
           Once(all, {}), P!Searched(all), awaited' = {} /\ answers' = <<>>,
           UNCHANGED <<memo, at, halted, laggard, runs, autoPublish>>
    PROVE  PipelineInv'
<1>1. Books /\ Screen /\ Stage /\ P!Live
  BY DEF PipelineInv, PipeTypes, P!Live
<1>2. shown \in BoardShape /\ shown.wf = "RUNNING" /\ Clean(shown) /\ laggard = 0
  BY <1>1, GoingBoard
<1>3. Len(memo) = 0
  <2>1. Len(memo) \in Nat
    BY <1>1 DEF Books
  <2> QED  BY <1>1, <2>1 DEF Stage
<1> DEFINE found == {all[i].task : i \in {j \in DOMAIN all : all[j].kind = "result"}}
<1>4. found \subseteq 1 .. Searchers
  <2>1. ASSUME NEW i \in DOMAIN all PROVE all[i].task \in 1 .. Searchers
    <3>1. all[i] \in Reply
      BY SeqOfReplies
    <3> QED  BY <3>1 DEF Reply
  <2> QED  BY <2>1
<1>5. CASE found = {}
  <2>1. P!EndFailedRun("error", shown) /\ UNCHANGED <<ctx, paidFor>>
    BY <1>5 DEF P!Searched
  <2>2. Books' /\ Checkpoint'
    BY <2>1, SameRun
  <2> QED  BY <1>1, <1>2, <2>1, <2>2, EndsRun
<1>6. CASE found # {}
  <2>1. /\ ctx' = [ctx EXCEPT !.totals = @ + P!CostOf(all), !.found = found]
        /\ paidFor' = [paidFor EXCEPT ![1] = P!CostOf(all)]
        /\ shown' = [shown EXCEPT !.search = [t \in 1 .. Searchers |-> P!SearchEnd(all, t)]]
        /\ progress' = "saving" /\ UNCHANGED <<endedBy, pendingReview>>
    BY <1>6, PhaseNumbers DEF P!Searched
  <2> DEFINE s == [t \in 1 .. Searchers |-> P!SearchEnd(all, t)]
  <2>14. s \in SearchCards
    <3>1. PICK i \in DOMAIN all : all[i].kind = "result"
      BY <1>6
    <3> QED  BY <3>1, SearchesEnded
  <2>15. shown' = [shown EXCEPT !.search = s]
    BY <2>1
  <2> HIDE DEF found, s
  <2>2. PICK k \in Nat : k = P!CostOf(all)
    BY CostIsNumber
  <2>3. ctx'.totals = ctx.totals + k /\ ctx'.found = found /\ ctx' \in Snapshot
    <3>1. ctx \in Snapshot
      BY <1>1 DEF Books
    <3>2. ctx' = [ctx EXCEPT !.totals = ctx.totals + k, !.found = found]
      BY <2>1, <2>2, <3>1 DEF Snapshot
    <3>3. PICK m \in Nat : m = ctx.totals + k
      BY <2>2, <3>1 DEF Snapshot
    <3>4. found \in SUBSET (1 .. Searchers)
      BY <1>4 DEF found
    <3>5. ctx' = [ctx EXCEPT !.totals = m, !.found = found]
      BY <3>2, <3>3
    <3>6. ctx' \in Snapshot
      BY <3>1, <3>3, <3>4, <3>5 DEF Snapshot
    <3>7. ctx'.totals = m /\ ctx'.found = found
      BY <3>1, <3>5 DEF Snapshot
    <3> QED  BY <3>3, <3>6, <3>7
  <2>4. paidFor' \in [P!Phases -> Nat] /\ paidFor'[1] = k
    BY <1>1, <2>1, <2>2, CardedPhases DEF Books
  <2>5. Books'
    BY <1>1, <2>3, <2>4 DEF Books
  <2>6. Checkpoint'
    BY <1>3 DEF Checkpoint
  <2>7. /\ shown' \in BoardShape /\ shown'.wf = "RUNNING" /\ Clean(shown')
    BY <1>2, <2>14, <2>15 DEF BoardShape, Clean
  <2>8. endedBy' = "none" /\ ctx.totals = 0
    <3>1. endedBy = "none" /\ ctx.totals = PaidTo(paidFor, at - 1)
      BY <1>1 DEF PipelineInv, Going
    <3>2. PaidTo(paidFor, 0) = 0
      BY <1>1, PaidSums DEF Books
    <3>3. at - 1 = 0
      OBVIOUS
    <3> QED  BY <2>1, <3>1, <3>2, <3>3
  <2>9. ctx'.totals = PaidTo(paidFor', 1)
    <3>1. PaidTo(paidFor', 1) = PaidTo(paidFor', 1 - 1) + paidFor'[1] /\ PaidTo(paidFor', 0) = 0
      BY <2>4, PaidSums
    <3>2. 1 - 1 = 0
      OBVIOUS
    <3> QED  BY <2>2, <2>3, <2>4, <2>8, <3>1, <3>2
  <2>10. PipeTypes'
    <3>1. answers' \in Seq(Reply) /\ Once(answers', awaited')
      BY NothingAnswered
    <3> QED  BY <1>1, <2>1, <2>5, <2>7, <3>1 DEF PipeTypes, Screen
  <2>11. Stage'
    BY <1>1, <1>3, <2>1 DEF Stage
  <2>12. Going'
    BY <1>6, <2>1, <2>3, <2>7, <2>8, <2>9 DEF Going, P!Live
  <2>13. OnBoard'
    BY <1>2, <2>7, <2>8 DEF OnBoard
  <2> QED  BY <2>6, <2>10, <2>11, <2>12, <2>13 DEF PipelineInv
<1> QED  BY <1>5, <1>6

LEMMA SearchAnswerStep ==
    ASSUME PipelineSane, PipelineInv, NEW t \in 1 .. Searchers,
           NEW kind \in {"result", "empty", "failed", "stopped"}, NEW cost \in Nat,
           P!SearchAnswer(t, kind, cost)
    PROVE  PipelineInv'
<1> DEFINE all == Append(answers, P!Answer(t, kind, cost))
<1>1. Books /\ Screen /\ Stage
  BY DEF PipelineInv, PipeTypes
<1>2. all \in Seq(Reply) /\ Once(all, awaited \ {t})
  <2> DEFINE a == P!Answer(t, kind, cost)
  <2>1. a \in Reply /\ a.task = t
    BY DEF P!Answer, Reply
  <2>2. answers \in Seq(Reply) /\ Once(answers, awaited)
    BY <1>1 DEF Screen
  <2>3. t \in awaited
    BY DEF P!SearchAnswer
  <2>4. all = Append(answers, a)
    OBVIOUS
  <2> HIDE DEF a, all
  <2>5. Append(answers, a) \in Seq(Reply)
    BY <2>1, <2>2
  <2>6. Once(Append(answers, a), awaited \ {a.task})
    BY <2>1, <2>2, <2>3, OnceMore
  <2> QED  BY <2>1, <2>4, <2>5, <2>6
<1>3. /\ progress = "waiting" /\ at = 1
      /\ UNCHANGED <<memo, at, halted, laggard, runs, autoPublish>>
  BY PhaseNumbers DEF P!SearchAnswer
<1>4. \/ /\ awaited' = awaited \ {t} /\ answers' = all
         /\ UNCHANGED <<ctx, paidFor, progress, shown, endedBy, pendingReview>>
      \/ awaited = {t} /\ P!Searched(all) /\ awaited' = {} /\ answers' = <<>>
  BY DEF P!SearchAnswer
<1> HIDE DEF all
<1>5. CASE /\ awaited' = awaited \ {t} /\ answers' = all
           /\ UNCHANGED <<ctx, paidFor, progress, shown, endedBy, pendingReview>>
  <2>1. Books' /\ Checkpoint'
    BY <1>3, <1>5, SameRun
  <2>2. PipeTypes'
    BY <1>1, <1>2, <1>5, <2>1 DEF PipeTypes, Screen
  <2>3. Stage'
    BY <1>1, <1>3, <1>5 DEF Stage
  <2>4. Going'
    BY <1>3, <1>5 DEF PipelineInv, Going, P!Live
  <2>5. OnBoard'
    BY <1>3, <1>5 DEF PipelineInv, OnBoard
  <2> QED  BY <2>1, <2>2, <2>3, <2>4, <2>5 DEF PipelineInv
<1>6. CASE awaited = {t} /\ P!Searched(all) /\ awaited' = {} /\ answers' = <<>>
  <2>1. Once(all, {})
    <3>1. awaited \ {t} = {}
      BY <1>6
    <3> QED  BY <1>2, <3>1
  <2> QED  BY <1>2, <1>3, <1>6, <2>1, SearchedStep
<1> QED  BY <1>4, <1>5, <1>6

\* The one task of a phase is done.
LEMMA SingleDone ==
    ASSUME PipelineInv, progress = "waiting", at # 1, NEW cost \in Nat,
           NEW verdict \in {"passed", "REJECTED"},
           P!SingleAnswer("result", cost, verdict)
    PROVE  PipelineInv'
<1>1. Books /\ Screen /\ Stage /\ Checkpoint /\ P!Live
  BY DEF PipelineInv, PipeTypes, P!Live
<1>2. /\ shown \in BoardShape /\ shown.wf = "RUNNING" /\ Clean(shown) /\ laggard = 0
      /\ endedBy = "none"
  BY <1>1, GoingBoard DEF PipelineInv, Going
<1>3. Len(memo) \in Nat
  BY <1>1 DEF Books
<1>4. at = 6 \/ (at \in 2 .. 4 /\ at = Len(memo) + 1)
  BY <1>1, <1>3 DEF Stage
<1>5. at \in {2, 3, 4, 6}
  BY <1>4
<1> DEFINE v == IF at = 3 THEN verdict ELSE ctx.verdict
<1>6. /\ ctx' = [ctx EXCEPT !.totals = @ + cost, !.verdict = v]
      /\ paidFor' = [paidFor EXCEPT ![at] = cost]
      /\ shown' = [shown EXCEPT !.card[at] = P!Done(at)]
      /\ pendingReview' = (IF P!Done(at) = "AWAITING" THEN at ELSE pendingReview)
      /\ at = 6 => progress' = "deciding" /\ at' = 7
      /\ at # 6 => progress' = "saving" /\ at' = at
      /\ endedBy' = endedBy /\ awaited' = {} /\ answers' = <<>>
      /\ UNCHANGED <<memo, halted, laggard, autoPublish>>
  <2>1. P!Single(P!Answer(1, "result", cost), verdict)
    BY DEF P!SingleAnswer
  <2>2. P!Answer(1, "result", cost).kind = "result" /\ P!Answer(1, "result", cost).cost = cost
    BY DEF P!Answer
  <2>3. ctx' = [ctx EXCEPT !.totals = @ + cost, !.verdict = IF at = 3 THEN verdict ELSE @]
    BY <2>1, <2>2, PhaseNumbers DEF P!Single
  <2>4. ctx' = [ctx EXCEPT !.totals = @ + cost, !.verdict = v]
    BY <1>1, <2>3 DEF Books, Snapshot
  <2>5. /\ paidFor' = [paidFor EXCEPT ![at] = cost]
        /\ shown' = [shown EXCEPT !.card[at] = P!Done(at)]
        /\ pendingReview' = (IF P!Done(at) = "AWAITING" THEN at ELSE pendingReview)
        /\ at = 6 => progress' = "deciding" /\ at' = 7
        /\ at # 6 => progress' = "saving" /\ at' = at
        /\ endedBy' = endedBy
    BY <2>1, <2>2, PhaseNumbers DEF P!Single
  <2>6. awaited' = {} /\ answers' = <<>> /\ UNCHANGED <<memo, halted, laggard, autoPublish>>
    BY DEF P!SingleAnswer
  <2> QED  BY <2>4, <2>5, <2>6
<1>7. ctx \in Snapshot /\ v \in {"none", "passed", "REJECTED"}
  <2>1. ctx \in Snapshot
    BY <1>1 DEF Books
  <2> QED  BY <2>1 DEF Snapshot
<1>8. at > 3 => v = ctx.verdict
  OBVIOUS
<1> HIDE DEF v
<1>9. /\ ctx' \in Snapshot /\ ctx'.totals = ctx.totals + cost
      /\ ctx'.found = ctx.found /\ ctx'.verdict = v
  <2>1. ctx \in Snapshot /\ cost \in Nat /\ v \in {"none", "passed", "REJECTED"}
    BY <1>7
  <2>2. PICK m \in Nat : m = ctx.totals + cost
    BY <2>1 DEF Snapshot
  <2>3. ctx' = [ctx EXCEPT !.totals = m, !.verdict = v]
    BY <1>6, <2>1, <2>2 DEF Snapshot
  <2>4. ctx' \in Snapshot
    BY <2>1, <2>2, <2>3 DEF Snapshot
  <2>5. ctx'.totals = m /\ ctx'.found = ctx.found /\ ctx'.verdict = v
    BY <2>1, <2>3 DEF Snapshot
  <2> QED  BY <2>2, <2>4, <2>5
<1>10. /\ paidFor \in [P!Phases -> Nat] /\ at \in P!Carded /\ at \in P!Phases
       /\ paidFor' \in [P!Phases -> Nat]
       /\ \A p \in P!Phases : p # at => paidFor'[p] = paidFor[p]
       /\ paidFor'[at] = cost
  BY <1>1, <1>5, <1>6, CardedPhases DEF Books
<1>11. Books'
  BY <1>1, <1>5, <1>6, <1>9, <1>10 DEF Books
<1>12. ASSUME NEW n \in 0 .. 4, n < at PROVE PaidTo(paidFor', n) = PaidTo(paidFor, n)
  <2>1. \A p \in 1 .. n : paidFor'[p] = paidFor[p]
    BY <1>5, <1>10, <1>12, CardedPhases
  <2> QED  BY <2>1, SamePaid
<1>13. Checkpoint'
  <2>1. \A i \in 1 .. Len(memo) : i \in 0 .. 4 /\ i < at
    BY <1>1, <1>3, <1>4 DEF Books
  <2> QED  BY <1>1, <1>6, <1>12, <2>1 DEF Checkpoint
<1>14. /\ shown' \in BoardShape /\ shown'.wf = "RUNNING" /\ Clean(shown')
       /\ pendingReview' \in {0, 4, 6}
  <2>1. /\ P!Done(at) \in PhaseStatus /\ P!Done(at) # "BLOCKED"
        /\ P!Done(at) = "AWAITING" => at \in {4, 6}
    BY PhaseNumbers DEF P!Done, PhaseStatus
  <2>2. shown' \in BoardShape /\ shown'.wf = "RUNNING" /\ Clean(shown')
    BY <1>2, <1>6, <1>10, <2>1, CardWritten
  <2> QED  BY <1>1, <1>6, <2>1, <2>2 DEF Screen
<1>15. PipeTypes'
  <2>1. answers' \in Seq(Reply) /\ Once(answers', awaited')
    BY <1>6, NothingAnswered
  <2> QED  BY <1>1, <1>2, <1>5, <1>6, <1>11, <1>14, <2>1 DEF PipeTypes, Screen
<1>16. Stage'
  BY <1>4, <1>6 DEF Stage
<1>17. ctx.found # {} /\ (at > 3 => ctx.verdict # "REJECTED")
  BY <1>1, <1>5 DEF PipelineInv, Going
<1>18. CASE at = 6
  <2>1. ctx.totals = PaidTo(paidFor, 4)
    BY <1>1, <1>18 DEF PipelineInv, Going
  <2>2. ctx'.totals = PaidTo(paidFor', 4) + paidFor'[6]
    BY <1>9, <1>10, <1>12, <1>18, <2>1
  <2>3. at' = 7 /\ progress' = "deciding"
    BY <1>6, <1>18
  <2>4. Going'
    BY <1>2, <1>6, <1>8, <1>9, <1>14, <1>17, <1>18, <2>2, <2>3 DEF Going, P!Live
  <2>5. OnBoard'
    BY <1>2, <1>6, <1>14 DEF OnBoard
  <2> QED  BY <1>13, <1>15, <1>16, <2>4, <2>5 DEF PipelineInv
<1>19. CASE at \in {2, 3, 4}
  <2>1. ctx.totals = PaidTo(paidFor, at - 1)
    BY <1>1, <1>19 DEF PipelineInv, Going
  <2>2. at - 1 \in 0 .. 4 /\ at - 1 < at
    BY <1>19
  <2>3. PaidTo(paidFor', at) = PaidTo(paidFor', at - 1) + paidFor'[at]
    BY <1>10, <1>19, PaidSums
  <2>4. ctx'.totals = PaidTo(paidFor', at)
    BY <1>9, <1>10, <1>12, <2>1, <2>2, <2>3
  <2>5. at' = at /\ progress' = "saving"
    BY <1>6, <1>19
  <2>6. Going'
    BY <1>2, <1>6, <1>8, <1>9, <1>14, <1>17, <1>19, <2>4, <2>5 DEF Going, P!Live
  <2>7. OnBoard'
    BY <1>2, <1>6, <1>14 DEF OnBoard
  <2> QED  BY <1>13, <1>15, <1>16, <2>6, <2>7 DEF PipelineInv
<1> QED  BY <1>5, <1>18, <1>19

LEMMA SingleAnswerStep ==
    ASSUME PipelineInv, NEW kind \in {"result", "failed", "stopped"}, NEW cost \in Nat,
           NEW verdict, kind = "result" => verdict \in {"passed", "REJECTED"},
           P!SingleAnswer(kind, cost, verdict)
    PROVE  PipelineInv'
<1>1. progress = "waiting" /\ at # 1
  BY PhaseNumbers DEF P!SingleAnswer
<1>2. CASE kind = "result"
  BY <1>1, <1>2, SingleDone
<1>3. CASE kind # "result"
  <2>1. P!Answer(1, kind, cost).kind = kind
    BY DEF P!Answer
  <2>2. P!FailUnlessStopped(kind, at) /\ UNCHANGED <<ctx, at, paidFor>>
    BY <1>3, <2>1 DEF P!SingleAnswer, P!Single
  <2>3. UNCHANGED <<memo, halted, laggard, autoPublish>>
    BY DEF P!SingleAnswer
  <2>4. Books' /\ Checkpoint' /\ Screen /\ P!Live /\ Stage
    BY <1>1, <2>2, <2>3, SameRun DEF PipelineInv, PipeTypes, P!Live
  <2>5. shown \in BoardShape /\ Clean(shown) /\ laggard = 0
    BY <2>4, GoingBoard
  <2>6. CASE kind = "stopped"
    <3>1. P!EndFailedRun("stop", shown)
      BY <2>2, <2>6 DEF P!FailUnlessStopped
    <3> QED  BY <2>3, <2>4, <2>5, <3>1, EndsRun
  <2>7. CASE kind # "stopped"
    <3> DEFINE b == [shown EXCEPT !.card[at] = "BLOCKED"]
    <3>1. P!EndFailedRun("error", b)
      BY <2>2, <2>7 DEF P!FailUnlessStopped
    <3>2. at \in P!Carded
      BY <1>1, <2>4, CardedPhases DEF Stage
    <3>3. b \in BoardShape
      BY <2>5, <3>2, CardWritten DEF PhaseStatus
    <3> HIDE DEF b
    <3> QED  BY <2>3, <2>4, <2>5, <3>1, <3>3, EndsRun
  <2> QED  BY <2>6, <2>7
<1> QED  BY <1>2, <1>3

LEMMA SaveStep ==
    ASSUME PipelineSane, PipelineInv, P!Save
    PROVE  PipelineInv'
<1>1. /\ progress = "saving" /\ memo' = Append(memo, ctx) /\ P!Continue(at, ctx)
      /\ UNCHANGED <<ctx, halted, laggard, autoPublish, paidFor>>
  BY DEF P!Save
<1>2. Books /\ Screen /\ Stage /\ Checkpoint /\ P!Live
  BY <1>1 DEF PipelineInv, PipeTypes, P!Live
<1>3. Len(memo) \in Nat /\ at \in 1 .. 4 /\ at = Len(memo) + 1
  BY <1>1, <1>2 DEF Stage, Books
<1>4. ctx \in Snapshot /\ memo \in Seq(Snapshot)
  BY <1>2 DEF Books
<1>5. /\ memo' \in Seq(Snapshot) /\ Len(memo') = at /\ memo'[at] = ctx
      /\ \A i \in 1 .. Len(memo) : memo'[i] = memo[i]
  BY <1>1, <1>3, <1>4
<1>6. at' \in 1 .. 7
  <2>1. at' = at \/ at' = at + 1
    BY <1>1 DEF P!Continue
  <2> QED  BY <1>3, <2>1
<1>7. Books'
  <2>1. Len(memo') <= 4
    BY <1>3, <1>5
  <2> QED  BY <1>1, <1>2, <1>4, <1>5, <1>6, <2>1 DEF Books
<1>8. /\ ctx.totals = PaidTo(paidFor, at) /\ ctx.found # {}
      /\ at = 4 => ctx.verdict # "REJECTED"
  BY <1>1, <1>2, <1>3 DEF PipelineInv, Going
<1>9. Checkpoint'
  <2>1. SUFFICES ASSUME NEW i \in 1 .. at
                 PROVE  /\ memo'[i].totals = PaidTo(paidFor', i) /\ memo'[i].found # {}
                        /\ i = 4 => memo'[i].verdict # "REJECTED"
    BY <1>5 DEF Checkpoint
  <2>2. CASE i = at
    BY <1>1, <1>5, <1>8, <2>2
  <2>3. CASE i # at
    <3>1. i \in 1 .. Len(memo)
      BY <1>3, <2>3
    <3> QED  BY <1>1, <1>2, <1>5, <3>1 DEF Checkpoint
  <2> QED  BY <2>2, <2>3
<1>10. at <= Len(memo') /\ ctx.totals = PaidTo(paidFor', at) /\ ctx' = ctx
  BY <1>1, <1>3, <1>5, <1>8
<1> QED  BY <1>1, <1>2, <1>3, <1>4, <1>7, <1>8, <1>9, <1>10, Continues

LEMMA DecideStep ==
    ASSUME PipelineInv, P!Decide
    PROVE  PipelineInv'
<1>1. /\ progress = "deciding" /\ (autoPublish \/ ~halted)
      /\ UNCHANGED <<ctx, memo, halted, laggard, autoPublish, paidFor>>
  BY DEF P!Decide
<1>2. Books /\ Screen /\ Stage /\ Checkpoint /\ P!Live
  BY <1>1 DEF PipelineInv, PipeTypes, P!Live
<1>3. /\ shown \in BoardShape /\ shown.wf = "RUNNING" /\ Clean(shown) /\ laggard = 0
      /\ endedBy = "none" /\ ctx.verdict # "REJECTED" /\ at \in {5, 7}
  <2>1. at \in {5, 7}
    BY <1>1, <1>2 DEF Stage
  <2> QED  BY <1>2, <2>1, GoingBoard DEF PipelineInv, Going
<1>4. Checkpoint'
  BY <1>1, <1>2, SameBooks
<1>5. ASSUME NEW p \in {4, 6}, NEW w \in {"FINISHED", "STOPPED"}, NEW s \in {"DONE", "BLOCKED"},
             P!Decided(p, w, s)
      PROVE  PipelineInv'
  <2>1. /\ shown' = [shown EXCEPT !.wf = w, !.card[p] = s]
        /\ endedBy' = "decision" /\ progress' = "clearing"
        /\ UNCHANGED <<at, awaited, answers, pendingReview>>
    BY <1>5 DEF P!Decided
  <2> DEFINE d == [shown.card EXCEPT ![p] = s]
  <2>2. d \in [P!Carded -> PhaseStatus]
    <3>1. shown.card \in [P!Carded -> PhaseStatus]
      BY <1>3 DEF BoardShape
    <3> QED  BY <3>1, CardedPhases DEF PhaseStatus
  <2>3. shown' = [shown EXCEPT !.wf = w, !.card = d]
    BY <1>3, <2>1 DEF BoardShape
  <2> HIDE DEF d
  <2>4. shown' \in BoardShape /\ shown'.wf = w
    BY <1>3, <2>2, <2>3 DEF BoardShape
  <2>5. Books'
    BY <1>1, <1>2, <2>1 DEF Books
  <2>6. PipeTypes'
    BY <1>2, <2>1, <2>4, <2>5 DEF PipeTypes, Screen
  <2>7. Stage' /\ Going'
    BY <2>1 DEF Stage, Going, P!Live
  <2>8. OnBoard'
    BY <1>1, <1>3, <2>1, <2>4 DEF OnBoard
  <2> QED  BY <1>4, <2>6, <2>7, <2>8 DEF PipelineInv
<1>6. ASSUME at = 5, shown' = [shown EXCEPT !.card[4] = "DONE"],
             at' = 6, progress' = "dispatching",
             UNCHANGED <<awaited, answers, endedBy, pendingReview>>
      PROVE  PipelineInv'
  <2>1. shown' \in BoardShape /\ shown'.wf = "RUNNING" /\ Clean(shown')
    BY <1>3, <1>6, CardWritten, CardedPhases DEF PhaseStatus
  <2>2. Books'
    BY <1>1, <1>2, <1>6 DEF Books
  <2>3. PipeTypes'
    BY <1>2, <1>6, <2>1, <2>2 DEF PipeTypes, Screen
  <2>4. Stage'
    BY <1>6 DEF Stage
  <2>5. /\ ctx.totals = PaidTo(paidFor, 4) /\ ctx.found # {} /\ ctx.totals < SpendCap
    BY <1>1, <1>2, <1>6 DEF PipelineInv, Going
  <2>6. Going'
    BY <1>1, <1>3, <1>6, <2>1, <2>5 DEF Going, P!Live
  <2>7. OnBoard'
    BY <1>1, <1>3, <1>6, <2>1 DEF OnBoard
  <2> QED  BY <1>4, <2>3, <2>4, <2>6, <2>7 DEF PipelineInv
<1> DEFINE p == IF at = 5 THEN P!Editorial ELSE P!Revision
<1>7. p \in {4, 6}
  BY PhaseNumbers
<1>8. \/ P!Decided(p, "FINISHED", "DONE")
      \/ P!Decided(p, "STOPPED", "BLOCKED")
      \/ /\ at = 5 /\ shown' = [shown EXCEPT !.card[4] = "DONE"]
         /\ at' = 6 /\ progress' = "dispatching"
         /\ UNCHANGED <<awaited, answers, endedBy, pendingReview>>
  BY PhaseNumbers DEF P!Decide
<1> HIDE DEF p
<1> QED  BY <1>5, <1>6, <1>7, <1>8

LEMMA HaltStep ==
    ASSUME PipelineInv, P!Halt
    PROVE  PipelineInv'
<1>1. /\ P!Live /\ halted' = TRUE
      /\ laggard' = (IF progress = "dispatching" /\ at # 6 THEN at ELSE 0)
      /\ UNCHANGED <<ctx, memo, at, autoPublish, paidFor>>
  BY PhaseNumbers DEF P!Halt, P!Live
<1>2. Books /\ Screen /\ Stage /\ Checkpoint
  BY DEF PipelineInv, PipeTypes
<1>3. /\ shown \in BoardShape /\ shown.wf = "RUNNING" /\ Clean(shown)
      /\ endedBy = "none"
  BY <1>1, GoingBoard DEF PipelineInv, Going
<1>4. Checkpoint'
  BY <1>1, <1>2, SameBooks
<1>5. Books'
  <2>1. laggard' \in 0 .. 4
    BY <1>1, <1>2 DEF Stage
  <2> QED  BY <1>1, <1>2, <2>1 DEF Books
<1>6. CASE progress \in {"waiting", "deciding"} \/ (progress = "dispatching" /\ at # 6)
  <2>1. P!EndFailedRun("stop", shown)
    BY <1>6, PhaseNumbers DEF P!Halt
  <2> QED  BY <1>2, <1>3, <1>4, <1>5, <2>1, EndsRun
<1>7. CASE ~(progress \in {"waiting", "deciding"} \/ (progress = "dispatching" /\ at # 6))
  <2>1. UNCHANGED <<progress, awaited, answers, shown, endedBy, pendingReview>>
    BY <1>7, PhaseNumbers DEF P!Halt
  <2>2. PipeTypes'
    BY <1>2, <1>5, <2>1 DEF PipeTypes, Screen
  <2>3. Stage'
    BY <1>1, <1>2, <2>1 DEF Stage, P!Live
  <2>4. Going'
    BY <1>1, <2>1 DEF PipelineInv, Going, P!Live
  <2>5. laggard' = 0
    BY <1>1, <1>7
  <2>6. OnBoard'
    BY <1>3, <2>1, <2>5 DEF OnBoard
  <2> QED  BY <1>4, <2>2, <2>3, <2>4, <2>6 DEF PipelineInv
<1> QED  BY <1>6, <1>7

LEMMA HaltedReviewStep ==
    ASSUME PipelineInv, P!HaltedReview
    PROVE  PipelineInv'
<1>1. /\ P!Live /\ P!EndFailedRun("stop", shown)
      /\ UNCHANGED <<ctx, memo, at, halted, laggard, autoPublish, paidFor>>
  BY DEF P!HaltedReview, P!Live
<1>2. Screen /\ Books' /\ Checkpoint'
  BY <1>1, SameRun DEF PipelineInv, PipeTypes
<1>3. shown \in BoardShape /\ Clean(shown) /\ laggard = 0
  BY <1>1, GoingBoard
<1> QED  BY <1>1, <1>2, <1>3, EndsRun

\* The phase that was cut announces its tasks beside the run that ended.
LEMMA LateDispatchStep ==
    ASSUME PipelineInv, P!LateDispatch
    PROVE  PipelineInv'
<1>1. /\ laggard # 0 /\ shown' = P!Announced(laggard) /\ laggard' = 0
      /\ UNCHANGED <<ctx, memo, at, progress, awaited, answers, halted, endedBy, pendingReview,
                     autoPublish, paidFor>>
  BY DEF P!LateDispatch
<1>2. Books /\ Screen /\ Stage /\ Checkpoint /\ Going /\ OnBoard
  BY DEF PipelineInv, PipeTypes
<1>3. endedBy = "stop" /\ shown.wf = "STOPPED" /\ Clean(shown)
  BY <1>1, <1>2 DEF OnBoard
<1>4. ~P!Live
  BY <1>2, <1>3 DEF Going
<1>5. laggard \in {1, 2, 3, 4}
  BY <1>1, <1>2 DEF Books
<1>6. /\ shown' \in BoardShape
      /\ laggard # 1 => shown'.wf = "STOPPED" /\ Clean(shown')
      /\ laggard = 1 =>
            /\ shown'.wf = "RUNNING" /\ Clean(shown')
            /\ shown' = [wf |-> "RUNNING", card |-> P!NoCards,
                         search |-> P!AllSearches("DOING")]
  BY <1>1, <1>2, <1>3, <1>5, AnnouncedBoard
<1>7. Books' /\ Checkpoint'
  <2>1. Checkpoint'
    BY <1>1, <1>2, SameBooks
  <2> QED  BY <1>1, <1>2, <2>1 DEF Books
<1>8. PipeTypes'
  BY <1>1, <1>2, <1>6, <1>7 DEF PipeTypes, Screen
<1>9. Stage' /\ Going'
  BY <1>1, <1>2, <1>4 DEF Stage, Going, P!Live
<1>10. P!NoCards' = P!NoCards /\ P!AllSearches("DOING")' = P!AllSearches("DOING")
  BY DEF P!NoCards, P!AllSearches
<1>11. OnBoard'
  BY <1>1, <1>3, <1>6, <1>10 DEF OnBoard
<1> QED  BY <1>7, <1>8, <1>9, <1>11 DEF PipelineInv

\* The checkpoint of an ended run is wiped or kept.
LEMMA WipedBooks ==
    ASSUME PipelineInv, memo' \in {memo, <<>>},
           UNCHANGED <<ctx, at, halted, laggard, autoPublish, paidFor>>
    PROVE  Books' /\ Checkpoint'
<1>1. Books /\ Checkpoint
  BY DEF PipelineInv, PipeTypes
<1>2. CASE memo' = <<>>
  <2>1. memo' \in Seq(Snapshot) /\ Len(memo') = 0
    BY <1>2
  <2>2. Checkpoint'
    BY <2>1 DEF Checkpoint
  <2> QED  BY <1>1, <2>1, <2>2 DEF Books
<1>3. CASE memo' = memo
  BY <1>3, SameRun
<1> QED  BY <1>2, <1>3

LEMMA RunIsOver ==
    ASSUME PipelineInv, Books', Checkpoint', progress = "clearing", P!Goes("ended"),
           UNCHANGED <<ctx, at, halted, laggard, autoPublish, paidFor>>
    PROVE  PipelineInv'
<1>1. /\ progress' = "ended"
      /\ UNCHANGED <<ctx, at, halted, laggard, autoPublish, paidFor, awaited, answers, shown,
                     endedBy, pendingReview>>
  BY DEF P!Goes
<1>2. Screen /\ OnBoard
  BY DEF PipelineInv, PipeTypes
<1>3. PipeTypes'
  BY <1>1, <1>2 DEF PipeTypes, Screen
<1>4. Stage' /\ Going'
  BY <1>1 DEF Stage, Going, P!Live
<1>5. OnBoard'
  BY <1>1, <1>2 DEF OnBoard
<1> QED  BY <1>3, <1>4, <1>5 DEF PipelineInv

LEMMA ClearStep ==
    ASSUME PipelineInv, P!Clear \/ P!ClearFails
    PROVE  PipelineInv'
<1>1. /\ progress = "clearing" /\ memo' \in {memo, <<>>}
      /\ UNCHANGED <<ctx, at, halted, laggard, autoPublish, paidFor>>
      /\ P!Goes("ended") \/ (endedBy = "decision" /\ P!EndFailedRun("error", shown))
  BY DEF P!Clear, P!ClearFails
<1>2. Books' /\ Checkpoint'
  BY <1>1, WipedBooks
<1>3. CASE P!Goes("ended")
  BY <1>1, <1>2, <1>3, RunIsOver
<1>4. CASE endedBy = "decision" /\ P!EndFailedRun("error", shown)
  <2>1. Screen /\ OnBoard /\ shown \in BoardShape
    BY DEF PipelineInv, PipeTypes, Screen
  <2>2. laggard' = 0
    BY <1>1, <1>4, <2>1 DEF OnBoard
  <2> QED  BY <1>2, <1>4, <2>1, <2>2, EndsRun
<1> QED  BY <1>1, <1>3, <1>4

\* Only the checkpoint and the board outlive the process.
LEMMA LeaveStep ==
    ASSUME PipelineInv, P!Leave
    PROVE  PipelineInv'
<1>1. /\ progress' = "off" /\ ctx' = P!Fresh /\ at' = 1 /\ awaited' = {} /\ answers' = <<>>
      /\ halted' = FALSE /\ laggard' = 0 /\ endedBy' = "none" /\ pendingReview' = 0
      /\ paidFor' = [p \in P!Phases |-> IF p <= Len(memo) THEN paidFor[p] ELSE 0]
      /\ UNCHANGED <<memo, shown, autoPublish>>
  BY DEF P!Leave
<1>2. Books /\ Screen /\ Checkpoint /\ OnBoard
  BY DEF PipelineInv, PipeTypes
<1>3. ctx' \in Snapshot /\ answers' \in Seq(Reply) /\ Once(answers', awaited')
  <2>1. P!Fresh \in Snapshot
    BY DEF P!Fresh, Snapshot
  <2> QED  BY <1>1, <2>1, NothingAnswered
<1>4. PICK n \in 0 .. 4 : n = Len(memo)
  <2>1. PICK k \in Nat : k = Len(memo) /\ k <= 4
    BY <1>2 DEF Books
  <2>2. k \in 0 .. 4
    BY <2>1
  <2> QED  BY <2>1, <2>2
<1>5. /\ paidFor' \in [P!Phases -> Nat]
      /\ \A p \in 1 .. n : paidFor'[p] = paidFor[p]
  <2>1. paidFor \in [P!Phases -> Nat]
    BY <1>2 DEF Books
  <2>2. paidFor' = [p \in P!Phases |-> IF p <= n THEN paidFor[p] ELSE 0]
    BY <1>1, <1>4
  <2>3. \A p \in 1 .. n : p \in P!Phases
    BY CardedPhases
  <2> QED  BY <2>1, <2>2, <2>3
<1>6. Books'
  <2>1. paidFor' \in [P!Phases -> Nat]
    BY <1>5
  <2>2. Len(memo') <= 4 /\ memo' \in Seq(Snapshot) /\ autoPublish' \in BOOLEAN
    BY <1>1, <1>2 DEF Books
  <2>3. at' = 1 /\ laggard' = 0 /\ halted' = FALSE /\ ctx' \in Snapshot
    BY <1>1, <1>3
  <2>4. at' \in 1 .. 7 /\ laggard' \in 0 .. 4
    BY <2>3
  <2>5. halted' \in BOOLEAN
    BY <2>3
  <2> QED  BY <2>1, <2>2, <2>3, <2>4, <2>5 DEF Books
<1>7. Checkpoint'
  <2>1. ASSUME NEW i \in 1 .. n PROVE PaidTo(paidFor', i) = PaidTo(paidFor, i)
    <3>1. \A p \in 1 .. i : paidFor'[p] = paidFor[p]
      BY <1>5
    <3> QED  BY <3>1, SamePaid
  <2> QED  BY <1>1, <1>2, <1>4, <2>1 DEF Checkpoint
<1>8. PipeTypes'
  BY <1>1, <1>2, <1>3, <1>6 DEF PipeTypes, Screen
<1>9. Stage' /\ Going'
  <2>1. P!Fresh' = P!Fresh
    BY DEF P!Fresh
  <2> QED  BY <1>1, <2>1 DEF Stage, Going, P!Live
<1>10. OnBoard'
  BY <1>1, <1>2 DEF OnBoard
<1> QED  BY <1>7, <1>8, <1>9, <1>10 DEF PipelineInv

\* What every step of the pipeline keeps.
LEMMA PipelineInvHolds ==
    ASSUME PipelineSane
    PROVE  P!Spec => []PipelineInv
<1>1. ASSUME P!Init PROVE PipelineInv
  <2>1. /\ ctx = P!Fresh /\ memo = <<>> /\ at = 1 /\ progress = "off"
        /\ awaited = {} /\ answers = <<>> /\ halted = FALSE /\ laggard = 0
        /\ endedBy = "none" /\ pendingReview = 0
        /\ shown = [wf |-> "none", card |-> P!NoCards, search |-> P!AllSearches("none")]
        /\ autoPublish \in BOOLEAN /\ paidFor = [p \in P!Phases |-> 0]
    BY <1>1 DEF P!Init
  <2>2. P!Fresh \in Snapshot
    BY DEF P!Fresh, Snapshot
  <2>3. /\ memo \in Seq(Snapshot) /\ Len(memo) = 0 /\ answers \in Seq(Reply)
        /\ Once(answers, awaited)
    BY <2>1, NothingAnswered
  <2>4. shown \in BoardShape /\ Clean(shown) /\ shown.wf = "none"
    <3>1. P!NoCards \in [P!Carded -> PhaseStatus] /\ \A p \in P!Carded : P!NoCards[p] = "none"
      BY DEF P!NoCards, PhaseStatus
    <3>2. P!AllSearches("none") \in SearchCards
      BY AllOneStatus
    <3> QED  BY <2>1, <3>1, <3>2 DEF BoardShape, Clean
  <2>5. at \in 1 .. 7 /\ laggard \in 0 .. 4 /\ pendingReview \in {0, 4, 6}
    BY <2>1
  <2>6. halted \in BOOLEAN
    BY <2>1
  <2>7. Books
    <3>1. paidFor \in [P!Phases -> Nat]
      BY <2>1
    <3> QED  BY <2>1, <2>2, <2>3, <2>5, <2>6, <3>1 DEF Books
  <2>8. Screen
    BY <2>1, <2>3, <2>4, <2>5 DEF Screen
  <2>9. Stage /\ Going
    BY <2>1 DEF Stage, Going, P!Live
  <2>10. Checkpoint
    BY <2>3 DEF Checkpoint
  <2>11. OnBoard
    BY <2>1, <2>4 DEF OnBoard
  <2> QED  BY <2>7, <2>8, <2>9, <2>10, <2>11 DEF PipelineInv, PipeTypes
<1>2. ASSUME PipelineSane, PipelineInv, [P!Next]_(P!pipelineVars) PROVE PipelineInv'
  <2>1. CASE UNCHANGED P!pipelineVars
    BY <1>2, <2>1, SameBooks
    DEF P!pipelineVars, PipelineInv, PipeTypes, Books, Screen, Stage, Going,
       OnBoard, P!Live
  <2>2. CASE \/ P!Start \/ P!Resume \/ P!Enter \/ P!Dispatched \/ P!PhaseFails \/ P!Save
             \/ P!Decide \/ P!Halt \/ P!HaltedReview \/ P!LateDispatch \/ P!Leave
             \/ P!Clear \/ P!ClearFails
    BY <1>2, <2>2, StartStep, ResumeStep, EnterStep, DispatchedStep, PhaseFailsStep,
       SaveStep,
       DecideStep, HaltStep, HaltedReviewStep, LateDispatchStep, LeaveStep, ClearStep
  <2>3. \A c \in 0 .. MaxCost : c \in Nat
    BY <1>2 DEF PipelineSane
  <2>4. ASSUME NEW t \in 1 .. Searchers,
               \/ \E cost \in 0 .. MaxCost : P!SearchAnswer(t, "result", cost)
               \/ \E kind \in {"empty", "failed", "stopped"} : P!SearchAnswer(t, kind, 0)
        PROVE  PipelineInv'
    <3>1. PICK kind \in {"result", "empty", "failed", "stopped"}, cost \in Nat :
             P!SearchAnswer(t, kind, cost)
      BY <2>3, <2>4
    <3> QED  BY <1>2, <3>1, SearchAnswerStep
  <2>5. ASSUME NEW cost \in 0 .. MaxCost, NEW verdict \in {"passed", "REJECTED"},
               P!SingleAnswer("result", cost, verdict)
        PROVE  PipelineInv'
    <3>1. cost \in Nat
      BY <2>3
    <3> QED  BY <1>2, <2>5, <3>1, SingleAnswerStep
  <2>6. CASE P!SingleAnswer("failed", 0, "none") \/ P!SingleAnswer("stopped", 0, "none")
    BY <1>2, <2>6, SingleAnswerStep
  <2> QED  BY <1>2, <2>1, <2>2, <2>4, <2>5, <2>6 DEF P!Next
<1> QED  BY <1>1, <1>2, PTL DEF P!Spec

LEMMA PipelineTypesHold ==
    ASSUME PipelineSane, PipelineInv
    PROVE  P!TypeOK
  BY DEF PipelineInv, PipeTypes, Books, Screen, Snapshot, P!TypeOK

\* The totals, by the formula the run checks.
LEMMA BooksAreKept ==
    ASSUME PipelineSane, PipelineInv
    PROVE  P!RunKeepsItsBooks
<1>1. paidFor \in [P!Phases -> Nat] /\ Stage
  BY DEF PipelineInv, PipeTypes, Books
<1> DEFINE past(p) == p < at \/ (p = at /\ progress = "saving")
<1>2. \A p \in {1, 2, 3, 4, 6} : P!Paid(p) = IF past(p) THEN paidFor[p] ELSE 0
  BY CardedPhases DEF P!Paid, P!Past
<1>3. ASSUME P!Live PROVE ctx.totals = P!Paid(1) + P!Paid(2) + P!Paid(3) + P!Paid(4) + P!Paid(6)
  <2>1. /\ paidFor[1] \in Nat /\ paidFor[2] \in Nat /\ paidFor[3] \in Nat /\ paidFor[4] \in Nat
        /\ paidFor[6] \in Nat
    BY <1>1, CardedPhases
  <2>2. Going
    BY DEF PipelineInv
  <2>3. CASE progress = "saving"
    <3>1. ctx.totals = PaidTo(paidFor, at) /\ at \in 1 .. 4
      BY <1>1, <1>3, <2>2, <2>3 DEF Going, Stage
    <3> QED  BY <1>2, <2>1, <2>3, <3>1 DEF PaidTo
  <2>4. CASE progress # "saving" /\ at \in 1 .. 4
    <3>1. ctx.totals = PaidTo(paidFor, at - 1)
      BY <1>3, <2>2, <2>4 DEF Going
    <3> QED  BY <1>2, <2>1, <2>4, <3>1 DEF PaidTo
  <2>5. CASE progress # "saving" /\ at \in {5, 6}
    <3>1. ctx.totals = PaidTo(paidFor, 4)
      BY <1>3, <2>2, <2>5 DEF Going
    <3> QED  BY <1>2, <2>1, <2>5, <3>1 DEF PaidTo
  <2>6. CASE at = 7
    <3>1. ctx.totals = PaidTo(paidFor, 4) + paidFor[6]
      BY <1>3, <2>2, <2>6 DEF Going
    <3> QED  BY <1>2, <2>1, <2>6, <3>1 DEF PaidTo
  <2>7. at \in 1 .. 4 \/ at \in {5, 6} \/ at = 7
    BY <1>1, <1>3 DEF Stage, P!Live
  <2>8. at = 7 => progress # "saving"
    BY <1>1 DEF Stage
  <2> QED  BY <2>3, <2>4, <2>5, <2>6, <2>7, <2>8
<1>4. P!TotalsMatchTheWork
  BY <1>3, PhaseNumbers DEF P!TotalsMatchTheWork
<1>5. P!DispatchedWithCause
  BY <1>1, PhaseNumbers DEF P!DispatchedWithCause, PipelineInv, Going, Stage, P!Live
<1>6. P!RejectedIsNotPublished
  BY DEF P!RejectedIsNotPublished, PipelineInv, OnBoard
<1> QED  BY <1>4, <1>5, <1>6 DEF P!RunKeepsItsBooks

LEMMA StopsAreKept ==
    ASSUME PipelineSane, PipelineInv
    PROVE  P!StopEndsTheRun
<1>1. shown.search \in SearchCards /\ OnBoard
  BY DEF PipelineInv, PipeTypes, Screen, BoardShape
<1> QED  BY <1>1 DEF P!StopEndsTheRun, OnBoard, Clean, SearchCards

\* The variables of the research run keep their types.
THEOREM PipelineTypeCorrect ==
    ASSUME PipelineSane
    PROVE  Spec => []P!TypeOK
<1> QED  BY PipelineInvHolds, PipelineTypesHold, ViewsRunAlone, PTL

\* Over crashes, resumes, failures and stops the totals of the run are what its results
\* have cost, nothing is dispatched at the cap and no rejected report is published
\* (memoize, assertDispatchAllowed, runGovernancePhase).
THEOREM BooksStayKept ==
    ASSUME PipelineSane
    PROVE  Spec => []RunKeepsItsBooks
<1>1. PipelineSane /\ PipelineInv => RunKeepsItsBooks
  BY BooksAreKept DEF RunKeepsItsBooks
<1> QED  BY <1>1, PipelineInvHolds, ViewsRunAlone, PTL

\* A stop ends the run STOPPED and reports no phase as failed (endFailedRun,
\* failUnlessStopped), up to the two gaps the property names; a search task is shown
\* BLOCKED only beside one that has a result (searchPhaseComplete).
THEOREM StopsEndTheRun ==
    ASSUME PipelineSane
    PROVE  Spec => []StopEndsTheRun
<1>1. PipelineSane /\ PipelineInv => StopEndsTheRun
  BY StopsAreKept DEF StopEndsTheRun
<1> QED  BY <1>1, PipelineInvHolds, ViewsRunAlone, PTL

=============================================================================
