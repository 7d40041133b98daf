---------------------------- MODULE StateProofs ----------------------------
(* What holds of the state the system shows: the deltas of a team, the row, cards  *)
(* and tallies of an agent, and the gateway's snapshot on the boards.              *)
EXTENDS MCViews, FiniteSetTheorems, TLAPS

\* What the suite does with a component is a behaviour of the component.
LEMMA ViewsRunAlone ==
    Spec => S!Spec /\ A!Spec /\ B!Spec
<1>1. Init => S!Init /\ A!Init /\ B!Init
  BY DEF Init
<1>2. [Next]_vars => /\ [S!Next]_(S!streamVars) /\ [A!Next]_(A!stateVars)
                     /\ [B!Next]_(B!viewVars)
  BY DEF Next, vars, agent, board, review, pipeline, stream, S!streamVars, A!stateVars,
         B!viewVars
<1> QED  BY <1>1, <1>2, PTL DEF Spec, S!Spec, A!Spec, B!Spec


-----------------------------------------------------------------------------
(* StateStream: the parts of a team's store on the board.                  *)

StoreType ==
    [workflow : {"INITIAL", "RUNNING", "FINISHED"},
     agents : [Member -> S!AgentStatus], tasks : [Job -> S!TaskStatus]]

Delta == UNION {[parts -> {S!BoardPart(state, p) : state \in StoreType, p \in S!Part}] :
                    parts \in SUBSET S!Part}

\* The last delta about a part has it as the store does.
SentAs(value, p) ==
    \E i \in DOMAIN channel :
        /\ p \in DOMAIN channel[i] /\ channel[i][p] = value
        /\ \A j \in DOMAIN channel : j > i => p \notin DOMAIN channel[j]
NotSent(p) == \A i \in DOMAIN channel : p \notin DOMAIN channel[i]

\* A part whose last change was published to the subscriber is on its way there, or
\* else known.
ChangeArrives(p) ==
    \/ SentAs(S!BoardPart(store, p), p)
    \/ known[p] = S!BoardPart(store, p) /\ NotSent(p)

\* The bounds are numbers.
StreamSane == MaxMutations \in Nat /\ MaxAway \in Nat

StreamInv ==
    /\ S!TypeOK /\ channel \in Seq(Delta)
    /\ \A p \in fresh : ChangeArrives(p)

LEMMA StreamStart ==
    ASSUME StreamSane
    PROVE  S!Init => StreamInv
<1> SUFFICES ASSUME S!Init PROVE StreamInv
  OBVIOUS
<1>1. store \in StoreType
  BY DEF S!Init, StoreType, S!AgentStatus, S!TaskStatus
<1>2. DOMAIN known = S!Part
  BY DEF S!Init, S!Part
<1>3. channel = <<>> /\ channel \in Seq(Delta) /\ fresh = {}
  BY DEF S!Init
<1>4. S!TypeOK
  <2>1. \A i \in DOMAIN channel : DOMAIN channel[i] \subseteq S!Part
    BY <1>3
  <2>2. mutations \in 0 .. MaxMutations /\ away \in 0 .. MaxAway
    BY DEF S!Init, StreamSane
  <2>3. attached \in BOOLEAN /\ joined \in BOOLEAN
    BY DEF S!Init
  <2> HIDE DEF S!Init
  <2> QED
    BY <1>1, <1>2, <1>3, <2>1, <2>2, <2>3 DEF S!TypeOK, StoreType
<1> QED  BY <1>3, <1>4 DEF StreamInv

\* What an action of the store makes of it is a store.
LEMMA MutationsAreStores ==
    ASSUME StreamInv, NEW state \in S!Mutations
    PROVE  state \in StoreType
<1>1. store \in StoreType
  BY DEF StreamInv, S!TypeOK, StoreType
<1>2. PICK w \in {store.workflow, IF store.workflow = "INITIAL" THEN "RUNNING" ELSE "FINISHED"},
           m \in Member, a \in S!AgentStatus, j \in Job, t \in S!TaskStatus :
        state = S!Acted(w, m, a, j, t)
  BY DEF S!Mutations
<1>3. w \in {"INITIAL", "RUNNING", "FINISHED"}
  BY <1>1 DEF StoreType
<1>4. /\ [store.agents EXCEPT ![m] = a] \in [Member -> S!AgentStatus]
      /\ [store.tasks EXCEPT ![j] = t] \in [Job -> S!TaskStatus]
  BY <1>1 DEF StoreType
<1> QED  BY <1>1, <1>2, <1>3, <1>4 DEF StoreType, S!Acted

\* A change of the store: its delta has the parts that changed, as they are now.
LEMMA MutateHolds ==
    ASSUME StreamSane, StreamInv, NEW state \in S!Mutations, NEW published \in BOOLEAN,
           S!Mutate(state, published)
    PROVE  StreamInv'
<1> DEFINE delta == S!ToBoardDelta(state, store)
           changed == S!Changed(state, store)
<1>0. /\ state \in StoreType /\ store' = state /\ channel \in Seq(Delta)
      /\ known' = known /\ changed \subseteq S!Part
  BY MutationsAreStores DEF S!Mutate, StreamInv, S!Changed
<1>1. /\ DOMAIN delta = changed
      /\ \A p \in changed : delta[p] = S!BoardPart(state, p)
  BY DEF S!ToBoardDelta, S!Fields
<1>2. delta \in Delta
  <2> DEFINE V == {S!BoardPart(s, p) : s \in StoreType, p \in S!Part}
  <2>1. \A p \in changed : S!BoardPart(state, p) \in V
    BY <1>0
  <2>2. delta = [p \in changed |-> S!BoardPart(state, p)]
    BY DEF S!ToBoardDelta, S!Fields
  <2> HIDE DEF V, delta, changed
  <2>3. delta \in [changed -> V]
    BY <2>1, <2>2
  <2> QED  BY <1>0, <2>3 DEF Delta, V
<1>3. \A p \in S!Part \ changed : S!BoardPart(state, p) = S!BoardPart(store, p)
  BY DEF S!Changed, S!BoardPart, S!Part
<1>4. /\ \A i \in DOMAIN Append(channel, delta) : DOMAIN Append(channel, delta)[i] \subseteq S!Part
      /\ Append(channel, delta) \in Seq(Delta) /\ Len(channel) \in Nat
      /\ DOMAIN Append(channel, delta) = 1 .. Len(channel) + 1
      /\ DOMAIN channel = 1 .. Len(channel)
      /\ Append(channel, delta)[Len(channel) + 1] = delta
      /\ \A i \in DOMAIN channel : Append(channel, delta)[i] = channel[i]
  <2>1. \A i \in DOMAIN channel : DOMAIN channel[i] \subseteq S!Part
    BY DEF StreamInv, S!TypeOK
  <2> HIDE DEF delta, changed
  <2> QED  BY <1>0, <1>1, <1>2, <2>1
<1>5. S!TypeOK' /\ channel' \in Seq(Delta)
  <2>1. store' \in StoreType
    BY <1>0
  <2>2. \/ channel' = channel /\ fresh' = fresh \ changed
        \/ channel' = Append(channel, delta) /\ fresh' = fresh \cup changed
    BY DEF S!Mutate
  <2>3. mutations' \in 0 .. MaxMutations
    BY DEF S!Mutate, StreamInv, S!TypeOK, StreamSane
  <2> HIDE DEF delta, changed
  <2> QED  BY <1>0, <1>4, <2>1, <2>2, <2>3 DEF S!Mutate, StreamInv, S!TypeOK, StoreType
<1>6. CASE channel' = Append(channel, delta) /\ fresh' = fresh \cup changed
  <2> HIDE DEF delta, changed
  <2> SUFFICES ASSUME NEW p \in fresh' PROVE ChangeArrives(p)'
    BY <1>5 DEF StreamInv
  <2>1. CASE p \in changed
    <3>1. Len(channel) + 1 \in DOMAIN channel' /\ channel'[Len(channel) + 1] = delta
      BY <1>4, <1>6
    <3>2. \A j \in DOMAIN channel' : ~(j > Len(channel) + 1)
      BY <1>4, <1>6
    <3> QED  BY <1>0, <1>1, <2>1, <3>1, <3>2 DEF ChangeArrives, SentAs
  <2>2. CASE p \notin changed
    <3>1. p \in fresh /\ p \in S!Part
      BY <1>6, <2>2 DEF StreamInv, S!TypeOK
    <3>2. S!BoardPart(store', p) = S!BoardPart(store, p)
      BY <1>0, <1>3, <2>2, <3>1
    <3>3. \A i \in DOMAIN channel' : p \in DOMAIN channel'[i] =>
              i \in DOMAIN channel /\ channel'[i] = channel[i]
      BY <1>1, <1>4, <1>6, <2>2
    <3>4. \A i \in DOMAIN channel : i \in DOMAIN channel' /\ channel'[i] = channel[i]
      BY <1>4, <1>6
    <3>5. ChangeArrives(p)
      BY <3>1 DEF StreamInv
    <3>6. CASE SentAs(S!BoardPart(store, p), p)
      BY <1>0, <3>2, <3>3, <3>4, <3>6 DEF SentAs, ChangeArrives
    <3>7. CASE known[p] = S!BoardPart(store, p) /\ NotSent(p)
      BY <1>0, <3>2, <3>3, <3>7 DEF NotSent, ChangeArrives
    <3> QED  BY <3>5, <3>6, <3>7 DEF ChangeArrives
  <2> QED  BY <2>1, <2>2
<1>7. CASE channel' = channel /\ fresh' = fresh \ changed
  <2> HIDE DEF delta, changed
  <2> SUFFICES ASSUME NEW p \in fresh' PROVE ChangeArrives(p)'
    BY <1>5 DEF StreamInv
  <2>1. p \in fresh /\ p \in S!Part \ changed /\ ChangeArrives(p)
    BY <1>7 DEF StreamInv, S!TypeOK
  <2> QED  BY <1>0, <1>3, <1>7, <2>1 DEF ChangeArrives, SentAs, NotSent
<1> QED  BY <1>6, <1>7 DEF S!Mutate

\* onMessage: the parts of the first delta are known, the rest is still under way.
LEMMA DeliverHolds ==
    ASSUME StreamInv, S!Deliver
    PROVE  StreamInv'
<1>1. /\ channel \in Seq(Delta) /\ channel # <<>> /\ channel' = Tail(channel)
      /\ DOMAIN channel = 1 .. Len(channel) /\ Len(channel) \in Nat \ {0}
      /\ channel' \in Seq(Delta) /\ DOMAIN channel' = 1 .. Len(channel) - 1
      /\ \A i \in DOMAIN channel' : channel'[i] = channel[i + 1]
      /\ Head(channel) = channel[1] /\ store' = store /\ fresh' = fresh
  BY DEF StreamInv, S!Deliver
<1>2. /\ DOMAIN known' = S!Part
      /\ \A p \in S!Part : known'[p] = IF p \in DOMAIN channel[1] THEN channel[1][p]
                                       ELSE known[p]
  BY <1>1 DEF S!Deliver
<1>3. S!TypeOK'
  <2>1. \A i \in DOMAIN channel' : i + 1 \in DOMAIN channel
    BY <1>1
  <2>2. \A i \in DOMAIN channel' : DOMAIN channel'[i] \subseteq S!Part
    BY <1>1, <2>1 DEF StreamInv, S!TypeOK
  <2> QED  BY <1>1, <1>2, <2>2 DEF S!Deliver, StreamInv, S!TypeOK
<1>4. ASSUME NEW p \in fresh PROVE ChangeArrives(p)'
  <2>0. ChangeArrives(p) /\ p \in S!Part /\ 1 \in DOMAIN channel
    BY <1>1 DEF StreamInv, S!TypeOK
  <2>1. CASE NotSent(p) /\ known[p] = S!BoardPart(store, p)
    <3>1. p \notin DOMAIN channel[1] /\ \A i \in DOMAIN channel' : p \notin DOMAIN channel'[i]
      <4>1. \A i \in DOMAIN channel' : i + 1 \in DOMAIN channel
        BY <1>1
      <4> QED  BY <1>1, <2>0, <2>1, <4>1 DEF NotSent
    <3> QED  BY <1>1, <1>2, <2>0, <2>1, <3>1 DEF ChangeArrives, NotSent
  <2>2. CASE SentAs(S!BoardPart(store, p), p)
    <3>1. PICK i \in DOMAIN channel :
              /\ p \in DOMAIN channel[i] /\ channel[i][p] = S!BoardPart(store, p)
              /\ \A j \in DOMAIN channel : j > i => p \notin DOMAIN channel[j]
      BY <2>2 DEF SentAs
    <3>2. CASE i = 1
      <4>1. \A j \in DOMAIN channel' : j + 1 \in DOMAIN channel /\ j + 1 > 1
        BY <1>1
      <4>2. \A j \in DOMAIN channel' : p \notin DOMAIN channel'[j]
        BY <1>1, <3>1, <3>2, <4>1
      <4> QED  BY <1>1, <1>2, <2>0, <3>1, <3>2, <4>2 DEF ChangeArrives, NotSent
    <3>3. CASE i # 1
      <4>1. i - 1 \in DOMAIN channel' /\ i - 1 + 1 = i
        BY <1>1, <3>3
      <4>2. \A j \in DOMAIN channel' : j > i - 1 => j + 1 \in DOMAIN channel /\ j + 1 > i
        BY <1>1
      <4>3. \A j \in DOMAIN channel' : j > i - 1 => p \notin DOMAIN channel'[j]
        BY <1>1, <3>1, <4>2
      <4>4. channel'[i - 1] = channel[i]
        BY <1>1, <4>1
      <4> QED  BY <1>1, <3>1, <4>1, <4>3, <4>4 DEF ChangeArrives, SentAs
    <3> QED  BY <3>2, <3>3
  <2> QED  BY <2>0, <2>1, <2>2 DEF ChangeArrives
<1> QED  BY <1>1, <1>3, <1>4 DEF StreamInv

LEMMA StreamStep ==
    ASSUME StreamSane, StreamInv, [S!Next]_(S!streamVars)
    PROVE  StreamInv'
<1>1. CASE S!Disconnected
  <2>1. channel' = <<>> /\ store' = store /\ known' = known
    BY <1>1 DEF S!Disconnected
  <2>2. \A p \in fresh' : p \in fresh /\ NotSent(p)
    BY <1>1 DEF S!Disconnected, S!Range, NotSent
  <2>3. \A p \in fresh' : ChangeArrives(p)'
    BY <2>1, <2>2 DEF StreamInv, ChangeArrives, SentAs, NotSent
  <2>4. S!TypeOK' /\ channel' \in Seq(Delta)
    <3>1. channel' \in Seq(Delta) /\ \A i \in DOMAIN channel' : DOMAIN channel'[i] = {}
      BY <2>1
    <3>2. away' \in 0 .. MaxAway
      BY <1>1 DEF S!Disconnected, StreamInv, S!TypeOK, StreamSane
    <3> QED
      BY <1>1, <2>1, <2>2, <3>1, <3>2 DEF S!Disconnected, StreamInv, S!TypeOK, StreamSane
  <2> QED  BY <2>3, <2>4 DEF StreamInv
<1>2. CASE S!Detach \/ S!Join \/ UNCHANGED S!streamVars
  <2>1. /\ UNCHANGED <<store, channel, known, fresh, mutations, away>>
        /\ attached' \in BOOLEAN /\ joined' \in BOOLEAN
    BY <1>2 DEF S!Detach, S!Join, S!streamVars, StreamInv, S!TypeOK
  <2> QED  BY <2>1 DEF StreamInv, S!TypeOK, ChangeArrives, SentAs, NotSent
<1> QED  BY <1>1, <1>2, MutateHolds, DeliverHolds DEF S!Next

LEMMA StreamInvHolds ==
    ASSUME StreamSane
    PROVE  S!Spec => []StreamInv
BY StreamStart, StreamStep, PTL DEF S!Spec

\* The variables of DistributedStateMiddleware, the channel and its subscriber keep
\* their types.
THEOREM StreamTypeCorrect ==
    ASSUME StreamSane
    PROVE  S!Spec => []S!TypeOK
<1>1. StreamInv => S!TypeOK
  BY DEF StreamInv
<1> QED  BY <1>1, StreamInvHolds, PTL

\* A lost delta or a subscriber that was away costs no more than the parts it was about,
\* until they change again (publish, toBoardDelta), for any team.
THEOREM StreamAlwaysHeals ==
    ASSUME StreamSane
    PROVE  Spec => []StreamHeals
<1>1. StreamInv => StreamHeals
  BY DEF StreamHeals, StreamInv, S!StreamHeals, ChangeArrives, SentAs
<1> QED  BY <1>1, StreamInvHolds, ViewsRunAlone, PTL


-----------------------------------------------------------------------------
(* AgentState: remembered stops and tallies, as sequences.                 *)

Entry == [task : Task, used : Nat]

\* No entry is twice in s, no task has two tallies in s.
Distinct(s) == \A i, j \in DOMAIN s : s[i] = s[j] => i = j
OnePerTask(s) == \A i, j \in DOMAIN s : s[i].task = s[j].task => i = j

\* The tallies in s say what f says, and leave out no task f has something for.
Books(s, f) ==
    /\ \A i \in DOMAIN s : s[i].used = f[s[i].task]
    /\ \A u \in Task : f[u] # 0 => \E i \in DOMAIN s : s[i].task = u

\* Deleting the entry at one index moves the later ones down.
LEMMA RemoveOne ==
    ASSUME NEW Elem, NEW s \in Seq(Elem), NEW g \in DOMAIN s
    PROVE  /\ A!RemoveAt(s, g) \in Seq(Elem)
           /\ Len(A!RemoveAt(s, g)) = Len(s) - 1
           /\ \A i \in 1 .. (Len(s) - 1) :
                 A!RemoveAt(s, g)[i] = s[IF i < g THEN i ELSE i + 1]
<1> DEFINE front == SubSeq(s, 1, g - 1)
           back == SubSeq(s, g + 1, Len(s))
<1>1. g \in 1 .. Len(s) /\ Len(s) \in Nat
  OBVIOUS
<1>2. /\ front \in Seq(Elem) /\ Len(front) = g - 1
      /\ \A i \in 1 .. (g - 1) : front[i] = s[i]
  BY <1>1
<1>3. /\ back \in Seq(Elem) /\ Len(back) = Len(s) - g
      /\ \A i \in 1 .. (Len(s) - g) : back[i] = s[i + g]
  BY <1>1
<1>4. A!RemoveAt(s, g) = front \o back
  BY DEF A!RemoveAt
<1> HIDE DEF front, back
<1>5. /\ front \o back \in Seq(Elem) /\ Len(front \o back) = Len(s) - 1
      /\ \A i \in 1 .. (Len(s) - 1) :
            (front \o back)[i] = IF i <= g - 1 THEN front[i] ELSE back[i - (g - 1)]
  <2> front \in Seq(Elem) /\ back \in Seq(Elem)
    BY <1>2, <1>3
  <2>1. front \o back \in Seq(Elem) /\ Len(front \o back) = Len(front) + Len(back)
    OBVIOUS
  <2>2. \A i \in 1 .. (Len(front) + Len(back)) :
           (front \o back)[i] = IF i <= Len(front) THEN front[i] ELSE back[i - Len(front)]
    OBVIOUS
  <2>3. Len(front) + Len(back) = Len(s) - 1
    BY <1>1, <1>2, <1>3
  <2> QED  BY <1>2, <2>1, <2>2, <2>3
<1>6. ASSUME NEW i \in 1 .. (Len(s) - 1)
      PROVE  (front \o back)[i] = s[IF i < g THEN i ELSE i + 1]
  <2>1. CASE i < g
    <3>1. i <= g - 1 /\ i \in 1 .. (g - 1)
      BY <1>1, <2>1
    <3> QED  BY <1>2, <1>5, <2>1, <3>1
  <2>2. CASE ~(i < g)
    <3>1. ~(i <= g - 1) /\ i - (g - 1) \in 1 .. (Len(s) - g) /\ (i - (g - 1)) + g = i + 1
      BY <1>1, <2>2
    <3> QED  BY <1>3, <1>5, <2>2, <3>1
  <2> QED  BY <2>1, <2>2
<1> QED  BY <1>4, <1>5, <1>6

\* What is left after a deletion, index by index.
LEMMA WhatIsLeft ==
    ASSUME NEW Elem, NEW s \in Seq(Elem), NEW gone \in SUBSET (DOMAIN s),
           \A i, j \in gone : i = j
    PROVE  /\ A!Without(s, gone) \in Seq(Elem)
           /\ Len(A!Without(s, gone)) <= Len(s)
           /\ \E at_ \in [DOMAIN A!Without(s, gone) -> DOMAIN s \ gone] :
                 /\ \A i, j \in DOMAIN A!Without(s, gone) : at_[i] = at_[j] => i = j
                 /\ \A i \in DOMAIN A!Without(s, gone) : A!Without(s, gone)[i] = s[at_[i]]
                 /\ \A k \in DOMAIN s \ gone :
                       \E i \in DOMAIN A!Without(s, gone) : at_[i] = k
<1>1. CASE gone = {}
  <2>1. A!Without(s, gone) = s
    BY <1>1 DEF A!Without
  <2>2. [i \in DOMAIN s |-> i] \in [DOMAIN s -> DOMAIN s \ gone]
    BY <1>1
  <2>3. \A i \in DOMAIN s : [k \in DOMAIN s |-> k][i] = i
    OBVIOUS
  <2>4. Len(s) <= Len(s)
    OBVIOUS
  <2> QED  BY <2>1, <2>2, <2>3, <2>4
<1>2. ASSUME NEW g \in gone
      PROVE  /\ A!Without(s, gone) \in Seq(Elem)
             /\ Len(A!Without(s, gone)) <= Len(s)
             /\ \E at_ \in [DOMAIN A!Without(s, gone) -> DOMAIN s \ gone] :
                   /\ \A i, j \in DOMAIN A!Without(s, gone) : at_[i] = at_[j] => i = j
                   /\ \A i \in DOMAIN A!Without(s, gone) : A!Without(s, gone)[i] = s[at_[i]]
                   /\ \A k \in DOMAIN s \ gone :
                         \E i \in DOMAIN A!Without(s, gone) : at_[i] = k
  <2>1. gone = {g} /\ g \in DOMAIN s
    OBVIOUS
  <2>2. A!Without(s, gone) = A!RemoveAt(s, g)
    BY <2>1 DEF A!Without
  <2> DEFINE w == A!Without(s, gone)
             at_ == [i \in 1 .. (Len(s) - 1) |-> IF i < g THEN i ELSE i + 1]
  <2>3. /\ w \in Seq(Elem) /\ Len(w) = Len(s) - 1
        /\ \A i \in 1 .. (Len(s) - 1) : w[i] = s[IF i < g THEN i ELSE i + 1]
    BY <2>1, <2>2, RemoveOne
  <2> HIDE DEF w
  <2>4. g \in 1 .. Len(s) /\ Len(s) \in Nat /\ DOMAIN s = 1 .. Len(s)
    BY <2>1
  <2>5. DOMAIN w = 1 .. (Len(s) - 1)
    BY <2>3
  <2>6. at_ \in [DOMAIN w -> DOMAIN s \ gone]
    <3>1. ASSUME NEW i \in 1 .. (Len(s) - 1)
          PROVE  (IF i < g THEN i ELSE i + 1) \in DOMAIN s \ gone
      BY <2>1, <2>4
    <3> QED  BY <2>5, <3>1
  <2>7. \A i, j \in DOMAIN w : at_[i] = at_[j] => i = j
    BY <2>4, <2>5
  <2>8. \A i \in DOMAIN w : w[i] = s[at_[i]]
    BY <2>3, <2>5
  <2>9. ASSUME NEW k \in DOMAIN s \ gone
        PROVE  \E i \in DOMAIN w : at_[i] = k
    <3>1. k \in 1 .. Len(s) /\ k # g
      BY <2>1, <2>4
    <3>2. CASE k < g
      <4>1. k \in 1 .. (Len(s) - 1) /\ at_[k] = k
        BY <2>4, <3>1, <3>2
      <4> QED  BY <2>5, <4>1
    <3>3. CASE ~(k < g)
      <4>1. k - 1 \in 1 .. (Len(s) - 1) /\ at_[k - 1] = k
        BY <2>4, <3>1, <3>3
      <4> QED  BY <2>5, <4>1
    <3> QED  BY <3>2, <3>3
  <2>10. Len(w) <= Len(s)
    BY <2>3, <2>4
  <2> HIDE DEF at_
  <2>11. \E f \in [DOMAIN w -> DOMAIN s \ gone] :
            /\ \A i, j \in DOMAIN w : f[i] = f[j] => i = j
            /\ \A i \in DOMAIN w : w[i] = s[f[i]]
            /\ \A k \in DOMAIN s \ gone : \E i \in DOMAIN w : f[i] = k
    BY <2>6, <2>7, <2>8, <2>9
  <2> QED  BY <2>3, <2>10, <2>11 DEF w
<1> QED  BY <1>1, <1>2

\* An entry is written last; the oldest may go.
LEMMA WhatIsWritten ==
    ASSUME NEW Elem, NEW s \in Seq(Elem), NEW e \in Elem, NEW max \in Nat
    PROVE  /\ A!Written(s, e, max) \in Seq(Elem)
           /\ Len(s) <= max => Len(A!Written(s, e, max)) <= max
           /\ Len(s) < max => A!Written(s, e, max) = Append(s, e)
           /\ ~(Len(s) < max) => A!Written(s, e, max) = Tail(Append(s, e))
<1>1. Append(s, e) \in Seq(Elem) /\ Len(Append(s, e)) = Len(s) + 1 /\ Len(s) \in Nat
  OBVIOUS
<1>2. Append(s, e) # <<>>
  BY <1>1
<1>3. Tail(Append(s, e)) \in Seq(Elem) /\ Len(Tail(Append(s, e))) = Len(s)
  BY <1>1, <1>2
<1> QED  BY <1>1, <1>3 DEF A!Written

LEMMA LastOfAppend ==
    ASSUME NEW Elem, NEW s \in Seq(Elem), NEW e \in Elem
    PROVE  /\ Append(s, e) \in Seq(Elem)
           /\ DOMAIN Append(s, e) = 1 .. (Len(s) + 1)
           /\ \A i \in DOMAIN s : Append(s, e)[i] = s[i]
           /\ Append(s, e)[Len(s) + 1] = e
           /\ DOMAIN s = 1 .. Len(s) /\ Len(s) \in Nat
           /\ Tail(Append(s, e)) \in Seq(Elem)
           /\ DOMAIN Tail(Append(s, e)) = 1 .. Len(s)
           /\ \A i \in 1 .. Len(s) : Tail(Append(s, e))[i] = Append(s, e)[i + 1]
<1>1. Append(s, e) \in Seq(Elem) /\ Len(Append(s, e)) = Len(s) + 1 /\ Len(s) \in Nat
  OBVIOUS
<1>2. Append(s, e) # <<>>
  BY <1>1
<1>3. Tail(Append(s, e)) \in Seq(Elem) /\ Len(Tail(Append(s, e))) = Len(s)
  BY <1>1, <1>2
<1>4. \A i \in 1 .. Len(s) : Tail(Append(s, e))[i] = Append(s, e)[i + 1]
  BY <1>1, <1>2
<1> QED  BY <1>1, <1>3, <1>4

\* A task whose stop is forgotten is not remembered, and no other one comes in.
LEMMA Forgotten ==
    ASSUME NEW t \in Task, stoppedTaskIds \in Seq(Task), Distinct(stoppedTaskIds)
    PROVE  /\ A!Forget(t) \in Seq(Task) /\ Distinct(A!Forget(t))
           /\ \A i \in DOMAIN A!Forget(t) :
                 A!Forget(t)[i] # t /\ A!IsStopped(A!Forget(t)[i])
<1> DEFINE gone == A!StoppedAt(t)
           w == A!Without(stoppedTaskIds, gone)
<1>1. gone \in SUBSET (DOMAIN stoppedTaskIds) /\ \A i, j \in gone : i = j
  BY DEF Distinct, A!StoppedAt
<1>2. \A i \in DOMAIN stoppedTaskIds \ gone : stoppedTaskIds[i] # t
  BY DEF A!StoppedAt
<1>3. A!Forget(t) = w
  BY DEF A!Forget
<1> HIDE DEF gone
<1>4. /\ w \in Seq(Task)
      /\ \E at_ \in [DOMAIN w -> DOMAIN stoppedTaskIds \ gone] :
            /\ \A i, j \in DOMAIN w : at_[i] = at_[j] => i = j
            /\ \A i \in DOMAIN w : w[i] = stoppedTaskIds[at_[i]]
  BY <1>1, WhatIsLeft
<1> HIDE DEF w
<1>5. PICK at_ \in [DOMAIN w -> DOMAIN stoppedTaskIds \ gone] :
          /\ \A i, j \in DOMAIN w : at_[i] = at_[j] => i = j
          /\ \A i \in DOMAIN w : w[i] = stoppedTaskIds[at_[i]]
  BY <1>4
<1>6. \A i \in DOMAIN w : at_[i] \in DOMAIN stoppedTaskIds \ gone
  BY <1>5
<1>7. Distinct(w)
  BY <1>5, <1>6 DEF Distinct
<1>8. \A i \in DOMAIN w : w[i] # t /\ A!IsStopped(w[i])
  BY <1>2, <1>5, <1>6 DEF A!IsStopped, A!StoppedAt
<1> QED  BY <1>3, <1>4, <1>7, <1>8

\* A stop is remembered once, and no other one comes in.
LEMMA Remembered ==
    ASSUME NEW t \in Task, stoppedTaskIds \in Seq(Task), Distinct(stoppedTaskIds),
           MaxStops \in Nat, ~A!IsStopped(t)
    PROVE  /\ A!Remember(t) \in Seq(Task) /\ Distinct(A!Remember(t))
           /\ \A i \in DOMAIN A!Remember(t) :
                 A!Remember(t)[i] = t \/ A!IsStopped(A!Remember(t)[i])
<1> DEFINE s == stoppedTaskIds
           w == Append(s, t)
<1> HIDE DEF s
<1>1. s \in Seq(Task) /\ Distinct(s)
  BY DEF s
<1>2. /\ w \in Seq(Task) /\ DOMAIN w = 1 .. (Len(s) + 1) /\ \A i \in DOMAIN s : w[i] = s[i]
      /\ w[Len(s) + 1] = t /\ DOMAIN s = 1 .. Len(s) /\ Len(s) \in Nat
      /\ Tail(w) \in Seq(Task) /\ DOMAIN Tail(w) = 1 .. Len(s)
      /\ \A i \in 1 .. Len(s) : Tail(w)[i] = w[i + 1]
  BY <1>1, LastOfAppend
<1>3. \A i \in DOMAIN s : s[i] # t /\ A!IsStopped(s[i])
  BY DEF s, A!IsStopped, A!StoppedAt
<1> HIDE DEF w
<1>4. \A i \in 1 .. (Len(s) + 1) : i \in DOMAIN s \/ i = Len(s) + 1
  BY <1>2
<1>5. Distinct(w)
  BY <1>1, <1>2, <1>3, <1>4 DEF Distinct
<1>6. \A i \in DOMAIN w : w[i] = t \/ A!IsStopped(w[i])
  BY <1>2, <1>3, <1>4
<1>7. \A i \in DOMAIN Tail(w) : i + 1 \in DOMAIN w /\ Tail(w)[i] = w[i + 1]
  BY <1>2
<1>8. \A i, j \in DOMAIN Tail(w) : i + 1 = j + 1 => i = j
  BY <1>2
<1>9. Distinct(Tail(w)) /\ \A i \in DOMAIN Tail(w) : Tail(w)[i] = t \/ A!IsStopped(Tail(w)[i])
  BY <1>5, <1>6, <1>7, <1>8 DEF Distinct
<1>10. A!Remember(t) = w \/ A!Remember(t) = Tail(w)
  BY <1>1, WhatIsWritten DEF A!Remember, s, w
<1> QED  BY <1>2, <1>5, <1>6, <1>9, <1>10

\* A tally is the number of its entry.
LEMMA TallyOfEntry ==
    ASSUME taskTokensUsed \in Seq(Entry), OnePerTask(taskTokensUsed),
           NEW k \in DOMAIN taskTokensUsed
    PROVE  A!TaskUsed(taskTokensUsed[k].task) = taskTokensUsed[k].used
<1>1. A!TalliedAt(taskTokensUsed[k].task) = {k}
  BY DEF A!TalliedAt, OnePerTask
<1>2. (CHOOSE i \in {k} : TRUE) = k
  OBVIOUS
<1> QED  BY <1>1, <1>2 DEF A!TaskUsed

LEMMA TallyIsNumber ==
    ASSUME taskTokensUsed \in Seq(Entry), OnePerTask(taskTokensUsed), NEW t \in Task
    PROVE  A!TaskUsed(t) \in Nat
<1>1. CASE A!TalliedAt(t) = {}
  BY <1>1 DEF A!TaskUsed
<1>2. ASSUME NEW k \in A!TalliedAt(t) PROVE A!TaskUsed(t) \in Nat
  <2>1. k \in DOMAIN taskTokensUsed /\ taskTokensUsed[k].task = t
    BY DEF A!TalliedAt
  <2>2. taskTokensUsed[k] \in Entry
    BY <2>1
  <2> QED  BY <2>1, <2>2, TallyOfEntry DEF Entry
<1> QED  BY <1>1, <1>2

\* The tallies are what was spent, when no task was left out.
LEMMA BooksAreTallies ==
    ASSUME taskTokensUsed \in Seq(Entry), OnePerTask(taskTokensUsed),
           Books(taskTokensUsed, spent), NEW t \in Task
    PROVE  A!TaskUsed(t) = spent[t]
<1>1. CASE A!TalliedAt(t) = {}
  BY <1>1 DEF A!TaskUsed, A!TalliedAt, Books
<1>2. ASSUME NEW k \in A!TalliedAt(t) PROVE A!TaskUsed(t) = spent[t]
  <2>1. k \in DOMAIN taskTokensUsed /\ taskTokensUsed[k].task = t
    BY DEF A!TalliedAt
  <2> QED  BY <2>1, TallyOfEntry DEF Books
<1> QED  BY <1>1, <1>2

LEMMA AgentIsCounted == \A X_ : A!Cardinality(X_) = Cardinality(X_)
  BY DEF A!Cardinality, Cardinality

\* Tallies of different tasks are at most as many as the tasks.
LEMMA TalliesAreFew ==
    ASSUME NEW s \in Seq(Entry), OnePerTask(s), IsFiniteSet(Task)
    PROVE  Len(s) <= Cardinality(Task)
<1> DEFINE who == [i \in 1 .. Len(s) |-> s[i].task]
<1>1. Len(s) \in Nat /\ DOMAIN s = 1 .. Len(s) /\ \A i \in DOMAIN s : s[i] \in Entry
  OBVIOUS
<1>2. \A i \in 1 .. Len(s) : s[i].task \in Task
  BY <1>1 DEF Entry
<1>3. who \in [1 .. Len(s) -> Task]
  BY <1>2
<1>4. \A i, j \in 1 .. Len(s) : who[i] = who[j] => i = j
  BY <1>1 DEF OnePerTask
<1>5. who \in Injection(1 .. Len(s), Task)
  BY <1>3, <1>4 DEF Injection, IsInjective
<1>6. Cardinality(1 .. Len(s)) <= Cardinality(Task)
  BY <1>5, FS_Injection
<1>7. Cardinality(1 .. Len(s)) = IF 1 > Len(s) THEN 0 ELSE Len(s) - 1 + 1
  BY <1>1, FS_Interval
<1>8. Cardinality(1 .. Len(s)) = Len(s)
  BY <1>1, <1>7
<1> QED  BY <1>6, <1>8

\* accountTokens keeps one tally per task, and the books when no tally has to go.
LEMMA TallyWritten ==
    ASSUME taskTokensUsed \in Seq(Entry), OnePerTask(taskTokensUsed),
           Len(taskTokensUsed) <= MaxTracked, MaxTracked \in Nat, IsFiniteSet(Task),
           spent \in [Task -> Nat], NEW t \in Task, NEW use \in Nat
    PROVE  /\ A!Tallied(t, use) \in Seq(Entry) /\ OnePerTask(A!Tallied(t, use))
           /\ Len(A!Tallied(t, use)) <= MaxTracked
           /\ Cardinality(Task) <= MaxTracked /\ Books(taskTokensUsed, spent)
              => Books(A!Tallied(t, use), [spent EXCEPT ![t] = @ + use])
<1> DEFINE s == taskTokensUsed
           gone == A!TalliedAt(t)
           w == A!Without(s, gone)
           e == [task |-> t, used |-> A!TaskUsed(t) + use]
           more == Append(w, e)
<1>1. gone \in SUBSET (DOMAIN s) /\ \A i, j \in gone : i = j
  BY DEF OnePerTask, A!TalliedAt
<1>2. \A i \in DOMAIN s \ gone : s[i].task # t
  BY DEF A!TalliedAt
<1>3. e \in Entry
  <2>1. A!TaskUsed(t) \in Nat
    BY TallyIsNumber
  <2>2. A!TaskUsed(t) + use \in Nat
    BY <2>1
  <2> QED  BY <2>2 DEF Entry
<1>4. A!Tallied(t, use) = A!Written(w, e, MaxTracked)
  BY DEF A!Tallied
<1>5. s \in Seq(Entry) /\ OnePerTask(s) /\ Len(s) <= MaxTracked
  OBVIOUS
<1>6. \A u \in Task : Books(s, spent) => A!TaskUsed(u) = spent[u]
  BY BooksAreTallies
<1>7. e.task = t /\ e.used = A!TaskUsed(t) + use
  OBVIOUS
<1> HIDE DEF s, gone, e
<1>8. /\ w \in Seq(Entry) /\ Len(w) <= Len(s)
      /\ \E at_ \in [DOMAIN w -> DOMAIN s \ gone] :
            /\ \A i, j \in DOMAIN w : at_[i] = at_[j] => i = j
            /\ \A i \in DOMAIN w : w[i] = s[at_[i]]
            /\ \A k \in DOMAIN s \ gone : \E i \in DOMAIN w : at_[i] = k
  BY <1>1, <1>5, WhatIsLeft
<1> HIDE DEF w
<1>9. PICK at_ \in [DOMAIN w -> DOMAIN s \ gone] :
          /\ \A i, j \in DOMAIN w : at_[i] = at_[j] => i = j
          /\ \A i \in DOMAIN w : w[i] = s[at_[i]]
          /\ \A k \in DOMAIN s \ gone : \E i \in DOMAIN w : at_[i] = k
  BY <1>8
<1>10. \A i \in DOMAIN w : at_[i] \in DOMAIN s \ gone
  BY <1>9
<1>11. OnePerTask(w) /\ \A i \in DOMAIN w : w[i].task # t
  BY <1>2, <1>5, <1>9, <1>10 DEF OnePerTask
<1>12. /\ more \in Seq(Entry) /\ DOMAIN more = 1 .. (Len(w) + 1)
       /\ \A i \in DOMAIN w : more[i] = w[i]
       /\ more[Len(w) + 1] = e /\ DOMAIN w = 1 .. Len(w) /\ Len(w) \in Nat
       /\ Tail(more) \in Seq(Entry) /\ DOMAIN Tail(more) = 1 .. Len(w)
       /\ \A i \in 1 .. Len(w) : Tail(more)[i] = more[i + 1]
  <2>1. w \in Seq(Entry)
    BY <1>8
  <2> QED  BY <1>3, <2>1, LastOfAppend
<1>13. /\ A!Tallied(t, use) \in Seq(Entry)
       /\ Len(A!Tallied(t, use)) <= MaxTracked
       /\ Len(w) < MaxTracked => A!Tallied(t, use) = more
       /\ ~(Len(w) < MaxTracked) => A!Tallied(t, use) = Tail(more)
  <2>1. Len(w) <= MaxTracked
    BY <1>5, <1>8, <1>12
  <2>2. w \in Seq(Entry)
    BY <1>8
  <2> QED  BY <1>3, <1>4, <2>1, <2>2, WhatIsWritten DEF more
<1>14. \A i \in DOMAIN more : i \in DOMAIN w \/ i = Len(w) + 1
  BY <1>12
<1>15. Len(more) = Len(w) + 1
  BY <1>12
<1> HIDE DEF more
<1>16. OnePerTask(more)
  BY <1>7, <1>11, <1>12, <1>14 DEF OnePerTask
<1>17. OnePerTask(Tail(more))
  <2>1. \A i \in DOMAIN Tail(more) : i + 1 \in DOMAIN more /\ Tail(more)[i] = more[i + 1]
    BY <1>12
  <2>2. \A i, j \in DOMAIN Tail(more) : i + 1 = j + 1 => i = j
    BY <1>12
  <2> QED  BY <1>16, <2>1, <2>2 DEF OnePerTask
<1>18. OnePerTask(A!Tallied(t, use))
  BY <1>13, <1>16, <1>17
<1>19. ASSUME Cardinality(Task) <= MaxTracked, Books(s, spent)
       PROVE  Books(A!Tallied(t, use), [spent EXCEPT ![t] = @ + use])
  <2>1. Len(w) < MaxTracked
    <3>1. Len(more) <= Cardinality(Task)
      BY <1>12, <1>16, TalliesAreFew
    <3>2. Cardinality(Task) \in Nat
      BY FS_CardinalityType
    <3> QED  BY <1>12, <1>15, <1>19, <3>1, <3>2
  <2>2. A!Tallied(t, use) = more
    BY <1>13, <2>1
  <2> DEFINE f == [spent EXCEPT ![t] = @ + use]
  <2>3. f[t] = spent[t] + use /\ \A u \in Task : u # t => f[u] = spent[u]
    OBVIOUS
  <2> HIDE DEF f
  <2>4. ASSUME NEW i \in DOMAIN more PROVE more[i].used = f[more[i].task]
    <3>1. CASE i \in DOMAIN w
      <4>1. more[i] = s[at_[i]] /\ at_[i] \in DOMAIN s
        BY <1>9, <1>10, <1>12, <3>1
      <4>2. s[at_[i]].used = spent[s[at_[i]].task]
        BY <1>19, <4>1 DEF Books
      <4>3. s[at_[i]].task \in Task /\ s[at_[i]].task # t
        <5>1. s[at_[i]] \in Entry
          BY <1>5, <4>1
        <5> QED  BY <1>2, <1>10, <3>1, <5>1 DEF Entry
      <4> QED  BY <2>3, <4>1, <4>2, <4>3
    <3>2. CASE i = Len(w) + 1
      BY <1>6, <1>7, <1>12, <1>19, <2>3, <3>2
    <3> QED  BY <1>14, <3>1, <3>2
  <2>5. ASSUME NEW u \in Task, f[u] # 0 PROVE \E i \in DOMAIN more : more[i].task = u
    <3>1. CASE u = t
      BY <1>7, <1>12, <3>1
    <3>2. CASE u # t
      <4>1. spent[u] # 0
        BY <2>3, <2>5, <3>2
      <4>2. PICK k \in DOMAIN s : s[k].task = u
        BY <1>19, <4>1 DEF Books
      <4>3. k \notin gone
        BY <3>2, <4>2 DEF gone, s, A!TalliedAt
      <4>4. PICK i \in DOMAIN w : at_[i] = k
        BY <1>9, <4>3
      <4>5. i \in DOMAIN more /\ more[i] = s[k]
        BY <1>9, <1>12, <4>4
      <4> QED  BY <4>2, <4>5
    <3> QED  BY <3>1, <3>2
  <2>6. Books(more, f)
    BY <2>4, <2>5 DEF Books
  <2> QED  BY <2>2, <2>6 DEF f
<1> QED  BY <1>13, <1>18, <1>19 DEF s

\* The tokens spent, counted one by one: use more of them after use more are spent.
LEMMA OneSpendsMore ==
    ASSUME IsFiniteSet(Task), spent \in [Task -> Nat], NEW t \in Task, NEW use \in Nat
    PROVE  /\ Cardinality(UNION {{u} \X (1 .. spent[u]) : u \in Task}) \in Nat
           /\ Cardinality(UNION {{u} \X (1 .. [spent EXCEPT ![t] = @ + use][u]) : u \in Task})
              = Cardinality(UNION {{u} \X (1 .. spent[u]) : u \in Task}) + use
<1> DEFINE f == [spent EXCEPT ![t] = @ + use]
           Tokens(g) == {{u} \X (1 .. g[u]) : u \in Task}
           new == {t} \X ((spent[t] + 1) .. (spent[t] + use))
<1>1. /\ f \in [Task -> Nat] /\ f[t] = spent[t] + use
      /\ \A u \in Task : u # t => f[u] = spent[u]
  OBVIOUS
<1> HIDE DEF f
<1>2. \A u \in Task : f[u] \in Nat /\ spent[u] \in Nat
  BY <1>1
<1>3. ASSUME NEW n \in Nat, NEW u PROVE IsFiniteSet({u} \X (1 .. n))
  <2>1. IsFiniteSet(1 .. n)
    BY FS_Interval
  <2>2. IsFiniteSet({u})
    BY FS_Singleton
  <2> QED  BY <2>1, <2>2, FS_Product
<1>4. IsFiniteSet(Tokens(spent))
  <2> DEFINE h == [u \in Task |-> {u} \X (1 .. spent[u])]
  <2>1. h \in [Task -> Tokens(spent)] /\ \A p \in Tokens(spent) : \E u \in Task : h[u] = p
    OBVIOUS
  <2>2. h \in Surjection(Task, Tokens(spent))
    BY <2>1 DEF Surjection
  <2> HIDE DEF h
  <2> QED  BY <2>2, FS_Surjection
<1>5. \A p \in Tokens(spent) : IsFiniteSet(p)
  BY <1>2, <1>3
<1>6. IsFiniteSet(UNION Tokens(spent))
  BY <1>4, <1>5, FS_UNION
<1>7. IsFiniteSet(new) /\ Cardinality(new) = use
  <2>1. spent[t] + 1 \in Int /\ spent[t] + use \in Int /\ spent[t] \in Nat
    BY <1>2
  <2> DEFINE more == (spent[t] + 1) .. (spent[t] + use)
  <2>2. IsFiniteSet(more) /\ Cardinality(more) = IF spent[t] + 1 > spent[t] + use THEN 0
                                ELSE (spent[t] + use) - (spent[t] + 1) + 1
    BY <2>1, FS_Interval
  <2>3. Cardinality(more) = use
    BY <2>1, <2>2
  <2>4. IsFiniteSet({t}) /\ Cardinality({t}) = 1
    BY FS_Singleton
  <2> HIDE DEF more
  <2>5. IsFiniteSet({t} \X more) /\ Cardinality({t} \X more) = 1 * Cardinality(more)
    BY <2>2, <2>4, FS_Product
  <2> QED  BY <2>3, <2>5 DEF more
<1>8. UNION Tokens(f) = (UNION Tokens(spent)) \cup new
  <2>1. ASSUME NEW x \in UNION Tokens(f) PROVE x \in (UNION Tokens(spent)) \cup new
    <3>1. PICK u \in Task : x \in {u} \X (1 .. f[u])
      BY <2>1
    <3>2. x = <<u, x[2]>> /\ x[2] \in 1 .. f[u]
      BY <3>1
    <3>3. CASE x[2] \in 1 .. spent[u]
      <4>1. x \in {u} \X (1 .. spent[u])
        BY <3>2, <3>3
      <4> QED  BY <4>1
    <3>4. CASE x[2] \notin 1 .. spent[u]
      <4>1. u = t /\ x[2] \in (spent[t] + 1) .. (spent[t] + use)
        BY <1>1, <1>2, <3>2, <3>4
      <4>2. <<t, x[2]>> \in new
        BY <4>1
      <4>3. x \in new
        BY <3>2, <4>1, <4>2
      <4> QED  BY <4>3
    <3> QED  BY <3>3, <3>4
  <2>2. ASSUME NEW x \in UNION Tokens(spent) PROVE x \in UNION Tokens(f)
    <3>1. PICK u \in Task : x \in {u} \X (1 .. spent[u])
      BY <2>2
    <3>2. x = <<u, x[2]>> /\ x[2] \in 1 .. spent[u]
      BY <3>1
    <3>3. x[2] \in 1 .. f[u]
      BY <1>1, <1>2, <3>2
    <3>4. x \in {u} \X (1 .. f[u])
      BY <3>2, <3>3
    <3> QED  BY <3>4
  <2>3. ASSUME NEW x \in new PROVE x \in UNION Tokens(f)
    <3>1. x = <<t, x[2]>> /\ x[2] \in (spent[t] + 1) .. (spent[t] + use)
      OBVIOUS
    <3>2. x[2] \in 1 .. f[t]
      BY <1>1, <1>2, <3>1
    <3>3. x \in {t} \X (1 .. f[t])
      BY <3>1, <3>2
    <3> QED  BY <3>3
  <2> HIDE DEF Tokens, new
  <2> QED  BY <2>1, <2>2, <2>3
<1>9. (UNION Tokens(spent)) \cap new = {}
  <2>1. ASSUME NEW x \in UNION Tokens(spent), x \in new PROVE FALSE
    <3>1. PICK u \in Task : x \in {u} \X (1 .. spent[u])
      BY <2>1
    <3>2. x[1] = u /\ x[2] \in 1 .. spent[u]
      BY <3>1
    <3>3. x[1] = t /\ x[2] \in (spent[t] + 1) .. (spent[t] + use)
      BY <2>1
    <3> QED  BY <1>2, <3>2, <3>3
  <2> HIDE DEF Tokens, new
  <2> QED  BY <2>1
<1> HIDE DEF Tokens, new
<1>10. Cardinality(UNION Tokens(f)) =
           Cardinality(UNION Tokens(spent)) + Cardinality(new)
               - Cardinality((UNION Tokens(spent)) \cap new)
  <2>1. Cardinality((UNION Tokens(spent)) \cup new) =
            Cardinality(UNION Tokens(spent)) + Cardinality(new)
                - Cardinality((UNION Tokens(spent)) \cap new)
    BY <1>6, <1>7, FS_Union
  <2> QED  BY <1>8, <2>1
<1>11. Cardinality((UNION Tokens(spent)) \cap new) = 0
  BY <1>9, FS_EmptySet
<1>12. Cardinality(UNION Tokens(spent)) \in Nat
  BY <1>6, FS_CardinalityType
<1>13. Cardinality(UNION Tokens(f)) = Cardinality(UNION Tokens(spent)) + use
  BY <1>7, <1>10, <1>11, <1>12
<1> QED  BY <1>12, <1>13 DEF Tokens, f

-----------------------------------------------------------------------------
(* AgentState: the inductive invariant.                                    *)

\* Only the last attempt can be running; the ones to come are untouched.
OneRuns ==
    \A a \in A!Attempt :
        /\ A!Running(a) => a = attemptSeq
        /\ a <= attemptSeq <=> attempts[a].task # NoTask
        /\ a > attemptSeq => ~attempts[a].open /\ attempts[a].signal = "live"

\* A stop to be reported is the one of the last attempt.
OwedIsLast ==
    owed # NoTask =>
        /\ attemptSeq \in A!Attempt
        /\ attempts[attemptSeq].task = owed /\ attempts[attemptSeq].signal = "stop"

TimedOut(t) == \E a \in A!OfTask(t) : attempts[a].signal = "timeout"

\* The last attempt of t ended with its signal untouched.
Settled(t) ==
    \E a \in A!OfTask(t) :
        /\ attempts[a].signal = "live" /\ ~attempts[a].open
        /\ \A b \in A!OfTask(t) : b <= a

\* A remembered stop is still on the card, unless an attempt after it or beside it had
\* the right to write there.
RememberedIsShown ==
    \A t \in Task : A!IsStopped(t) => card[t] = "STOPPED" \/ TimedOut(t) \/ Settled(t)

\* StoppedIsShown, task by task.
StopsAreShown ==
    \A a \in A!Attempt, t \in Task :
        /\ attempts[a].task = t /\ attempts[a].signal = "stop" /\ owed # t
        /\ \A b \in A!OfTask(t) : b <= a /\ attempts[b].signal # "timeout"
        => card[t] = "STOPPED"

AttemptRecord == [task : Task \cup {NoTask}, open : BOOLEAN, signal : A!Signal]

\* The attempts and what was reported of them ...
ReportsInv ==
    /\ attempts \in [A!Attempt -> AttemptRecord] /\ attemptSeq \in 0 .. MaxAttempts
    /\ owed \in Task \cup {NoTask} /\ card \in [Task -> A!CardStatus]
    /\ stoppedTaskIds \in Seq(Task) /\ Distinct(stoppedTaskIds)
    /\ OneRuns /\ OwedIsLast /\ RememberedIsShown /\ StopsAreShown

\* ... and the tallies.
TalliesInv ==
    /\ totalTokensUsed = Cardinality(UNION {{t} \X (1 .. spent[t]) : t \in Task})
    /\ taskTokensUsed \in Seq(Entry) /\ spent \in [Task -> Nat]
    /\ OnePerTask(taskTokensUsed) /\ Len(taskTokensUsed) <= MaxTracked
    /\ Cardinality(Task) <= MaxTracked => Books(taskTokensUsed, spent)

AgentInv ==
    /\ ReportsInv /\ TalliesInv
    /\ current \in A!Row /\ row \in A!Row

\* null is not a task, there are finitely many tasks, and the bounds are numbers.
AgentSane ==
    /\ NoTask \notin Task /\ IsFiniteSet(Task)
    /\ MaxAttempts \in Nat /\ MaxUse \in Nat /\ MaxStops \in Nat /\ MaxTracked \in Nat

\* An attempt that ends: whatever is shown of it, the stops stay shown, if only an
\* attempt that was not stopped writes something else on its own card.
LEMMA ClosingShows ==
    ASSUME AgentSane, ReportsInv, NEW a \in A!Attempt, attempts[a].open,
           attempts' = [attempts EXCEPT ![a].open = FALSE],
           attemptSeq' = attemptSeq, owed' = owed,
           stoppedTaskIds' \in Seq(Task), Distinct(stoppedTaskIds)',
           card' \in [Task -> A!CardStatus],
           \A u \in Task : \/ card'[u] = card[u] \/ card'[u] = "STOPPED"
                           \/ u = attempts[a].task /\ attempts[a].signal # "stop",
           \A u \in Task : A!IsStopped(u)' => A!IsStopped(u) \/ card'[u] = "STOPPED"
    PROVE  ReportsInv'
<1>1. /\ attempts' \in [A!Attempt -> AttemptRecord]
      /\ \A b \in A!Attempt : /\ attempts'[b].task = attempts[b].task
                              /\ attempts'[b].signal = attempts[b].signal
                              /\ attempts'[b].open => attempts[b].open
      /\ ~attempts'[a].open
  <2>1. attempts[a] \in AttemptRecord
    BY DEF ReportsInv
  <2>2. [attempts[a] EXCEPT !.open = FALSE] \in AttemptRecord
    BY <2>1 DEF AttemptRecord
  <2>3. \A b \in A!Attempt :
           attempts'[b] = IF b = a THEN [attempts[a] EXCEPT !.open = FALSE] ELSE attempts[b]
    BY DEF ReportsInv
  <2>4. attempts' \in [A!Attempt -> AttemptRecord]
    BY <2>2 DEF ReportsInv
  <2>5. /\ [attempts[a] EXCEPT !.open = FALSE].task = attempts[a].task
        /\ [attempts[a] EXCEPT !.open = FALSE].signal = attempts[a].signal
        /\ [attempts[a] EXCEPT !.open = FALSE].open = FALSE
    BY <2>1 DEF AttemptRecord
  <2> QED  BY <2>3, <2>4, <2>5
<1>2. \A t : A!OfTask(t)' = A!OfTask(t)
  BY <1>1 DEF A!OfTask
<1>3. OneRuns'
  BY <1>1 DEF OneRuns, ReportsInv, A!Running
<1>4. OwedIsLast'
  BY <1>1 DEF OwedIsLast, ReportsInv
<1>5. a <= attemptSeq /\ attempts[a].task \in Task
  <2>1. a \in 1 .. MaxAttempts /\ attemptSeq \in Nat /\ MaxAttempts \in Nat
    BY DEF ReportsInv, AgentSane, A!Attempt
  <2>2. attempts[a] \in AttemptRecord
    BY DEF ReportsInv
  <2> QED  BY <2>1, <2>2 DEF ReportsInv, OneRuns, AttemptRecord
<1>6. attempts[a].signal = "live" => a = attemptSeq
  BY DEF ReportsInv, OneRuns, A!Running
<1>7. ASSUME NEW x \in A!Attempt, attempts[x].task \in Task
      PROVE  x <= attemptSeq
  BY <1>7 DEF ReportsInv, OneRuns, AgentSane
<1>8. \A u \in Task : TimedOut(u) => TimedOut(u)'
  BY <1>1, <1>2 DEF TimedOut, A!OfTask
<1>9. \A u \in Task : Settled(u) => Settled(u)'
  BY <1>1, <1>2 DEF Settled, A!OfTask
<1>10. ASSUME NEW u \in Task, u = attempts[a].task, attempts[a].signal # "stop"
       PROVE  TimedOut(u)' \/ Settled(u)'
  <2>1. a \in A!OfTask(u)
    BY <1>10 DEF A!OfTask
  <2>2. attempts[a].signal \in {"live", "timeout"}
    <3>1. attempts[a] \in AttemptRecord
      BY DEF ReportsInv
    <3> QED  BY <1>10, <3>1 DEF AttemptRecord, A!Signal
  <2>3. CASE attempts[a].signal = "timeout"
    <3>1. TimedOut(u)
      BY <2>1, <2>3 DEF TimedOut
    <3> QED  BY <1>8, <3>1
  <2>4. CASE attempts[a].signal = "live"
    <3>1. \A b \in A!OfTask(u) : b <= a
      BY <1>6, <1>7, <2>4 DEF A!OfTask
    <3> QED  BY <1>1, <1>2, <2>1, <2>4, <3>1 DEF Settled
  <2> QED  BY <2>2, <2>3, <2>4
<1>11. RememberedIsShown'
  <2>1. ASSUME NEW u \in Task, A!IsStopped(u)'
        PROVE  card'[u] = "STOPPED" \/ TimedOut(u)' \/ Settled(u)'
    <3>1. A!IsStopped(u) => card[u] = "STOPPED" \/ TimedOut(u) \/ Settled(u)
      BY DEF ReportsInv, RememberedIsShown
    <3> QED  BY <1>8, <1>9, <1>10, <2>1, <3>1
  <2> QED  BY <2>1 DEF RememberedIsShown
<1>12. StopsAreShown'
  <2>1. ASSUME NEW x \in A!Attempt, NEW u \in Task, attempts[x].task = u,
               attempts[x].signal = "stop", owed # u,
               \A b \in A!OfTask(u) : b <= x /\ attempts[b].signal # "timeout"
        PROVE  card'[u] = "STOPPED"
    <3>1. card[u] = "STOPPED"
      BY <2>1 DEF ReportsInv, StopsAreShown
    <3>2. CASE u = attempts[a].task /\ attempts[a].signal # "stop"
      <4>1. a \in A!OfTask(u) /\ a <= x /\ attempts[a].signal # "timeout"
        BY <2>1, <3>2 DEF A!OfTask
      <4>2. attempts[a].signal = "live"
        <5>1. attempts[a] \in AttemptRecord
          BY DEF ReportsInv
        <5> QED  BY <3>2, <4>1, <5>1 DEF AttemptRecord, A!Signal
      <4>3. x <= a
        BY <1>6, <1>7, <2>1, <4>2
      <4>4. x = a
        BY <4>1, <4>3 DEF AgentSane, A!Attempt
      <4> QED  BY <2>1, <4>2, <4>4
    <3> QED  BY <3>1, <3>2
  <2> SUFFICES ASSUME NEW x \in A!Attempt, NEW u \in Task, attempts'[x].task = u,
                      attempts'[x].signal = "stop", owed' # u,
                      \A b \in A!OfTask(u)' : b <= x /\ attempts'[b].signal # "timeout"
               PROVE  card'[u] = "STOPPED"
    BY DEF StopsAreShown
  <2>2. attempts[x].task = u /\ attempts[x].signal = "stop"
    BY <1>1
  <2>3. \A b \in A!OfTask(u) : b <= x /\ attempts[b].signal # "timeout"
    BY <1>1, <1>2 DEF A!OfTask
  <2> QED  BY <2>1, <2>2, <2>3
<1> QED  BY <1>1, <1>3, <1>4, <1>11, <1>12 DEF ReportsInv

\* What the invariant says of the stops is what the property says.
LEMMA StoppedShows ==
    ASSUME AgentSane, ReportsInv
    PROVE  A!StoppedIsShown
<1>1. ASSUME NEW x \in A!Attempt, attempts[x].signal = "stop" PROVE attempts[x].task \in Task
  <2>1. ~(x > attemptSeq)
    BY <1>1 DEF ReportsInv, OneRuns
  <2>2. x <= attemptSeq /\ attempts[x] \in AttemptRecord
    BY <2>1 DEF ReportsInv, AgentSane, A!Attempt
  <2> QED  BY <2>2 DEF ReportsInv, OneRuns, AttemptRecord
<1> QED  BY <1>1 DEF A!StoppedIsShown, ReportsInv, StopsAreShown

\* What publishStopped does to the cards, the remembered stops and the agent's row.
LEMMA StoppingShows ==
    ASSUME AgentSane, ReportsInv, current \in A!Row, row \in A!Row,
           NEW t \in Task, A!PublishStopped(t)
    PROVE  /\ stoppedTaskIds' \in Seq(Task) /\ Distinct(stoppedTaskIds)'
           /\ card' \in [Task -> A!CardStatus]
           /\ \A u \in Task : card'[u] = card[u] \/ card'[u] = "STOPPED"
           /\ \A u \in Task : A!IsStopped(u)' => A!IsStopped(u) \/ card'[u] = "STOPPED"
           /\ ~A!IsStopped(t) => card'[t] = "STOPPED"
           /\ current' \in A!Row /\ row' \in A!Row
<1>1. CASE A!IsStopped(t)
  <2>1. UNCHANGED <<stoppedTaskIds, current, row, card>>
    BY <1>1 DEF A!PublishStopped
  <2>2. \A u \in Task : A!IsStopped(u)' => A!IsStopped(u)
    BY <2>1 DEF A!IsStopped, A!StoppedAt
  <2>3. Distinct(stoppedTaskIds)'
    BY <2>1 DEF Distinct, ReportsInv
  <2> QED  BY <1>1, <2>1, <2>2, <2>3 DEF ReportsInv
<1>2. CASE ~A!IsStopped(t)
  <2>1. /\ stoppedTaskIds' = A!Remember(t)
        /\ card' = [card EXCEPT ![t] = "STOPPED"]
    BY <1>2 DEF A!PublishStopped
  <2>2. /\ A!Remember(t) \in Seq(Task) /\ Distinct(A!Remember(t))
        /\ \A i \in DOMAIN A!Remember(t) :
              A!Remember(t)[i] = t \/ A!IsStopped(A!Remember(t)[i])
    BY <1>2, Remembered DEF ReportsInv, AgentSane
  <2>3. /\ card' \in [Task -> A!CardStatus] /\ card'[t] = "STOPPED"
        /\ \A u \in Task : u # t => card'[u] = card[u]
    BY <2>1 DEF ReportsInv, A!CardStatus
  <2>4. stoppedTaskIds' \in Seq(Task) /\ Distinct(stoppedTaskIds)'
    BY <2>1, <2>2 DEF Distinct
  <2>5. \A u \in Task : A!IsStopped(u)' => u = t \/ A!IsStopped(u)
    <3> SUFFICES ASSUME NEW u \in Task, A!IsStopped(u)' PROVE u = t \/ A!IsStopped(u)
      OBVIOUS
    <3>1. PICK i \in DOMAIN stoppedTaskIds' : stoppedTaskIds'[i] = u
      BY DEF A!IsStopped, A!StoppedAt
    <3> QED  BY <2>1, <2>2, <3>1
  <2>6. current' \in A!Row /\ row' \in A!Row
    <3>1. A!Idle \in A!Row
      BY DEF A!Idle, A!Row
    <3> QED  BY <1>2, <3>1 DEF A!PublishStopped
  <2> QED  BY <2>3, <2>4, <2>5, <2>6
<1> QED  BY <1>1, <1>2

\* A new attempt of t: its card is its own, the others' stay.
LEMMA OpeningShows ==
    ASSUME AgentSane, ReportsInv, NEW t \in Task, NEW open \in BOOLEAN,
           A!MayStart, A!Opened(t, open), attemptSeq' = attemptSeq + 1, owed' = owed,
           stoppedTaskIds' \in Seq(Task), Distinct(stoppedTaskIds)',
           card' \in [Task -> A!CardStatus],
           \A u \in Task : u # t => card'[u] = card[u],
           \A u \in Task : A!IsStopped(u)' => A!IsStopped(u) /\ (u = t => ~open)
    PROVE  ReportsInv'
<1> DEFINE new == attemptSeq + 1
<1>1. /\ attemptSeq \in Nat /\ new \in A!Attempt /\ new \in 0 .. MaxAttempts
      /\ ~(new <= attemptSeq) /\ new > attemptSeq
  BY DEF A!MayStart, AgentSane, A!Attempt, ReportsInv
<1>2. attempts[new].task = NoTask
  BY <1>1 DEF ReportsInv, OneRuns, AttemptRecord
<1>3. /\ attempts' \in [A!Attempt -> AttemptRecord]
      /\ attempts'[new] = [task |-> t, open |-> open, signal |-> "live"]
      /\ \A b \in A!Attempt : b # new => attempts'[b] = attempts[b]
  <2>1. [task |-> t, open |-> open, signal |-> "live"] \in AttemptRecord
    BY DEF AttemptRecord, A!Signal
  <2> QED  BY <1>1, <2>1 DEF A!Opened, ReportsInv
<1>4. attempts'[new].task = t /\ attempts'[new].open = open /\ attempts'[new].signal = "live"
  BY <1>3
<1>5. attemptSeq' = new
  OBVIOUS
<1>6. \A b \in A!Attempt : b <= new <=> b <= attemptSeq \/ b = new
  BY <1>1 DEF A!Attempt
<1>7. \A b \in A!Attempt : b > new => b > attemptSeq /\ b # new
  BY <1>1 DEF A!Attempt
<1> HIDE DEF new
<1>8. OneRuns'
  <2>1. \A b \in A!Attempt : ~A!Running(b)
    BY DEF A!MayStart
  <2>2. ASSUME NEW b \in A!Attempt
        PROVE  /\ A!Running(b)' => b = attemptSeq'
               /\ b <= attemptSeq' <=> attempts'[b].task # NoTask
               /\ b > attemptSeq' => ~attempts'[b].open /\ attempts'[b].signal = "live"
    <3>1. CASE b = new
      BY <1>1, <1>4, <1>5, <1>6, <3>1 DEF AgentSane, A!Attempt
    <3>2. CASE b # new
      BY <1>3, <1>5, <1>6, <1>7, <2>1, <3>2 DEF A!Running, ReportsInv, OneRuns
    <3> QED  BY <3>1, <3>2
  <2> QED  BY <2>2 DEF OneRuns
<1>9. OwedIsLast'
  BY DEF OwedIsLast, A!MayStart
<1>10. ASSUME NEW u \in Task, u # t PROVE A!OfTask(u)' = A!OfTask(u)
  BY <1>2, <1>3, <1>4, <1>10 DEF A!OfTask, AgentSane
<1>11. A!OfTask(t)' = A!OfTask(t) \cup {new}
  BY <1>1, <1>3, <1>4 DEF A!OfTask
<1>12. ASSUME NEW u \in Task, NEW b \in A!OfTask(u)
       PROVE  b # new /\ b <= attemptSeq /\ attempts'[b] = attempts[b]
  <2>1. b # new
    BY <1>2 DEF A!OfTask, AgentSane
  <2> QED  BY <1>3, <2>1 DEF A!OfTask, AgentSane, ReportsInv, OneRuns
<1>13. ASSUME NEW u \in Task, A!IsStopped(u)'
       PROVE  card'[u] = "STOPPED" \/ TimedOut(u)' \/ Settled(u)'
  <2>1. CASE u = t
    <3>1. ~open /\ new \in A!OfTask(u)'
      BY <1>11, <1>13, <2>1
    <3>2. \A b \in A!OfTask(u)' : b <= new
      BY <1>6, <1>11, <1>12, <2>1 DEF A!OfTask
    <3> QED  BY <1>4, <3>1, <3>2 DEF Settled
  <2>2. CASE u # t
    <3>1. A!IsStopped(u) /\ card'[u] = card[u]
      BY <1>13, <2>2
    <3>2. card[u] = "STOPPED" \/ TimedOut(u) \/ Settled(u)
      BY <3>1 DEF ReportsInv, RememberedIsShown
    <3>3. A!OfTask(u)' = A!OfTask(u)
      BY <1>10, <2>2
    <3>4. TimedOut(u) => TimedOut(u)'
      BY <1>12, <3>3 DEF TimedOut
    <3>5. Settled(u) => Settled(u)'
      BY <1>12, <3>3 DEF Settled
    <3> QED  BY <3>1, <3>2, <3>4, <3>5
  <2> QED  BY <2>1, <2>2
<1>14. RememberedIsShown'
  BY <1>13 DEF RememberedIsShown
<1>15. StopsAreShown'
  <2> SUFFICES ASSUME NEW x \in A!Attempt, NEW u \in Task, attempts'[x].task = u,
                      attempts'[x].signal = "stop", owed' # u,
                      \A b \in A!OfTask(u)' : b <= x /\ attempts'[b].signal # "timeout"
               PROVE  card'[u] = "STOPPED"
    BY DEF StopsAreShown
  <2>1. x # new /\ attempts'[x] = attempts[x]
    BY <1>3, <1>4
  <2>2. x \in A!OfTask(u)
    BY <2>1 DEF A!OfTask
  <2>3. x <= attemptSeq
    BY <1>12, <2>2
  <2>4. u # t
    <3>1. CASE u = t
      <4>1. new <= x
        BY <1>11, <3>1
      <4>2. x = new
        BY <1>1, <1>5, <2>3, <4>1 DEF A!Attempt, AgentSane
      <4> QED  BY <2>1, <4>2
    <3> QED  BY <3>1
  <2>5. \A b \in A!OfTask(u) : b <= x /\ attempts[b].signal # "timeout"
    BY <1>10, <1>12, <2>4
  <2>6. card[u] = "STOPPED"
    BY <2>1, <2>5 DEF ReportsInv, StopsAreShown
  <2> QED  BY <2>4, <2>6
<1> QED
  BY <1>1, <1>3, <1>5, <1>8, <1>9, <1>14, <1>15 DEF ReportsInv

\* An abort of the running attempt.
LEMMA AbortShows ==
    ASSUME AgentSane, ReportsInv, NEW a \in A!Attempt, A!Running(a),
           NEW why \in {"timeout", "stop"},
           attempts' = [attempts EXCEPT ![a].signal = why],
           owed' = IF why = "stop" THEN attempts[a].task ELSE owed,
           UNCHANGED <<attemptSeq, stoppedTaskIds, card>>
    PROVE  ReportsInv'
<1>1. a = attemptSeq /\ attempts[a].open /\ attempts[a].signal = "live"
  BY DEF ReportsInv, OneRuns, A!Running
<1>2. owed = NoTask
  BY <1>1 DEF ReportsInv, OwedIsLast
<1>3. /\ attempts' \in [A!Attempt -> AttemptRecord]
      /\ \A b \in A!Attempt : /\ attempts'[b].task = attempts[b].task
                              /\ attempts'[b].open = attempts[b].open
                              /\ b # a => attempts'[b].signal = attempts[b].signal
      /\ attempts'[a].signal = why
  <2>1. attempts[a] \in AttemptRecord
    BY DEF ReportsInv
  <2>2. [attempts[a] EXCEPT !.signal = why] \in AttemptRecord
    BY <2>1 DEF AttemptRecord, A!Signal
  <2>3. \A b \in A!Attempt :
           attempts'[b] = IF b = a THEN [attempts[a] EXCEPT !.signal = why] ELSE attempts[b]
    BY DEF ReportsInv
  <2>4. attempts' \in [A!Attempt -> AttemptRecord]
    BY <2>2 DEF ReportsInv
  <2>5. /\ [attempts[a] EXCEPT !.signal = why].task = attempts[a].task
        /\ [attempts[a] EXCEPT !.signal = why].open = attempts[a].open
        /\ [attempts[a] EXCEPT !.signal = why].signal = why
    BY <2>1 DEF AttemptRecord
  <2> QED  BY <2>3, <2>4, <2>5
<1>4. \A u : A!OfTask(u)' = A!OfTask(u)
  BY <1>3 DEF A!OfTask
<1>5. attempts[a].task \in Task
  <2>1. a <= attemptSeq /\ attempts[a] \in AttemptRecord
    BY <1>1 DEF ReportsInv, AgentSane
  <2> QED  BY <2>1 DEF ReportsInv, OneRuns, AttemptRecord
<1>6. OneRuns'
  <2>1. ~(a > attemptSeq)
    BY <1>1 DEF A!Attempt, AgentSane
  <2> QED  BY <1>1, <1>3, <2>1 DEF OneRuns, ReportsInv, A!Running
<1>7. OwedIsLast'
  BY <1>1, <1>2, <1>3 DEF OwedIsLast
<1>8. RememberedIsShown'
  <2> SUFFICES ASSUME NEW u \in Task, A!IsStopped(u)'
               PROVE  card'[u] = "STOPPED" \/ TimedOut(u)' \/ Settled(u)'
    BY DEF RememberedIsShown
  <2>1. A!IsStopped(u)
    BY DEF A!IsStopped, A!StoppedAt
  <2>2. card[u] = "STOPPED" \/ TimedOut(u) \/ Settled(u)
    BY <2>1 DEF ReportsInv, RememberedIsShown
  <2>3. TimedOut(u) => TimedOut(u)'
    BY <1>1, <1>3, <1>4 DEF TimedOut, A!OfTask
  <2>4. Settled(u) => Settled(u)'
    BY <1>1, <1>3, <1>4 DEF Settled, A!OfTask
  <2> QED  BY <2>2, <2>3, <2>4
<1>9. StopsAreShown'
  <2> SUFFICES ASSUME NEW x \in A!Attempt, NEW u \in Task, attempts'[x].task = u,
                      attempts'[x].signal = "stop", owed' # u,
                      \A b \in A!OfTask(u)' : b <= x /\ attempts'[b].signal # "timeout"
               PROVE  card'[u] = "STOPPED"
    BY DEF StopsAreShown
  <2>1. CASE a \in A!OfTask(u)
    <3>1. why # "timeout" /\ attempts[a].task = u
      BY <1>3, <1>4, <2>1 DEF A!OfTask
    <3> QED  BY <3>1
  <2>2. CASE a \notin A!OfTask(u)
    <3>1. attempts[x].task = u /\ x # a
      BY <1>3, <2>2 DEF A!OfTask
    <3>2. attempts[x].signal = "stop"
      BY <1>3, <3>1
    <3>3. \A b \in A!OfTask(u) : b <= x /\ attempts[b].signal # "timeout"
      BY <1>3, <1>4, <2>2 DEF A!OfTask
    <3>4. owed # u
      BY <1>2 DEF AgentSane
    <3> QED  BY <3>1, <3>2, <3>3, <3>4 DEF ReportsInv, StopsAreShown
  <2> QED  BY <2>1, <2>2
<1>10. owed' \in Task \cup {NoTask}
  BY <1>5 DEF ReportsInv
<1> QED  BY <1>3, <1>6, <1>7, <1>8, <1>9, <1>10 DEF ReportsInv

\* A stop that is reported: the owed one, or one of a task that is refused.
LEMMA ReportShows ==
    ASSUME AgentSane, ReportsInv, current \in A!Row, row \in A!Row,
           NEW t \in Task, A!PublishStopped(t), owed' = NoTask,
           owed = t \/ owed = NoTask, UNCHANGED <<attempts, attemptSeq>>
    PROVE  ReportsInv' /\ current' \in A!Row /\ row' \in A!Row
<1>1. /\ stoppedTaskIds' \in Seq(Task) /\ Distinct(stoppedTaskIds)'
      /\ card' \in [Task -> A!CardStatus]
      /\ \A u \in Task : card'[u] = card[u] \/ card'[u] = "STOPPED"
      /\ \A u \in Task : A!IsStopped(u)' => A!IsStopped(u) \/ card'[u] = "STOPPED"
      /\ ~A!IsStopped(t) => card'[t] = "STOPPED"
  BY StoppingShows DEF ReportsInv
<1>2. current' \in A!Row /\ row' \in A!Row
  BY StoppingShows DEF ReportsInv
<1>3. \A u : A!OfTask(u)' = A!OfTask(u)
  BY DEF A!OfTask
<1>4. OneRuns' /\ OwedIsLast'
  BY DEF OneRuns, OwedIsLast, ReportsInv, A!Running
<1>5. \A u \in Task : /\ TimedOut(u) => TimedOut(u)'
                      /\ Settled(u) => Settled(u)'
  BY <1>3 DEF TimedOut, Settled
<1>6. RememberedIsShown'
  <2> SUFFICES ASSUME NEW u \in Task, A!IsStopped(u)'
               PROVE  card'[u] = "STOPPED" \/ TimedOut(u)' \/ Settled(u)'
    BY DEF RememberedIsShown
  <2>1. A!IsStopped(u) => card[u] = "STOPPED" \/ TimedOut(u) \/ Settled(u)
    BY DEF ReportsInv, RememberedIsShown
  <2> QED  BY <1>1, <1>5, <2>1
<1>7. StopsAreShown'
  <2> SUFFICES ASSUME NEW x \in A!Attempt, NEW u \in Task, attempts'[x].task = u,
                      attempts'[x].signal = "stop", owed' # u,
                      \A b \in A!OfTask(u)' : b <= x /\ attempts'[b].signal # "timeout"
               PROVE  card'[u] = "STOPPED"
    BY DEF StopsAreShown
  <2>1. /\ attempts[x].task = u /\ attempts[x].signal = "stop"
        /\ \A b \in A!OfTask(u) : b <= x /\ attempts[b].signal # "timeout"
    BY <1>3
  <2>2. CASE owed # u
    <3>1. card[u] = "STOPPED"
      BY <2>1, <2>2 DEF ReportsInv, StopsAreShown
    <3> QED  BY <1>1, <3>1
  <2>3. CASE owed = u
    <3>1. u = t
      BY <2>3 DEF AgentSane
    <3>2. CASE ~A!IsStopped(t)
      BY <1>1, <3>1, <3>2
    <3>3. CASE A!IsStopped(t)
      <4>1. card[t] = "STOPPED" \/ TimedOut(t) \/ Settled(t)
        BY <3>3 DEF ReportsInv, RememberedIsShown
      <4>2. ~TimedOut(t)
        BY <2>1, <3>1 DEF TimedOut
      <4>3. ~Settled(t)
        <5>1. /\ attemptSeq \in A!OfTask(t) /\ attempts[attemptSeq].signal = "stop"
              /\ \A b \in A!OfTask(t) : b \in A!Attempt /\ b <= attemptSeq
          BY <2>3, <3>1 DEF ReportsInv, OwedIsLast, OneRuns, A!OfTask, AgentSane
        <5>2. \A b \in A!OfTask(t) : attemptSeq <= b => b = attemptSeq
          BY <5>1 DEF A!Attempt, AgentSane
        <5> QED  BY <5>1, <5>2 DEF Settled
      <4> QED  BY <1>1, <3>1, <4>1, <4>2, <4>3
    <3> QED  BY <3>2, <3>3
  <2> QED  BY <2>2, <2>3
<1>8. owed' \in Task \cup {NoTask}
  OBVIOUS
<1> QED  BY <1>1, <1>2, <1>4, <1>6, <1>7, <1>8 DEF ReportsInv

-----------------------------------------------------------------------------
(* AgentState: the steps.                                                  *)

LEMMA AgentStart ==
    ASSUME AgentSane
    PROVE  A!Init => AgentInv
<1> SUFFICES ASSUME A!Init PROVE AgentInv
  OBVIOUS
<1>1. attempts \in [A!Attempt -> AttemptRecord]
  BY DEF A!Init, AttemptRecord, A!Signal
<1>2. /\ \A a \in A!Attempt : /\ attempts[a].task = NoTask /\ ~attempts[a].open
                              /\ attempts[a].signal = "live"
      /\ attemptSeq = 0 /\ owed = NoTask /\ stoppedTaskIds = <<>> /\ taskTokensUsed = <<>>
  BY DEF A!Init
<1>3. OneRuns /\ OwedIsLast /\ StopsAreShown
  BY <1>2 DEF OneRuns, OwedIsLast, StopsAreShown, A!Running, A!Attempt, AgentSane
<1>4. /\ <<>> \in Seq(Task) /\ <<>> \in Seq(Entry) /\ Len(<<>>) = 0
      /\ \A i \in DOMAIN <<>> : FALSE
  OBVIOUS
<1>5. Distinct(stoppedTaskIds) /\ RememberedIsShown
  BY <1>2, <1>4 DEF Distinct, RememberedIsShown, A!IsStopped, A!StoppedAt
<1>6. ReportsInv
  <2>1. card \in [Task -> A!CardStatus]
    BY DEF A!Init, A!CardStatus
  <2>2. attemptSeq \in 0 .. MaxAttempts /\ owed \in Task \cup {NoTask}
    BY <1>2 DEF AgentSane
  <2>3. stoppedTaskIds \in Seq(Task)
    BY <1>2, <1>4
  <2> QED  BY <1>1, <1>3, <1>5, <2>1, <2>2, <2>3 DEF ReportsInv
<1>7. TalliesInv
  <2>1. OnePerTask(taskTokensUsed) /\ Len(taskTokensUsed) <= MaxTracked
    BY <1>2, <1>4 DEF OnePerTask, AgentSane
  <2>2. spent \in [Task -> Nat] /\ \A t \in Task : spent[t] = 0
    BY DEF A!Init
  <2>3. Books(taskTokensUsed, spent)
    BY <1>2, <1>4, <2>2 DEF Books
  <2>4. UNION {{t} \X (1 .. spent[t]) : t \in Task} = {}
    <3>1. ASSUME NEW t \in Task PROVE {t} \X (1 .. spent[t]) = {}
      <4>1. 1 .. spent[t] = {}
        BY <2>2
      <4> QED  BY <4>1
    <3> QED  BY <3>1
  <2>5. Cardinality(UNION {{t} \X (1 .. spent[t]) : t \in Task}) = 0
    BY <2>4, FS_EmptySet
  <2> QED  BY <1>2, <1>4, <2>1, <2>2, <2>3, <2>5 DEF TalliesInv, A!Init
<1>8. current \in A!Row /\ row \in A!Row
  BY DEF A!Init, A!Idle, A!Row
<1> QED  BY <1>6, <1>7, <1>8 DEF AgentInv

LEMMA TotalIsNumber ==
    ASSUME AgentSane, TalliesInv
    PROVE  totalTokensUsed \in Nat
<1>1. Task = {} \/ \E t \in Task : TRUE
  OBVIOUS
<1>2. CASE Task = {}
  <2>1. UNION {{t} \X (1 .. spent[t]) : t \in Task} = {}
    BY <1>2
  <2>2. Cardinality(UNION {{t} \X (1 .. spent[t]) : t \in Task}) = 0
    BY <2>1, FS_EmptySet
  <2> QED  BY <2>2 DEF TalliesInv
<1>3. ASSUME NEW t \in Task PROVE totalTokensUsed \in Nat
  BY OneSpendsMore DEF TalliesInv, AgentSane
<1> QED  BY <1>1, <1>2, <1>3

LEMMA ReportsStay ==
    ASSUME ReportsInv, UNCHANGED <<attempts, attemptSeq, stoppedTaskIds, owed, card>>
    PROVE  ReportsInv'
<1>1. \A u : A!OfTask(u)' = A!OfTask(u) /\ (A!IsStopped(u)' <=> A!IsStopped(u))
  BY DEF A!OfTask, A!IsStopped, A!StoppedAt
<1>2. \A u : (TimedOut(u)' <=> TimedOut(u)) /\ (Settled(u)' <=> Settled(u))
  BY <1>1 DEF TimedOut, Settled
<1>3. RememberedIsShown' /\ StopsAreShown'
  BY <1>1, <1>2 DEF RememberedIsShown, StopsAreShown, ReportsInv
<1>4. OneRuns' /\ OwedIsLast' /\ Distinct(stoppedTaskIds)'
  BY DEF OneRuns, OwedIsLast, Distinct, ReportsInv, A!Running
<1> QED  BY <1>3, <1>4 DEF ReportsInv

LEMMA AccountKeeps ==
    ASSUME AgentSane, TalliesInv, NEW t \in Task, NEW use \in Nat, A!Account(t, use)
    PROVE  TalliesInv'
<1> DEFINE f == [spent EXCEPT ![t] = @ + use]
<1>1. spent' = f /\ spent' \in [Task -> Nat]
  BY DEF A!Account, TalliesInv
<1>2. /\ Cardinality(UNION {{u} \X (1 .. f[u]) : u \in Task})
         = Cardinality(UNION {{u} \X (1 .. spent[u]) : u \in Task}) + use
      /\ Cardinality(UNION {{u} \X (1 .. spent[u]) : u \in Task}) \in Nat
  BY OneSpendsMore DEF AgentSane, TalliesInv
<1>3. CASE use = 0
  <2>1. totalTokensUsed' = totalTokensUsed /\ taskTokensUsed' = taskTokensUsed
    BY <1>3 DEF A!Account
  <2>2. f = spent
    BY <1>3 DEF TalliesInv
  <2>3. spent' = spent
    BY <1>1, <2>2
  <2> QED  BY <2>1, <2>3 DEF TalliesInv, OnePerTask, Books
<1>4. CASE use # 0
  <2>1. totalTokensUsed' = totalTokensUsed + use /\ taskTokensUsed' = A!Tallied(t, use)
    BY <1>4 DEF A!Account
  <2>2. /\ A!Tallied(t, use) \in Seq(Entry) /\ OnePerTask(A!Tallied(t, use))
        /\ Len(A!Tallied(t, use)) <= MaxTracked
        /\ Cardinality(Task) <= MaxTracked /\ Books(taskTokensUsed, spent)
           => Books(A!Tallied(t, use), f)
    BY TallyWritten DEF AgentSane, TalliesInv
  <2>3. /\ OnePerTask(taskTokensUsed)' /\ taskTokensUsed' \in Seq(Entry)
        /\ Len(taskTokensUsed') <= MaxTracked
        /\ Cardinality(Task) <= MaxTracked => Books(taskTokensUsed, spent)'
    BY <1>1, <2>1, <2>2 DEF TalliesInv, OnePerTask, Books
  <2>4. totalTokensUsed' = Cardinality(UNION {{u} \X (1 .. spent'[u]) : u \in Task})
    BY <1>1, <1>2, <2>1 DEF TalliesInv
  <2> QED  BY <1>1, <2>3, <2>4 DEF TalliesInv
<1> QED  BY <1>3, <1>4

LEMMA TalliesStay ==
    ASSUME TalliesInv, UNCHANGED <<totalTokensUsed, taskTokensUsed, spent>>
    PROVE  TalliesInv'
  BY DEF TalliesInv, OnePerTask, Books

\* What is written by an attempt that ends otherwise than by a stop.
LEMMA ShownBy ==
    ASSUME AgentSane, card \in [Task -> A!CardStatus], NEW t \in Task,
           current \in A!Row, row \in A!Row,
           \/ A!ShowFailed(t)
           \/ A!PublishSupersededFailure(t)
           \/ current' = A!Idle /\ row' = A!Idle /\ card' = [card EXCEPT ![t] = "DONE"]
    PROVE  /\ card' \in [Task -> A!CardStatus] /\ \A u \in Task : u # t => card'[u] = card[u]
           /\ current' \in A!Row /\ row' \in A!Row
<1>1. A!Idle \in A!Row /\ [status |-> "ERROR", task |-> t] \in A!Row
  BY DEF A!Idle, A!Row
<1>2. /\ current' \in A!Row /\ row' \in A!Row
      /\ \/ card' = card
         \/ \E c \in A!CardStatus : card' = [card EXCEPT ![t] = c]
  BY <1>1 DEF A!ShowFailed, A!PublishSupersededFailure, A!CardStatus
<1> QED  BY <1>2

\* The task of an attempt whose handler runs is one.
LEMMA OpenHasTask ==
    ASSUME AgentSane, ReportsInv, NEW a \in A!Attempt, attempts[a].open
    PROVE  attempts[a].task \in Task
<1>1. ~(a > attemptSeq) /\ attempts[a] \in AttemptRecord
  BY DEF ReportsInv, OneRuns
<1>2. a <= attemptSeq
  BY <1>1 DEF A!Attempt, AgentSane, ReportsInv
<1> QED  BY <1>1, <1>2 DEF ReportsInv, OneRuns, AttemptRecord

LEMMA EndKeeps ==
    ASSUME AgentSane, AgentInv, NEW a \in A!Attempt, NEW use \in 0 .. MaxUse,
           A!Resolve(a, use) \/ A!EndStopped(a, use) \/ A!EndFailed(a, use)
    PROVE  AgentInv'
<1>1. A!Close(a, use) /\ attempts[a].open
  BY DEF A!Resolve, A!EndStopped, A!EndFailed, A!Close
<1>2. /\ attempts' = [attempts EXCEPT ![a].open = FALSE]
      /\ attemptSeq' = attemptSeq /\ owed' = owed
      /\ A!Account(attempts[a].task, use)
  BY <1>1 DEF A!Close
<1> DEFINE t == attempts[a].task
<1>3. t \in Task
  BY <1>1, OpenHasTask DEF AgentInv
<1>4. t = attempts[a].task
  OBVIOUS
<1>5. use \in Nat
  BY DEF AgentSane
<1>6. TalliesInv'
  BY <1>2, <1>3, <1>5, AccountKeeps DEF AgentInv
<1>7. ReportsInv /\ current \in A!Row /\ row \in A!Row /\ Distinct(stoppedTaskIds)
  BY DEF AgentInv, ReportsInv
<1>8. CASE attempts[a].signal # "stop"
  <2>1. /\ stoppedTaskIds' = stoppedTaskIds
        /\ \/ A!ShowFailed(t)
           \/ A!PublishSupersededFailure(t)
           \/ current' = A!Idle /\ row' = A!Idle /\ card' = [card EXCEPT ![t] = "DONE"]
    BY <1>8 DEF A!Resolve, A!EndFailed, A!EndStopped
  <2> HIDE DEF t
  <2>2. /\ card' \in [Task -> A!CardStatus] /\ \A u \in Task : u # t => card'[u] = card[u]
        /\ current' \in A!Row /\ row' \in A!Row
    BY <1>3, <1>7, <2>1, ShownBy DEF ReportsInv
  <2>3. \A u \in Task : A!IsStopped(u)' => A!IsStopped(u)
    BY <2>1 DEF A!IsStopped, A!StoppedAt
  <2>4. stoppedTaskIds' \in Seq(Task) /\ Distinct(stoppedTaskIds)'
    BY <1>7, <2>1 DEF Distinct, ReportsInv
  <2>5. \A u \in Task : \/ card'[u] = card[u] \/ card'[u] = "STOPPED"
                        \/ u = attempts[a].task /\ attempts[a].signal # "stop"
    BY <1>4, <1>8, <2>2
  <2>6. ReportsInv'
    BY <1>1, <1>2, <1>7, <2>2, <2>3, <2>4, <2>5, ClosingShows
  <2> QED  BY <1>6, <2>2, <2>6 DEF AgentInv
<1>9. CASE attempts[a].signal = "stop"
  <2>1. A!PublishStopped(t)
    BY <1>9 DEF A!Resolve, A!EndFailed, A!EndStopped
  <2> HIDE DEF t
  <2>2. /\ stoppedTaskIds' \in Seq(Task) /\ Distinct(stoppedTaskIds)'
        /\ card' \in [Task -> A!CardStatus]
        /\ \A u \in Task : card'[u] = card[u] \/ card'[u] = "STOPPED"
        /\ \A u \in Task : A!IsStopped(u)' => A!IsStopped(u) \/ card'[u] = "STOPPED"
        /\ current' \in A!Row /\ row' \in A!Row
    BY <1>3, <1>7, <2>1, StoppingShows
  <2>3. ReportsInv'
    BY <1>1, <1>2, <1>7, <2>2, ClosingShows
  <2> QED  BY <1>6, <2>2, <2>3 DEF AgentInv
<1> QED  BY <1>8, <1>9

LEMMA BeginKeeps ==
    ASSUME AgentSane, AgentInv, NEW t \in Task, A!Begin(t) \/ A!Refuse(t)
    PROVE  AgentInv'
<1>1. ReportsInv /\ current \in A!Row /\ row \in A!Row /\ Distinct(stoppedTaskIds)
  BY DEF AgentInv, ReportsInv
<1>2. TalliesInv'
  BY TalliesStay DEF A!Begin, A!Refuse, AgentInv
<1>3. CASE A!Begin(t)
  <2>1. /\ A!MayStart /\ A!Opened(t, TRUE) /\ attemptSeq' = attemptSeq + 1 /\ owed' = owed
        /\ stoppedTaskIds' = A!Forget(t) /\ card' = [card EXCEPT ![t] = "DOING"]
    BY <1>3 DEF A!Begin
  <2>2. /\ A!Forget(t) \in Seq(Task) /\ Distinct(A!Forget(t))
        /\ \A i \in DOMAIN A!Forget(t) :
              A!Forget(t)[i] # t /\ A!IsStopped(A!Forget(t)[i])
    BY <1>1, Forgotten DEF ReportsInv
  <2>3. stoppedTaskIds' \in Seq(Task) /\ Distinct(stoppedTaskIds)'
    BY <2>1, <2>2 DEF Distinct
  <2>4. ASSUME NEW u \in Task, A!IsStopped(u)' PROVE A!IsStopped(u) /\ u # t
    <3>1. PICK i \in DOMAIN stoppedTaskIds' : stoppedTaskIds'[i] = u
      BY <2>4 DEF A!IsStopped, A!StoppedAt
    <3> QED  BY <2>1, <2>2, <3>1
  <2>5. card' \in [Task -> A!CardStatus] /\ \A u \in Task : u # t => card'[u] = card[u]
    BY <1>1, <2>1 DEF ReportsInv, A!CardStatus
  <2>6. ReportsInv'
    BY <1>1, <2>1, <2>3, <2>4, <2>5, OpeningShows
  <2>7. current' \in A!Row /\ row' \in A!Row
    BY <1>3 DEF A!Begin, A!Row
  <2> QED  BY <1>2, <2>6, <2>7 DEF AgentInv
<1>4. CASE A!Refuse(t)
  <2>1. /\ A!MayStart /\ A!Opened(t, FALSE) /\ attemptSeq' = attemptSeq + 1 /\ owed' = owed
        /\ stoppedTaskIds' = stoppedTaskIds /\ A!ShowFailed(t)
    BY <1>4 DEF A!Refuse
  <2>2. stoppedTaskIds' \in Seq(Task) /\ Distinct(stoppedTaskIds)'
    BY <1>1, <2>1 DEF Distinct, ReportsInv
  <2>3. \A u \in Task : A!IsStopped(u)' => A!IsStopped(u)
    BY <2>1 DEF A!IsStopped, A!StoppedAt
  <2>4. /\ card' \in [Task -> A!CardStatus] /\ \A u \in Task : u # t => card'[u] = card[u]
        /\ current' \in A!Row /\ row' \in A!Row
    BY <1>1, <2>1, ShownBy DEF ReportsInv
  <2>5. ReportsInv'
    BY <1>1, <2>1, <2>2, <2>3, <2>4, OpeningShows
  <2> QED  BY <1>2, <2>4, <2>5 DEF AgentInv
<1> QED  BY <1>3, <1>4

LEMMA AgentStep ==
    ASSUME AgentSane, AgentInv, A!Next
    PROVE  AgentInv'
<1>1. ASSUME NEW t \in Task, A!Begin(t) \/ A!Refuse(t) PROVE AgentInv'
  BY <1>1, BeginKeeps
<1>2. ASSUME NEW t \in Task, A!RefuseStopped(t) PROVE AgentInv'
  <2>1. /\ owed = NoTask /\ owed' = owed /\ A!PublishStopped(t)
        /\ UNCHANGED <<attempts, attemptSeq>>
    BY <1>2 DEF A!RefuseStopped, A!MayStart
  <2>2. TalliesInv'
    BY <1>2, TalliesStay DEF A!RefuseStopped, AgentInv
  <2> QED  BY <2>1, <2>2, ReportShows DEF AgentInv
<1>3. ASSUME NEW a \in A!Attempt, A!TimeOut(a) PROVE AgentInv'
  <2>1. TalliesInv' /\ current' \in A!Row /\ row' \in A!Row
    BY <1>3, TalliesStay DEF A!TimeOut, AgentInv
  <2>2. ReportsInv'
    BY <1>3, AbortShows DEF A!TimeOut, AgentInv
  <2> QED  BY <2>1, <2>2 DEF AgentInv
<1>4. ASSUME NEW a \in A!Attempt, A!EmergencyStop(a) PROVE AgentInv'
  <2>1. TalliesInv' /\ current' \in A!Row /\ row' \in A!Row
    BY <1>4, TalliesStay DEF A!EmergencyStop, AgentInv
  <2>2. ReportsInv'
    BY <1>4, AbortShows DEF A!EmergencyStop, AgentInv
  <2> QED  BY <2>1, <2>2 DEF AgentInv
<1>5. ASSUME NEW a \in A!Attempt, NEW use \in 0 .. MaxUse,
             A!Resolve(a, use) \/ A!EndStopped(a, use) \/ A!EndFailed(a, use)
      PROVE  AgentInv'
  BY <1>5, EndKeeps
<1>6. ASSUME A!ReportStop PROVE AgentInv'
  <2>1. /\ owed \in Task /\ owed' = NoTask /\ A!PublishStopped(owed)
        /\ UNCHANGED <<attempts, attemptSeq>>
    BY <1>6 DEF A!ReportStop, AgentInv, ReportsInv
  <2>2. TalliesInv'
    BY <1>6, TalliesStay DEF A!ReportStop, AgentInv
  <2> QED  BY <2>1, <2>2, ReportShows DEF AgentInv
<1>7. ASSUME A!Heartbeat PROVE AgentInv'
  <2>1. UNCHANGED <<attempts, attemptSeq, current, stoppedTaskIds, totalTokensUsed,
                    taskTokensUsed, owed, card, spent>> /\ row' = current
    BY <1>7 DEF A!Heartbeat
  <2>2. TalliesInv'
    BY <2>1, TalliesStay DEF AgentInv
  <2>3. ReportsInv'
    BY <2>1, ReportsStay DEF AgentInv
  <2> QED  BY <2>1, <2>2, <2>3 DEF AgentInv
<1> QED  BY <1>1, <1>2, <1>3, <1>4, <1>5, <1>6, <1>7 DEF A!Next

LEMMA AgentStutters ==
    ASSUME AgentInv, UNCHANGED A!stateVars
    PROVE  AgentInv'
<1>1. UNCHANGED <<attempts, attemptSeq, current, stoppedTaskIds, totalTokensUsed,
                  taskTokensUsed, owed, row, card, spent>>
  BY DEF A!stateVars
<1> QED  BY <1>1, TalliesStay, ReportsStay DEF AgentInv

LEMMA AgentInvHolds ==
    ASSUME AgentSane
    PROVE  A!Spec => []AgentInv
<1>1. AgentInv /\ [A!Next]_(A!stateVars) => AgentInv'
  BY AgentStep, AgentStutters
<1> QED  BY <1>1, AgentStart, PTL DEF A!Spec

\* The tasks, tallies and stops the publisher keeps are of their types, and its total
\* is a number.
THEOREM AgentTypeCorrect ==
    ASSUME AgentSane
    PROVE  A!Spec => []A!TypeOK
<1>1. AgentInv => A!TypeOK
  <2> SUFFICES ASSUME AgentInv PROVE A!TypeOK
    OBVIOUS
  <2>1. totalTokensUsed \in Nat
    BY TotalIsNumber DEF AgentInv
  <2> QED  BY <2>1 DEF AgentInv, ReportsInv, TalliesInv, A!TypeOK, AttemptRecord, Entry
<1> QED  BY <1>1, AgentInvHolds, PTL

\* Every token an attempt used is in the agent's total and, while no tally is evicted,
\* in its task's (recordUsage), however often a task is attempted, stopped or refused.
THEOREM EverySpentTokenIsCounted ==
    ASSUME AgentSane
    PROVE  Spec => []EverySpentTokenCounts
<1>1. AgentInv => EverySpentTokenCounts
  <2> SUFFICES ASSUME AgentInv PROVE EverySpentTokenCounts
    OBVIOUS
  <2>1. totalTokensUsed = A!Cardinality(UNION {{t} \X (1 .. spent[t]) : t \in Task})
    BY AgentIsCounted DEF AgentInv, TalliesInv
  <2>2. ASSUME A!Cardinality(Task) <= MaxTracked, NEW t \in Task
        PROVE  A!TaskUsed(t) = spent[t]
    BY <2>2, AgentIsCounted, BooksAreTallies DEF AgentInv, TalliesInv
  <2> QED  BY <2>1, <2>2 DEF EverySpentTokenCounts, A!EverySpentTokenCounts
<1> QED  BY <1>1, AgentInvHolds, ViewsRunAlone, PTL

\* A task that is remembered as stopped shows so, whatever a superseded or timed-out
\* attempt at it reports later (publishStopped, isStopped).
THEOREM StoppedStaysShown ==
    ASSUME AgentSane
    PROVE  Spec => []StoppedIsShown
<1>1. AgentInv => StoppedIsShown
  BY StoppedShows DEF StoppedIsShown, AgentInv
<1> QED  BY <1>1, AgentInvHolds, ViewsRunAlone, PTL

\* An attempt that was superseded ends without touching what the agent shows of its
\* current task (publishSupersededFailure).
THEOREM LateEndLeavesTheAgent ==
    ASSUME AgentSane
    PROVE  Spec => LateEndKeepsTheAgent
<1> DEFINE Leaves == \A a \in A!Attempt :
          /\ A!Ended(a) /\ A!Superseded(a)
          /\ attempts[a].signal = "stop" => attempts[a].task # current.task
          => UNCHANGED <<current, row>>
<1>1. ASSUME AgentSane, AgentInv, [A!Next]_(A!stateVars) PROVE [Leaves]_(A!stateVars)
  <2> SUFFICES ASSUME A!Next, NEW a \in A!Attempt, A!Ended(a), A!Superseded(a),
                      attempts[a].signal = "stop" => attempts[a].task # current.task
               PROVE  UNCHANGED <<current, row>>
    BY <1>1
  <2>1. attempts[a].open /\ ~attempts'[a].open /\ a # attemptSeq
    BY DEF A!Ended, A!Superseded
  <2>2. attempts \in [A!Attempt -> AttemptRecord] /\ attempts' # attempts
    BY <1>1, <2>1 DEF AgentInv, ReportsInv
  <2>3. ASSUME NEW t \in Task, A!Begin(t) \/ A!Refuse(t) PROVE FALSE
    <3>1. \E open \in BOOLEAN : A!Opened(t, open)
      BY <2>3 DEF A!Begin, A!Refuse
    <3>2. attempts'[a] = attempts[a] \/ a = attemptSeq + 1
      BY <2>2, <3>1 DEF A!Opened
    <3>3. a > attemptSeq
      <4>1. attemptSeq \in Nat
        BY <1>1 DEF AgentInv, ReportsInv, AgentSane
      <4> QED  BY <2>1, <3>2, <4>1 DEF A!Attempt
    <3> QED  BY <1>1, <2>1, <3>3 DEF AgentInv, ReportsInv, OneRuns
  <2>4. ASSUME NEW b \in A!Attempt, A!TimeOut(b) \/ A!EmergencyStop(b) PROVE FALSE
    <3>1. \E why : attempts' = [attempts EXCEPT ![b].signal = why]
      BY <2>4 DEF A!TimeOut, A!EmergencyStop
    <3>2. attempts'[a].open = attempts[a].open
      <4>1. attempts[b] \in AttemptRecord
        BY <2>2
      <4>2. \A why : [attempts[b] EXCEPT !.signal = why].open = attempts[b].open
        BY <4>1 DEF AttemptRecord
      <4> QED  BY <2>2, <3>1, <4>2
    <3> QED  BY <2>1, <3>2
  <2>5. ASSUME NEW b \in A!Attempt, NEW use \in 0 .. MaxUse,
               A!Resolve(b, use) \/ A!EndStopped(b, use) \/ A!EndFailed(b, use)
        PROVE  UNCHANGED <<current, row>>
    <3>1. attempts' = [attempts EXCEPT ![b].open = FALSE]
      BY <2>5 DEF A!Resolve, A!EndStopped, A!EndFailed, A!Close
    <3>2. b = a
      BY <2>1, <2>2, <3>1
    <3>3. attempts[a].signal # "live"
      BY <1>1, <2>1 DEF AgentInv, ReportsInv, OneRuns, A!Running
    <3>4. CASE attempts[a].signal = "stop"
      BY <2>1, <2>5, <3>2, <3>4 DEF A!Resolve, A!EndStopped, A!EndFailed, A!PublishStopped
    <3>5. CASE attempts[a].signal # "stop"
      BY <2>1, <2>5, <3>2, <3>3, <3>5
         DEF A!Resolve, A!EndStopped, A!EndFailed, A!Superseded, A!PublishSupersededFailure
    <3> QED  BY <3>4, <3>5
  <2>6. ~A!ReportStop /\ ~A!Heartbeat /\ \A t \in Task : ~A!RefuseStopped(t)
    BY <2>2 DEF A!ReportStop, A!Heartbeat, A!RefuseStopped
  <2> QED  BY <2>3, <2>4, <2>5, <2>6 DEF A!Next
<1>2. LateEndKeepsTheAgent <=> [][Leaves]_(A!stateVars)
  BY DEF LateEndKeepsTheAgent, A!LateEndKeepsTheAgent
<1> HIDE DEF Leaves
<1>3. AgentInv /\ [A!Next]_(A!stateVars) => [Leaves]_(A!stateVars)
  BY <1>1
<1> QED  BY <1>2, <1>3, AgentInvHolds, ViewsRunAlone, PTL DEF A!Spec


-----------------------------------------------------------------------------
(* BoardView: what boards show, and the stops acknowledged to the gateway. *)

Planes == [stop : Nat, acks : Nat]
Statuses == {None, "RUNNING", "FINISHED", "DOING", "DONE"}
CardsShown == [Card -> Statuses]
MetaShown == SUBSET {"start", "end"}
Topics == {None, "new"}

Shown == [wf : Statuses, cards : CardsShown, meta : MetaShown, topic : Topics,
          plane : Planes \cup {None}]
Message == [wf : Statuses, cards : CardsShown, meta : MetaShown, topic : Topics,
            plane : Planes \cup {None}, ack : B!Acks \cup {None}]

\* Bounds are numbers, and what is absent is neither a status nor a control plane.
BoardSane ==
    /\ MaxStop \in Nat /\ MaxInput \in Nat /\ MaxConnects \in Nat
    /\ None \notin {"RUNNING"} \cup Planes

\* v shows s; a viewer's topic label may be an older one.
Shows(b, v, s) ==
    /\ v.wf = s.wf /\ v.cards = s.cards /\ v.meta = s.meta /\ v.plane = s.plane
    /\ b \notin viewers => v.topic = s.topic

\* The messages q, merged one by one into v, end in a view that shows s.
Reaches(b, v, q, s) ==
    \E trace \in [0 .. Len(q) -> Shown] :
        /\ trace[0] = v
        /\ \A i \in 1 .. Len(q) : trace[i] = B!Merge(b, trace[i - 1], q[i])
        /\ Shows(b, trace[Len(q)], s)

\* How many of the acknowledgements received are of stop s.
Acked(received, s) == IF s = 0 THEN 0 ELSE Len(received[s])

BoardTypes ==
    /\ snapshot \in Shown /\ snapshot.plane \in Planes
    /\ queue \in [Board -> Seq(Message)]
    /\ view \in [Board -> Shown]

\* No acknowledgement is of a stop newer than the last one the gateway knows.
AcksAreKnown ==
    /\ \A s \in B!Stop : s > snapshot.plane.stop => heard[s] = <<>>
    /\ snapshot.plane.acks = Acked(heard, snapshot.plane.stop)

BoardInv ==
    /\ B!TypeOK /\ BoardTypes /\ AcksAreKnown
    /\ \A b \in linked : Reaches(b, view[b], queue[b], snapshot)

\* The parts of what a merge makes.
LEMMA MergedParts ==
    ASSUME NEW b, NEW v \in Shown, NEW d \in Message
    PROVE  LET r == B!Restarts(v.wf, d.wf)
               m == B!Merge(b, v, d)
           IN  /\ m = [wf |-> B!Or(d.wf, v.wf),
                       cards |-> B!MergeCards(IF r THEN B!NoCards ELSE v.cards, d.cards),
                       meta |-> (IF r THEN {} ELSE v.meta) \cup d.meta,
                       topic |-> B!Or(d.topic, IF r /\ b \notin viewers THEN None ELSE v.topic),
                       plane |-> B!BoardPlane(v, d)]
<1>1. v = [wf |-> v.wf, cards |-> v.cards, meta |-> v.meta, topic |-> v.topic,
           plane |-> v.plane]
  BY DEF Shown
<1>2. CASE ~B!Restarts(v.wf, d.wf)
  BY <1>2 DEF B!Merge, B!ApplyDelta, B!ViewerApplyDelta, B!Merged
<1>3. CASE B!Restarts(v.wf, d.wf) /\ b \in viewers
  <2>1. /\ [v EXCEPT !.cards = B!NoCards, !.meta = {}].cards = B!NoCards
        /\ [v EXCEPT !.cards = B!NoCards, !.meta = {}].meta = {}
    BY <1>1
  <2> QED  BY <1>3, <2>1 DEF B!Merge, B!ViewerApplyDelta, B!Merged
<1>4. CASE B!Restarts(v.wf, d.wf) /\ b \notin viewers
  <2>1. /\ [v EXCEPT !.cards = B!NoCards, !.meta = {}, !.topic = None].cards = B!NoCards
        /\ [v EXCEPT !.cards = B!NoCards, !.meta = {}, !.topic = None].meta = {}
        /\ [v EXCEPT !.cards = B!NoCards, !.meta = {}, !.topic = None].topic = None
    BY <1>1
  <2> QED  BY <1>4, <2>1 DEF B!Merge, B!ApplyDelta, B!Merged
<1> QED  BY <1>2, <1>3, <1>4

LEMMA AppliedParts ==
    ASSUME NEW s \in Shown, NEW d \in Message
    PROVE  LET r == B!Restarts(s.wf, d.wf)
           IN  B!ApplyToSnapshot(s, d) =
                 [wf |-> B!Or(d.wf, s.wf),
                  cards |-> B!MergeCards(IF r THEN B!NoCards ELSE s.cards, d.cards),
                  meta |-> (IF r THEN {} ELSE s.meta) \cup d.meta,
                  topic |-> B!Or(d.topic, IF r THEN None ELSE s.topic),
                  plane |-> IF d.ack = None THEN s.plane ELSE B!CountAck(s.plane, d.ack)]
<1>1. s = [wf |-> s.wf, cards |-> s.cards, meta |-> s.meta, topic |-> s.topic,
           plane |-> s.plane]
  BY DEF Shown
<1>2. CASE ~B!Restarts(s.wf, d.wf)
  BY <1>2 DEF B!ApplyToSnapshot, B!Merged
<1>3. CASE B!Restarts(s.wf, d.wf)
  <2>1. /\ [s EXCEPT !.cards = B!NoCards, !.meta = {}, !.topic = None].cards = B!NoCards
        /\ [s EXCEPT !.cards = B!NoCards, !.meta = {}, !.topic = None].meta = {}
        /\ [s EXCEPT !.cards = B!NoCards, !.meta = {}, !.topic = None].topic = None
    BY <1>1
  <2> QED  BY <1>3, <2>1 DEF B!ApplyToSnapshot, B!Merged
<1> QED  BY <1>2, <1>3

\* Acks keep a control plane one.
LEMMA PlanesStay ==
    ASSUME BoardSane, NEW p \in Planes, NEW a \in B!Acks
    PROVE  B!CountAck(p, a) \in Planes
<1>1. a.stop \in Nat
  BY DEF B!Acks, B!Stop, BoardSane
<1>2. CASE a.stop > p.stop
  <2>1. [stop |-> a.stop, acks |-> 0] \in Planes
    BY <1>1 DEF Planes
  <2>2. [[stop |-> a.stop, acks |-> 0] EXCEPT !.acks = @ + 1] = [stop |-> a.stop, acks |-> 1]
    OBVIOUS
  <2>3. [stop |-> a.stop, acks |-> 1] \in Planes
    BY <1>1 DEF Planes
  <2> QED  BY <1>2, <2>1, <2>2, <2>3 DEF B!CountAck
<1>3. CASE ~(a.stop > p.stop)
  <2>1. [p EXCEPT !.acks = @ + 1] \in Planes
    BY DEF Planes
  <2> QED  BY <1>3, <2>1 DEF B!CountAck
<1> QED  BY <1>2, <1>3

\* What is merged of views and messages is a view.
LEMMA PartsAreShown ==
    ASSUME NEW r \in BOOLEAN, NEW x \in BOOLEAN, NEW v \in Shown, NEW d \in Message,
           NEW plane \in Planes \cup {None}
    PROVE  [wf |-> B!Or(d.wf, v.wf),
            cards |-> B!MergeCards(IF r THEN B!NoCards ELSE v.cards, d.cards),
            meta |-> (IF r THEN {} ELSE v.meta) \cup d.meta,
            topic |-> B!Or(d.topic, IF x THEN None ELSE v.topic),
            plane |-> plane] \in Shown
<1>1. B!Or(d.wf, v.wf) \in Statuses
  BY DEF B!Or, Shown, Message
<1>2. B!MergeCards(IF r THEN B!NoCards ELSE v.cards, d.cards) \in CardsShown
  <2>1. B!NoCards \in CardsShown /\ v.cards \in CardsShown /\ d.cards \in CardsShown
    BY DEF B!NoCards, Shown, Message, CardsShown, Statuses
  <2> QED  BY <2>1 DEF B!MergeCards, B!Or, CardsShown
<1>3. (IF r THEN {} ELSE v.meta) \cup d.meta \in MetaShown
  BY DEF Shown, Message, MetaShown
<1>4. B!Or(d.topic, IF x THEN None ELSE v.topic) \in Topics
  BY DEF B!Or, Shown, Message, Topics
<1> QED  BY <1>1, <1>2, <1>3, <1>4 DEF Shown

LEMMA MergeIsShown ==
    ASSUME BoardSane, NEW b, NEW v \in Shown, NEW d \in Message
    PROVE  B!Merge(b, v, d) \in Shown
<1>1. B!BoardPlane(v, d) \in Planes \cup {None}
  <2>1. /\ v.plane \in Planes \cup {None} /\ d.plane \in Planes \cup {None}
        /\ d.ack \in B!Acks \cup {None}
    BY DEF Shown, Message
  <2> QED  BY <2>1, PlanesStay DEF B!BoardPlane, B!Or
<1> DEFINE r == B!Restarts(v.wf, d.wf)
           x == r /\ b \notin viewers
<1>2. r \in BOOLEAN /\ x \in BOOLEAN
  BY DEF B!Restarts
<1>3. B!Merge(b, v, d) =
        [wf |-> B!Or(d.wf, v.wf),
         cards |-> B!MergeCards(IF r THEN B!NoCards ELSE v.cards, d.cards),
         meta |-> (IF r THEN {} ELSE v.meta) \cup d.meta,
         topic |-> B!Or(d.topic, IF x THEN None ELSE v.topic),
         plane |-> B!BoardPlane(v, d)]
  BY MergedParts
<1> HIDE DEF r, x
<1> QED  BY <1>1, <1>2, <1>3, PartsAreShown

LEMMA AppliedIsShown ==
    ASSUME BoardSane, NEW s \in Shown, s.plane \in Planes, NEW d \in Message
    PROVE  B!ApplyToSnapshot(s, d) \in Shown /\ B!ApplyToSnapshot(s, d).plane \in Planes
<1> DEFINE plane == IF d.ack = None THEN s.plane ELSE B!CountAck(s.plane, d.ack)
<1>1. plane \in Planes
  <2>1. d.ack \in B!Acks \cup {None}
    BY DEF Message
  <2> QED  BY <2>1, PlanesStay
<1>2. B!Restarts(s.wf, d.wf) \in BOOLEAN
  BY DEF B!Restarts
<1> HIDE DEF plane
<1>3. plane \in Planes \cup {None}
  BY <1>1
<1> USE DEF plane
<1> QED  BY <1>1, <1>2, <1>3, AppliedParts, PartsAreShown

\* A delta is merged into a board that shows the snapshot as it is into the snapshot.
LEMMA DeltaIsShown ==
    ASSUME BoardSane, NEW b, NEW v \in Shown, NEW s \in Shown, s.plane \in Planes,
           NEW d \in Message, d.plane = None, Shows(b, v, s)
    PROVE  Shows(b, B!Merge(b, v, d), B!ApplyToSnapshot(s, d))
<1>1. v.wf = s.wf /\ v.cards = s.cards /\ v.meta = s.meta /\ v.plane = s.plane
  BY DEF Shows
<1>2. B!BoardPlane(v, d) = IF d.ack = None THEN s.plane ELSE B!CountAck(s.plane, d.ack)
  BY <1>1 DEF B!BoardPlane, B!Or, BoardSane
<1>3. b \notin viewers => v.topic = s.topic
  BY DEF Shows
<1> DEFINE r == B!Restarts(s.wf, d.wf)
           old == B!Restarts(v.wf, d.wf)
           m == B!Merge(b, v, d)
           a == B!ApplyToSnapshot(s, d)
<1>4. /\ m.wf = B!Or(d.wf, s.wf)
      /\ m.cards = B!MergeCards(IF r THEN B!NoCards ELSE s.cards, d.cards)
      /\ m.meta = (IF r THEN {} ELSE s.meta) \cup d.meta
      /\ m.topic = B!Or(d.topic, IF r /\ b \notin viewers THEN None ELSE v.topic)
      /\ m.plane = IF d.ack = None THEN s.plane ELSE B!CountAck(s.plane, d.ack)
  <2>1. /\ m.wf = B!Or(d.wf, v.wf)
        /\ m.cards = B!MergeCards(IF old THEN B!NoCards ELSE v.cards, d.cards)
        /\ m.meta = (IF old THEN {} ELSE v.meta) \cup d.meta
        /\ m.topic = B!Or(d.topic, IF old /\ b \notin viewers THEN None ELSE v.topic)
        /\ m.plane = B!BoardPlane(v, d)
    <3>1. m = [wf |-> B!Or(d.wf, v.wf),
               cards |-> B!MergeCards(IF old THEN B!NoCards ELSE v.cards, d.cards),
               meta |-> (IF old THEN {} ELSE v.meta) \cup d.meta,
               topic |-> B!Or(d.topic, IF old /\ b \notin viewers THEN None ELSE v.topic),
               plane |-> B!BoardPlane(v, d)]
      BY MergedParts
    <3> HIDE DEF m, old
    <3> QED  BY <3>1
  <2>2. old = r
    BY <1>1
  <2> HIDE DEF m, r, old
  <2> QED  BY <1>1, <1>2, <2>1, <2>2
<1>5. /\ a.wf = B!Or(d.wf, s.wf)
      /\ a.cards = B!MergeCards(IF r THEN B!NoCards ELSE s.cards, d.cards)
      /\ a.meta = (IF r THEN {} ELSE s.meta) \cup d.meta
      /\ a.topic = B!Or(d.topic, IF r THEN None ELSE s.topic)
      /\ a.plane = IF d.ack = None THEN s.plane ELSE B!CountAck(s.plane, d.ack)
  BY AppliedParts
<1> HIDE DEF r, m, a
<1>6. Shows(b, m, a)
  BY <1>3, <1>4, <1>5 DEF Shows
<1> QED  BY <1>6 DEF m, a

\* Nothing and all of a snapshot's cards, merged.
LEMMA CardsMerge ==
    ASSUME NEW cards \in CardsShown
    PROVE  /\ B!MergeCards(cards, B!NoCards) = cards
           /\ B!MergeCards(B!NoCards, cards) = cards
           /\ B!MergeCards(cards, cards) = cards
BY DEF CardsShown, B!MergeCards, B!NoCards, B!Or

LEMMA SnapshotParts ==
    ASSUME BoardTypes
    PROVE  LET d == B!SnapshotDelta
           IN  /\ d.wf = snapshot.wf /\ d.cards = snapshot.cards
               /\ d.meta = snapshot.meta /\ d.topic = snapshot.topic
               /\ d.plane = snapshot.plane /\ d.ack = None
               /\ d \in Message
<1> DEFINE d == B!SnapshotDelta
           parts == {"wf", "cards", "meta", "topic", "plane", "ack"}
<1>1. /\ d.wf = snapshot.wf /\ d.cards = snapshot.cards /\ d.meta = snapshot.meta
      /\ d.topic = snapshot.topic /\ d.plane = snapshot.plane /\ d.ack = None
      /\ DOMAIN d = parts /\ d = [f \in parts |-> d[f]]
  BY DEF B!SnapshotDelta, B!Blank
<1> HIDE DEF d
<1>2. /\ d.wf \in Statuses /\ d.cards \in CardsShown /\ d.meta \in MetaShown
      /\ d.topic \in Topics /\ d.plane \in Planes
  BY <1>1 DEF BoardTypes, Shown
<1>3. d \in Message
  BY <1>1, <1>2 DEF Message
<1> QED  BY <1>1, <1>3 DEF d

\* A board that has just connected, and one that shows the snapshot, show it after
\* the next snapshot.
LEMMA SnapshotSettles ==
    ASSUME BoardSane, BoardTypes, NEW b, NEW v \in Shown,
           \/ Shows(b, v, snapshot)
           \/ /\ v.wf = None /\ v.cards = B!NoCards /\ v.meta = {}
              /\ b \notin viewers => v.topic = None
    PROVE  Shows(b, B!Merge(b, v, B!SnapshotDelta), snapshot)
<1> DEFINE d == B!SnapshotDelta
           r == B!Restarts(v.wf, d.wf)
           m == B!Merge(b, v, d)
<1>1. /\ d \in Message
      /\ d.wf = snapshot.wf /\ d.cards = snapshot.cards /\ d.meta = snapshot.meta
      /\ d.topic = snapshot.topic /\ d.plane = snapshot.plane /\ d.ack = None
  BY SnapshotParts
<1>2. m = [wf |-> B!Or(d.wf, v.wf),
           cards |-> B!MergeCards(IF r THEN B!NoCards ELSE v.cards, d.cards),
           meta |-> (IF r THEN {} ELSE v.meta) \cup d.meta,
           topic |-> B!Or(d.topic, IF r /\ b \notin viewers THEN None ELSE v.topic),
           plane |-> B!BoardPlane(v, d)]
  BY <1>1, MergedParts
<1> HIDE DEF m, r, d
<1>3. /\ m.wf = B!Or(d.wf, v.wf)
      /\ m.cards = B!MergeCards(IF r THEN B!NoCards ELSE v.cards, d.cards)
      /\ m.meta = (IF r THEN {} ELSE v.meta) \cup d.meta
      /\ m.topic = B!Or(d.topic, IF r /\ b \notin viewers THEN None ELSE v.topic)
      /\ m.plane = B!BoardPlane(v, d)
  BY <1>2
<1>4. m.plane = snapshot.plane
  <2>1. snapshot.plane # None
    BY DEF BoardTypes, BoardSane
  <2> QED  BY <1>1, <1>3, <2>1 DEF B!BoardPlane, B!Or
<1>5. /\ B!MergeCards(snapshot.cards, snapshot.cards) = snapshot.cards
      /\ B!MergeCards(B!NoCards, snapshot.cards) = snapshot.cards
  BY CardsMerge DEF BoardTypes, Shown
<1>6. CASE Shows(b, v, snapshot)
  <2>1. ~r
    BY <1>1, <1>6 DEF r, d, Shows, B!Restarts, B!Terminal
  <2> QED  BY <1>1, <1>3, <1>4, <1>5, <1>6, <2>1 DEF Shows, B!Or, m, d
<1>7. CASE /\ v.wf = None /\ v.cards = B!NoCards /\ v.meta = {}
           /\ b \notin viewers => v.topic = None
  <2>1. Shows(b, m, snapshot)
    BY <1>1, <1>3, <1>4, <1>5, <1>7 DEF Shows, B!Or
  <2> QED  BY <2>1 DEF m, d
<1> QED  BY <1>6, <1>7

\* The gateway's notice of a stop is merged as the gateway noted it.
LEMMA NoticeIsShown ==
    ASSUME BoardSane, BoardTypes, NEW b, NEW v \in Shown, NEW p \in Planes,
           Shows(b, v, snapshot)
    PROVE  /\ [B!Blank EXCEPT !.plane = p] \in Message
           /\ Shows(b, B!Merge(b, v, [B!Blank EXCEPT !.plane = p]),
                       [snapshot EXCEPT !.plane = p])
<1> DEFINE d == [B!Blank EXCEPT !.plane = p]
           r == B!Restarts(v.wf, d.wf)
           m == B!Merge(b, v, d)
           s == [snapshot EXCEPT !.plane = p]
<1>1. d = [wf |-> None, cards |-> B!NoCards, meta |-> {}, topic |-> None, plane |-> p,
           ack |-> None]
  BY DEF B!Blank
<1>2. d \in Message
  <2>1. None \in Statuses /\ B!NoCards \in CardsShown /\ {} \in MetaShown /\ None \in Topics
    BY DEF Statuses, CardsShown, MetaShown, Topics, B!NoCards
  <2> HIDE DEF d
  <2> QED  BY <1>1, <2>1 DEF Message
<1>3. s = [wf |-> snapshot.wf, cards |-> snapshot.cards, meta |-> snapshot.meta,
           topic |-> snapshot.topic, plane |-> p]
  BY DEF BoardTypes, Shown
<1> HIDE DEF d, s
<1>4. ~r
  BY <1>1 DEF B!Restarts, BoardSane
<1>5. m = [wf |-> B!Or(d.wf, v.wf),
           cards |-> B!MergeCards(IF r THEN B!NoCards ELSE v.cards, d.cards),
           meta |-> (IF r THEN {} ELSE v.meta) \cup d.meta,
           topic |-> B!Or(d.topic, IF r /\ b \notin viewers THEN None ELSE v.topic),
           plane |-> B!BoardPlane(v, d)]
  BY <1>2, MergedParts
<1> HIDE DEF m, r
<1>6. /\ m.wf = v.wf /\ m.cards = B!MergeCards(v.cards, B!NoCards)
      /\ m.meta = v.meta /\ m.topic = v.topic /\ m.plane = p
  <2>1. p # None
    BY DEF BoardSane
  <2>2. B!BoardPlane(v, d) = p
    BY <1>1, <2>1 DEF B!BoardPlane, B!Or
  <2> QED  BY <1>1, <1>4, <1>5, <2>2 DEF B!Or
<1>7. B!MergeCards(v.cards, B!NoCards) = v.cards
  BY CardsMerge DEF Shown
<1>8. Shows(b, m, s)
  BY <1>3, <1>6, <1>7 DEF Shows
<1> QED  BY <1>2, <1>8 DEF m, d, s

-----------------------------------------------------------------------------
(* The messages on their way to a board.                                    *)

LEMMA NothingMore ==
    ASSUME NEW b, NEW v, NEW s, Reaches(b, v, <<>>, s)
    PROVE  Shows(b, v, s)
BY DEF Reaches

LEMMA OneAlone ==
    ASSUME NEW b, NEW v \in Shown, NEW d \in Message, NEW s,
           B!Merge(b, v, d) \in Shown, Shows(b, B!Merge(b, v, d), s)
    PROVE  Reaches(b, v, <<d>>, s)
<1> DEFINE m == B!Merge(b, v, d)
           trace == [i \in 0 .. 1 |-> IF i = 0 THEN v ELSE m]
<1> HIDE DEF m
<1>1. m \in Shown /\ Shows(b, m, s)
  BY DEF m
<1>2. trace \in [0 .. 1 -> Shown] /\ trace[0] = v /\ trace[1] = m
  BY <1>1
<1> HIDE DEF trace
<1>3. Len(<<d>>) = 1 /\ <<d>>[1] = d
  OBVIOUS
<1>4. \A i \in 1 .. 1 : trace[i] = B!Merge(b, trace[i - 1], <<d>>[i])
  BY <1>2, <1>3 DEF m
<1> QED  BY <1>1, <1>2, <1>3, <1>4 DEF Reaches

\* A message more, whose merge keeps up with the snapshot.
LEMMA OneMore ==
    ASSUME NEW b, NEW v \in Shown, NEW q \in Seq(Message), NEW d \in Message, NEW s, NEW t,
           Reaches(b, v, q, s),
           \A w \in Shown : Shows(b, w, s) => /\ B!Merge(b, w, d) \in Shown
                                              /\ Shows(b, B!Merge(b, w, d), t)
    PROVE  Reaches(b, v, Append(q, d), t)
<1>1. Len(q) \in Nat
  OBVIOUS
<1>2. PICK trace \in [0 .. Len(q) -> Shown] :
        /\ trace[0] = v
        /\ \A i \in 1 .. Len(q) : trace[i] = B!Merge(b, trace[i - 1], q[i])
        /\ Shows(b, trace[Len(q)], s)
  BY DEF Reaches
<1> DEFINE m == B!Merge(b, trace[Len(q)], d)
           more == [i \in 0 .. (Len(q) + 1) |-> IF i <= Len(q) THEN trace[i] ELSE m]
<1> HIDE DEF m
<1>3. m \in Shown /\ Shows(b, m, t)
  BY <1>1, <1>2 DEF m
<1>4. /\ more \in [0 .. (Len(q) + 1) -> Shown] /\ more[Len(q) + 1] = m
      /\ \A i \in 0 .. Len(q) : more[i] = trace[i]
  BY <1>1, <1>3
<1> HIDE DEF more
<1>5. /\ Len(Append(q, d)) = Len(q) + 1 /\ Append(q, d)[Len(q) + 1] = d
      /\ \A i \in 1 .. Len(q) : Append(q, d)[i] = q[i]
  OBVIOUS
<1>6. ASSUME NEW i \in 1 .. (Len(q) + 1)
      PROVE  more[i] = B!Merge(b, more[i - 1], Append(q, d)[i])
  <2>1. CASE i = Len(q) + 1
    <3>1. i - 1 = Len(q) /\ more[i - 1] = trace[Len(q)]
      BY <1>1, <1>4, <2>1
    <3> QED  BY <1>4, <1>5, <2>1, <3>1 DEF m
  <2>2. CASE i # Len(q) + 1
    <3>1. i \in 1 .. Len(q) /\ i \in 0 .. Len(q) /\ i - 1 \in 0 .. Len(q)
      BY <1>1, <2>2
    <3> QED  BY <1>2, <1>4, <1>5, <3>1
  <2> QED  BY <2>1, <2>2
<1>7. more[0] = v
  BY <1>1, <1>2, <1>4
<1> QED  BY <1>3, <1>4, <1>5, <1>6, <1>7 DEF Reaches

\* The first message arrives.
LEMMA OneLess ==
    ASSUME NEW b, NEW v, NEW q \in Seq(Message), q # <<>>, NEW s, Reaches(b, v, q, s)
    PROVE  /\ Reaches(b, B!Merge(b, v, Head(q)), Tail(q), s)
           /\ B!Merge(b, v, Head(q)) \in Shown
<1>1. Len(q) \in Nat \ {0}
  OBVIOUS
<1>2. PICK trace \in [0 .. Len(q) -> Shown] :
        /\ trace[0] = v
        /\ \A i \in 1 .. Len(q) : trace[i] = B!Merge(b, trace[i - 1], q[i])
        /\ Shows(b, trace[Len(q)], s)
  BY DEF Reaches
<1> DEFINE rest == [i \in 0 .. (Len(q) - 1) |-> trace[i + 1]]
<1>3. /\ Len(Tail(q)) = Len(q) - 1 /\ Head(q) = q[1]
      /\ \A i \in 1 .. (Len(q) - 1) : Tail(q)[i] = q[i + 1]
  OBVIOUS
<1>4. trace[1] = B!Merge(b, v, Head(q))
  <2>1. 1 \in 1 .. Len(q) /\ 1 - 1 = 0
    BY <1>1
  <2> QED  BY <1>2, <1>3, <2>1
<1>5. /\ rest \in [0 .. (Len(q) - 1) -> Shown]
      /\ \A i \in 0 .. (Len(q) - 1) : rest[i] = trace[i + 1]
  BY <1>1, <1>2
<1> HIDE DEF rest
<1>6. rest[0] = trace[1] /\ rest[Len(q) - 1] = trace[Len(q)] /\ trace[1] \in Shown
  <2>1. 0 \in 0 .. (Len(q) - 1) /\ Len(q) - 1 \in 0 .. (Len(q) - 1) /\ (Len(q) - 1) + 1 = Len(q)
        /\ 1 \in 0 .. Len(q) /\ 0 + 1 = 1
    BY <1>1
  <2> QED  BY <1>2, <1>5, <2>1
<1>7. ASSUME NEW i \in 1 .. (Len(q) - 1)
      PROVE  rest[i] = B!Merge(b, rest[i - 1], Tail(q)[i])
  <2>1. /\ i \in 0 .. (Len(q) - 1) /\ i - 1 \in 0 .. (Len(q) - 1) /\ (i - 1) + 1 = i
        /\ i + 1 \in 1 .. Len(q) /\ (i + 1) - 1 = i
    BY <1>1
  <2>2. trace[i + 1] = B!Merge(b, trace[i], q[i + 1])
    BY <1>2, <2>1
  <2> QED  BY <1>3, <1>5, <2>1, <2>2
<1>8. Reaches(b, trace[1], Tail(q), s)
  BY <1>2, <1>3, <1>5, <1>6, <1>7 DEF Reaches
<1> QED  BY <1>4, <1>6, <1>8

-----------------------------------------------------------------------------
(* The steps of the gateway and its boards.                                 *)

LEMMA DeltasAreMessages ==
    ASSUME NEW d \in B!Deltas
    PROVE  d \in Message /\ d.plane = None
<1> DEFINE parts == {"wf", "cards", "meta", "topic", "plane", "ack"}
<1>1. /\ None \in Statuses /\ B!NoCards \in CardsShown /\ {} \in MetaShown /\ None \in Topics
      /\ "RUNNING" \in Statuses /\ "FINISHED" \in Statuses /\ "new" \in Topics
      /\ {"start"} \in MetaShown /\ {"end"} \in MetaShown
  BY DEF Statuses, CardsShown, MetaShown, Topics, B!NoCards
<1>2. CASE d = [B!Blank EXCEPT !.wf = "RUNNING", !.topic = "new", !.meta = {"start"}]
  <2>1. /\ d.wf = "RUNNING" /\ d.cards = B!NoCards /\ d.meta = {"start"} /\ d.topic = "new"
        /\ d.plane = None /\ d.ack = None
        /\ d = [f \in parts |-> d[f]]
    BY <1>2 DEF B!Blank
  <2> QED  BY <1>1, <2>1 DEF Message
<1>3. CASE d = [B!Blank EXCEPT !.wf = "FINISHED", !.meta = {"end"}]
  <2>1. /\ d.wf = "FINISHED" /\ d.cards = B!NoCards /\ d.meta = {"end"} /\ d.topic = None
        /\ d.plane = None /\ d.ack = None
        /\ d = [f \in parts |-> d[f]]
    BY <1>3 DEF B!Blank
  <2> QED  BY <1>1, <2>1 DEF Message
<1>4. ASSUME NEW c \in Card, NEW s \in {"DOING", "DONE"},
             d = [B!Blank EXCEPT !.cards[c] = s]
      PROVE  d \in Message /\ d.plane = None
  <2> DEFINE cards == [B!NoCards EXCEPT ![c] = s]
  <2>1. cards \in CardsShown
    BY DEF B!NoCards, CardsShown, Statuses
  <2> HIDE DEF cards
  <2>2. d = [B!Blank EXCEPT !.cards = cards]
    BY <1>4 DEF B!Blank, cards
  <2>3. /\ d.wf = None /\ d.cards = cards /\ d.meta = {} /\ d.topic = None
        /\ d.plane = None /\ d.ack = None
        /\ d = [f \in parts |-> d[f]]
    BY <2>2 DEF B!Blank
  <2> QED  BY <1>1, <2>1, <2>3 DEF Message
<1>5. ASSUME NEW a \in B!Acks, d = [B!Blank EXCEPT !.ack = a]
      PROVE  d \in Message /\ d.plane = None
  <2>1. /\ d.wf = None /\ d.cards = B!NoCards /\ d.meta = {} /\ d.topic = None
        /\ d.plane = None /\ d.ack = a
        /\ d = [f \in parts |-> d[f]]
    BY <1>5 DEF B!Blank
  <2> QED  BY <1>1, <2>1 DEF Message
<1> QED  BY <1>2, <1>3, <1>4, <1>5 DEF B!Deltas

LEMMA BoardStart ==
    ASSUME BoardSane
    PROVE  B!Init => BoardInv
<1> SUFFICES ASSUME B!Init PROVE BoardInv
  OBVIOUS
<1>1. /\ snapshot = [wf |-> None, cards |-> B!NoCards, meta |-> {}, topic |-> None,
                     plane |-> [stop |-> 0, acks |-> 0]]
      /\ linked = {} /\ queue = [b \in Board |-> <<>>] /\ heard = [s \in B!Stop |-> <<>>]
      /\ inputs = 0 /\ connects = [b \in Board |-> 0]
  BY DEF B!Init, B!EmptySnapshot, B!NoPlane, B!Unheard
<1>2. /\ None \in Statuses /\ B!NoCards \in CardsShown /\ {} \in MetaShown /\ None \in Topics
      /\ [stop |-> 0, acks |-> 0] \in Planes
  BY DEF Statuses, CardsShown, MetaShown, Topics, B!NoCards, Planes
<1>3. snapshot \in Shown /\ snapshot.plane \in Planes
  BY <1>1, <1>2 DEF Shown
<1>4. B!Fresh = [wf |-> None, cards |-> B!NoCards, meta |-> {}, topic |-> None,
                 plane |-> None]
  BY DEF B!Fresh, B!EmptySnapshot
<1>5. B!Fresh \in Shown
  BY <1>2, <1>4 DEF Shown
<1>6. view \in [Board -> Shown] /\ queue \in [Board -> Seq(Message)]
  BY <1>1, <1>5 DEF B!Init
<1>7. B!TypeOK
  BY <1>1 DEF B!TypeOK, BoardSane
<1>8. AcksAreKnown
  BY <1>1 DEF AcksAreKnown, Acked
<1> QED  BY <1>1, <1>3, <1>6, <1>7, <1>8 DEF BoardInv, BoardTypes

\* What is acknowledged is counted with the stop it is for.
LEMMA AckKeepsTheCount ==
    ASSUME BoardSane, BoardInv, NEW a \in B!Acks,
           heard' = IF a.node = "issued" THEN heard
                    ELSE [heard EXCEPT ![a.stop] = Append(@, a.node)],
           snapshot'.plane = B!CountAck(snapshot.plane, a)
    PROVE  /\ AcksAreKnown' /\ snapshot'.plane.stop \in 0 .. MaxStop
           /\ heard' \in [B!Stop -> Seq(Node)]
<1> DEFINE p == snapshot.plane
           q == snapshot'.plane
<1>0. q = B!CountAck(p, a)
  OBVIOUS
<1>1. /\ p \in Planes /\ p.stop \in 0 .. MaxStop /\ p.acks \in Nat
      /\ a.stop \in 1 .. MaxStop /\ MaxStop \in Nat /\ B!Stop = 1 .. MaxStop
      /\ a.node \in Node \cup {"issued"}
      /\ p = [stop |-> p.stop, acks |-> p.acks]
  BY DEF B!Acks, B!Stop, BoardSane, BoardInv, BoardTypes, B!TypeOK, Planes
<1>2. /\ \A s \in B!Stop : s > p.stop => heard[s] = <<>>
      /\ p.acks = Acked(heard, p.stop)
      /\ heard \in [B!Stop -> Seq(Node)]
  BY DEF BoardInv, AcksAreKnown, B!TypeOK
<1> HIDE DEF p, q
<1>3. /\ heard' \in [B!Stop -> Seq(Node)]
      /\ \A s \in B!Stop : s # a.stop => heard'[s] = heard[s]
      /\ a.node = "issued" => heard' = heard
      /\ a.node # "issued" => Len(heard'[a.stop]) = Len(heard[a.stop]) + 1
  <2>1. CASE a.node = "issued"
    BY <1>2, <2>1
  <2>2. CASE a.node # "issued"
    <3>1. /\ a.node \in Node /\ a.stop \in B!Stop
          /\ heard' = [heard EXCEPT ![a.stop] = Append(heard[a.stop], a.node)]
      BY <1>1, <2>2
    <3>2. /\ heard[a.stop] \in Seq(Node) /\ Append(heard[a.stop], a.node) \in Seq(Node)
          /\ Len(Append(heard[a.stop], a.node)) = Len(heard[a.stop]) + 1
      BY <1>2, <3>1
    <3> QED  BY <1>2, <2>2, <3>1, <3>2
  <2> QED  BY <2>1, <2>2
<1>4. CASE a.stop > p.stop
  <2>1. Len(heard[a.stop]) = 0
    BY <1>1, <1>2, <1>4
  <2>2. q = [stop |-> a.stop, acks |-> IF a.node = "issued" THEN 0 ELSE 1]
    <3>1. [[stop |-> a.stop, acks |-> 0] EXCEPT !.acks = @ + 1]
              = [stop |-> a.stop, acks |-> 1]
      OBVIOUS
    <3> QED  BY <1>0, <1>4, <3>1 DEF B!CountAck
  <2>3. q.stop = a.stop /\ q.acks = IF a.node = "issued" THEN 0 ELSE 1
    BY <2>2
  <2>4. q.acks = Acked(heard', q.stop)
    BY <1>1, <1>3, <2>1, <2>3 DEF Acked
  <2>5. \A s \in B!Stop : s > q.stop => heard'[s] = <<>>
    BY <1>1, <1>2, <1>3, <1>4, <2>3
  <2> QED  BY <1>1, <1>3, <2>3, <2>4, <2>5 DEF AcksAreKnown, q
<1>5. CASE ~(a.stop > p.stop) /\ (a.node = "issued" \/ a.stop # p.stop)
  <2>1. q = p
    BY <1>0, <1>5 DEF B!CountAck
  <2>2. Acked(heard', p.stop) = Acked(heard, p.stop)
    BY <1>1, <1>3, <1>5 DEF Acked
  <2>3. \A s \in B!Stop : s > q.stop => heard'[s] = <<>>
    BY <1>1, <1>2, <1>3, <1>5, <2>1
  <2> QED  BY <1>1, <1>2, <1>3, <2>1, <2>2, <2>3 DEF AcksAreKnown, q
<1>6. CASE a.stop = p.stop /\ a.node # "issued"
  <2>1. q = [stop |-> p.stop, acks |-> p.acks + 1]
    <3>1. ~(a.stop > p.stop)
      BY <1>1, <1>6
    <3>2. [p EXCEPT !.acks = @ + 1] = [stop |-> p.stop, acks |-> p.acks + 1]
      BY <1>1
    <3> QED  BY <1>0, <1>6, <3>1, <3>2 DEF B!CountAck
  <2>2. q.stop = p.stop /\ q.acks = p.acks + 1
    BY <2>1
  <2>3. q.acks = Acked(heard', q.stop)
    BY <1>1, <1>2, <1>3, <1>6, <2>2 DEF Acked
  <2>4. \A s \in B!Stop : s > q.stop => heard'[s] = <<>>
    BY <1>1, <1>2, <1>3, <1>6, <2>2
  <2> QED  BY <1>1, <1>3, <2>2, <2>3, <2>4 DEF AcksAreKnown, q
<1> QED  BY <1>1, <1>4, <1>5, <1>6

\* A delta reaches the snapshot and every board that is connected.
LEMMA ReceiveHolds ==
    ASSUME BoardSane, BoardInv, NEW d \in B!Deltas, B!ReceiveDelta(d)
    PROVE  BoardInv'
<1>1. /\ d \in Message /\ d.plane = None
      /\ snapshot' = B!ApplyToSnapshot(snapshot, d)
      /\ viewers' = viewers /\ linked' = linked /\ view' = view /\ connects' = connects
      /\ inputs' \in 0 .. MaxInput
  BY DeltasAreMessages DEF B!ReceiveDelta, B!Handles, BoardInv, B!TypeOK, BoardSane
<1>2. /\ queue' = [b \in Board |-> IF b \in linked THEN Append(queue[b], d) ELSE queue[b]]
  BY DEF B!ReceiveDelta, B!EmitLocal
<1>3. /\ snapshot \in Shown /\ snapshot.plane \in Planes /\ snapshot.plane # None
      /\ queue \in [Board -> Seq(Message)] /\ view \in [Board -> Shown]
  BY DEF BoardInv, BoardTypes, BoardSane
<1>4. BoardTypes'
  <2>1. snapshot' \in Shown /\ snapshot'.plane \in Planes
    BY <1>1, <1>3, AppliedIsShown
  <2>2. queue' \in [Board -> Seq(Message)]
    BY <1>1, <1>2, <1>3
  <2> QED  BY <1>1, <1>3, <2>1, <2>2 DEF BoardTypes
<1>5. snapshot'.plane = IF d.ack = None THEN snapshot.plane
                                        ELSE B!CountAck(snapshot.plane, d.ack)
  BY <1>1, <1>3, AppliedParts
<1>6. /\ AcksAreKnown' /\ snapshot'.plane.stop \in 0 .. MaxStop
      /\ heard' \in [B!Stop -> Seq(Node)]
  <2>1. CASE d.ack = None
    <3>1. heard' = heard /\ snapshot'.plane = snapshot.plane
      BY <1>5, <2>1 DEF B!ReceiveDelta
    <3>2. snapshot'.plane.stop = snapshot.plane.stop /\ snapshot'.plane.acks = snapshot.plane.acks
      BY <3>1
    <3> QED  BY <3>1, <3>2 DEF AcksAreKnown, BoardInv, B!TypeOK
  <2>2. CASE d.ack # None
    <3>1. d.ack \in B!Acks
      BY <1>1, <2>2 DEF Message
    <3>2. heard' = IF d.ack.node = "issued" THEN heard
                   ELSE [heard EXCEPT ![d.ack.stop] = Append(@, d.ack.node)]
      BY <2>2 DEF B!ReceiveDelta
    <3>3. snapshot'.plane = B!CountAck(snapshot.plane, d.ack)
      BY <1>5, <2>2
    <3> QED  BY <3>1, <3>2, <3>3, AckKeepsTheCount
  <2> QED  BY <2>1, <2>2
<1>7. B!TypeOK'
  <2>1. snapshot'.plane.acks \in Nat
    BY <1>4 DEF BoardTypes, Planes
  <2>2. \A b \in Board \ linked' : queue'[b] = <<>>
    BY <1>1, <1>2 DEF BoardInv, B!TypeOK
  <2>3. linked' \subseteq Board /\ connects' \in [Board -> 0 .. MaxConnects]
    BY <1>1 DEF BoardInv, B!TypeOK
  <2> QED  BY <1>1, <1>6, <2>1, <2>2, <2>3 DEF B!TypeOK
<1>8. ASSUME NEW b \in linked'
      PROVE  Reaches(b, view[b], queue[b], snapshot)'
  <2>1. b \in linked /\ b \in Board /\ Reaches(b, view[b], queue[b], snapshot)
    BY <1>1 DEF BoardInv, B!TypeOK
  <2>2. ASSUME NEW w \in Shown, Shows(b, w, snapshot)
        PROVE  /\ B!Merge(b, w, d) \in Shown
               /\ Shows(b, B!Merge(b, w, d), B!ApplyToSnapshot(snapshot, d))
    BY <1>1, <1>3, <2>2, MergeIsShown, DeltaIsShown
  <2>3. view[b] \in Shown /\ queue[b] \in Seq(Message)
    BY <1>3, <2>1
  <2>4. Reaches(b, view[b], Append(queue[b], d), B!ApplyToSnapshot(snapshot, d))
    BY <1>1, <2>1, <2>2, <2>3, OneMore
  <2>5. queue'[b] = Append(queue[b], d)
    BY <1>2, <2>1
  <2> QED  BY <1>1, <2>4, <2>5 DEF Reaches, Shows, B!Merge
<1> QED  BY <1>4, <1>6, <1>7, <1>8 DEF BoardInv

\* The gateway notes a stop and tells its boards.
LEMMA NoteHolds ==
    ASSUME BoardSane, BoardInv, NEW s \in B!Stop, B!NoteStop(s)
    PROVE  BoardInv'
<1> DEFINE p == [stop |-> s, acks |-> 0]
           d == [B!Blank EXCEPT !.plane = p]
<1>1. /\ snapshot' = [snapshot EXCEPT !.plane = p]
      /\ s > snapshot.plane.stop /\ s \in 1 .. MaxStop /\ p \in Planes
      /\ viewers' = viewers /\ linked' = linked /\ view' = view /\ heard' = heard
      /\ connects' = connects /\ inputs' \in 0 .. MaxInput
  BY DEF B!NoteStop, B!Handles, BoardInv, B!TypeOK, BoardSane, B!Stop, Planes
<1>2. queue' = [b \in Board |-> IF b \in linked THEN Append(queue[b], d) ELSE queue[b]]
  BY DEF B!NoteStop, B!EmitLocal
<1>3. /\ snapshot \in Shown /\ snapshot.plane \in Planes
      /\ queue \in [Board -> Seq(Message)] /\ view \in [Board -> Shown] /\ BoardTypes
  BY DEF BoardInv, BoardTypes
<1>4. ASSUME NEW b, NEW w \in Shown, Shows(b, w, snapshot)
      PROVE  /\ d \in Message /\ B!Merge(b, w, d) \in Shown
             /\ Shows(b, B!Merge(b, w, d), snapshot')
  <2>1. d \in Message /\ Shows(b, B!Merge(b, w, d), [snapshot EXCEPT !.plane = p])
    BY <1>1, <1>3, <1>4, NoticeIsShown
  <2> QED  BY <1>1, <2>1, MergeIsShown
<1>5. d \in Message
  <2>1. Shows(0, snapshot, snapshot)
    BY DEF Shows
  <2> QED  BY <1>3, <1>4, <2>1
<1> HIDE DEF d
<1>6. /\ snapshot'.plane = p /\ snapshot' \in Shown
      /\ snapshot'.plane.stop = s /\ snapshot'.plane.acks = 0
  BY <1>1, <1>3 DEF Shown
<1>7. BoardTypes'
  <2>1. queue' \in [Board -> Seq(Message)]
    BY <1>2, <1>3, <1>5
  <2> QED  BY <1>1, <1>3, <1>6, <2>1 DEF BoardTypes
<1>8. AcksAreKnown'
  <2>1. /\ \A k \in B!Stop : k > snapshot.plane.stop => heard[k] = <<>>
        /\ snapshot.plane.stop \in 0 .. MaxStop /\ MaxStop \in Nat /\ B!Stop = 1 .. MaxStop
    BY DEF BoardInv, AcksAreKnown, B!TypeOK, BoardSane, B!Stop
  <2>2. Acked(heard, s) = 0
    BY <1>1, <2>1 DEF Acked
  <2>3. \A k \in B!Stop : k > s => heard[k] = <<>>
    BY <1>1, <2>1
  <2> QED  BY <1>1, <1>6, <2>2, <2>3 DEF AcksAreKnown
<1>9. B!TypeOK'
  <2>1. \A b \in Board \ linked' : queue'[b] = <<>>
    BY <1>1, <1>2 DEF BoardInv, B!TypeOK
  <2>2. /\ linked' \subseteq Board /\ connects' \in [Board -> 0 .. MaxConnects]
        /\ heard' \in [B!Stop -> Seq(Node)]
    BY <1>1 DEF BoardInv, B!TypeOK
  <2>3. snapshot'.plane.stop \in 0 .. MaxStop /\ snapshot'.plane.acks \in Nat
    BY <1>1, <1>6 DEF BoardSane
  <2> QED  BY <1>1, <2>1, <2>2, <2>3 DEF B!TypeOK
<1>10. ASSUME NEW b \in linked'
       PROVE  Reaches(b, view[b], queue[b], snapshot)'
  <2>1. b \in linked /\ b \in Board /\ Reaches(b, view[b], queue[b], snapshot)
    BY <1>1 DEF BoardInv, B!TypeOK
  <2>2. view[b] \in Shown /\ queue[b] \in Seq(Message)
    BY <1>3, <2>1
  <2>3. Reaches(b, view[b], Append(queue[b], d), snapshot')
    BY <1>4, <1>5, <2>1, <2>2, OneMore
  <2>4. queue'[b] = Append(queue[b], d)
    BY <1>2, <2>1
  <2> QED  BY <1>1, <2>3, <2>4 DEF Reaches, Shows, B!Merge
<1> QED  BY <1>7, <1>8, <1>9, <1>10 DEF BoardInv

\* Steps that leave the snapshot and what was heard as they are.
LEMMA SameSnapshot ==
    ASSUME BoardSane, BoardInv, snapshot' = snapshot, heard' = heard
    PROVE  /\ AcksAreKnown' /\ heard' \in [B!Stop -> Seq(Node)]
           /\ snapshot' \in Shown /\ snapshot'.plane \in Planes
           /\ snapshot'.plane.stop \in 0 .. MaxStop /\ snapshot'.plane.acks \in Nat
<1>1. /\ AcksAreKnown /\ heard \in [B!Stop -> Seq(Node)]
      /\ snapshot \in Shown /\ snapshot.plane \in Planes
      /\ snapshot.plane.stop \in 0 .. MaxStop /\ snapshot.plane.acks \in Nat
  BY DEF BoardInv, BoardTypes, B!TypeOK
<1> QED  BY <1>1 DEF AcksAreKnown

LEMMA ConnectHolds ==
    ASSUME BoardSane, BoardInv, NEW b \in Board, B!Connect(b)
    PROVE  BoardInv'
<1> DEFINE d == B!SnapshotDelta
           new == IF b \in viewers THEN [B!Fresh EXCEPT !.topic = view[b].topic] ELSE B!Fresh
<1>1. /\ snapshot' = snapshot /\ viewers' = viewers /\ heard' = heard /\ inputs' = inputs
      /\ linked' = linked \cup {b} /\ queue' = [queue EXCEPT ![b] = <<d>>]
      /\ view' = [view EXCEPT ![b] = new]
      /\ connects[b] < MaxConnects /\ connects' = [connects EXCEPT ![b] = @ + 1]
  BY DEF B!Connect
<1>2. /\ BoardTypes /\ queue \in [Board -> Seq(Message)] /\ view \in [Board -> Shown]
  BY DEF BoardInv, BoardTypes
<1>3. d \in Message
  BY <1>2, SnapshotParts
<1>4. /\ new \in Shown /\ new.wf = None /\ new.cards = B!NoCards /\ new.meta = {}
      /\ b \notin viewers => new.topic = None
  <2>1. B!Fresh = [wf |-> None, cards |-> B!NoCards, meta |-> {}, topic |-> None,
                   plane |-> None]
    BY DEF B!Fresh, B!EmptySnapshot
  <2>2. /\ None \in Statuses /\ B!NoCards \in CardsShown /\ {} \in MetaShown
        /\ None \in Topics /\ view[b].topic \in Topics
    BY <1>2 DEF Statuses, CardsShown, MetaShown, Topics, B!NoCards, Shown
  <2>3. \A t \in Topics : [wf |-> None, cards |-> B!NoCards, meta |-> {}, topic |-> t,
                           plane |-> None] \in Shown
    BY <2>2 DEF Shown
  <2>4. CASE b \in viewers
    <3>1. new = [wf |-> None, cards |-> B!NoCards, meta |-> {}, topic |-> view[b].topic,
                 plane |-> None]
      BY <2>1, <2>4
    <3> QED  BY <2>2, <2>3, <2>4, <3>1
  <2>5. CASE b \notin viewers
    BY <2>1, <2>2, <2>3, <2>5
  <2> QED  BY <2>4, <2>5
<1> HIDE DEF d, new
<1>5. BoardTypes'
  <2>1. <<d>> \in Seq(Message)
    BY <1>3
  <2>2. queue' \in [Board -> Seq(Message)] /\ view' \in [Board -> Shown]
    BY <1>1, <1>2, <1>4, <2>1
  <2> QED  BY <1>1, <2>2, SameSnapshot DEF BoardTypes
<1>6. B!TypeOK'
  <2>1. \A c \in Board \ linked' : queue'[c] = <<>>
    BY <1>1, <1>2 DEF BoardInv, B!TypeOK
  <2>2. connects' \in [Board -> 0 .. MaxConnects]
    BY <1>1 DEF BoardInv, B!TypeOK, BoardSane
  <2>3. linked' \subseteq Board /\ inputs' \in 0 .. MaxInput
    BY <1>1 DEF BoardInv, B!TypeOK
  <2> QED  BY <1>1, <2>1, <2>2, <2>3, SameSnapshot DEF B!TypeOK
<1>7. ASSUME NEW c \in linked'
      PROVE  Reaches(c, view[c], queue[c], snapshot)'
  <2>1. CASE c = b
    <3>1. B!Merge(b, new, d) \in Shown /\ Shows(b, B!Merge(b, new, d), snapshot)
      BY <1>2, <1>3, <1>4, MergeIsShown, SnapshotSettles DEF d
    <3>2. Reaches(b, new, <<d>>, snapshot)
      BY <1>3, <1>4, <3>1, OneAlone
    <3>3. view'[c] = new /\ queue'[c] = <<d>>
      BY <1>1, <1>2, <2>1
    <3> QED  BY <1>1, <2>1, <3>2, <3>3 DEF Reaches, Shows, B!Merge
  <2>2. CASE c # b
    <3>1. c \in linked /\ c \in Board /\ Reaches(c, view[c], queue[c], snapshot)
      BY <1>1, <2>2 DEF BoardInv, B!TypeOK
    <3>2. view'[c] = view[c] /\ queue'[c] = queue[c]
      BY <1>1, <1>2, <2>2, <3>1
    <3> QED  BY <1>1, <3>1, <3>2 DEF Reaches, Shows, B!Merge
  <2> QED  BY <2>1, <2>2
<1> QED  BY <1>1, <1>5, <1>6, <1>7, SameSnapshot DEF BoardInv

LEMMA RequestHolds ==
    ASSUME BoardSane, BoardInv, NEW b \in Board, B!RequestSnapshot(b)
    PROVE  BoardInv'
<1> DEFINE d == B!SnapshotDelta
<1>1. /\ snapshot' = snapshot /\ viewers' = viewers /\ heard' = heard
      /\ inputs' \in 0 .. MaxInput /\ linked' = linked /\ view' = view
      /\ queue' = [queue EXCEPT ![b] = Append(@, d)] /\ connects' = connects
      /\ b \in linked
  BY DEF B!RequestSnapshot, B!Handles, BoardInv, B!TypeOK, BoardSane
<1>2. /\ BoardTypes /\ queue \in [Board -> Seq(Message)] /\ view \in [Board -> Shown]
  BY DEF BoardInv, BoardTypes
<1>3. d \in Message
  BY <1>2, SnapshotParts
<1> HIDE DEF d
<1>4. BoardTypes'
  <2>1. queue' \in [Board -> Seq(Message)]
    BY <1>1, <1>2, <1>3
  <2> QED  BY <1>1, <1>2, <2>1, SameSnapshot DEF BoardTypes
<1>5. B!TypeOK'
  <2>1. \A c \in Board \ linked' : queue'[c] = <<>>
    BY <1>1, <1>2 DEF BoardInv, B!TypeOK
  <2>2. linked' \subseteq Board /\ connects' \in [Board -> 0 .. MaxConnects]
    BY <1>1 DEF BoardInv, B!TypeOK
  <2> QED  BY <1>1, <2>1, <2>2, SameSnapshot DEF B!TypeOK
<1>6. ASSUME NEW c \in linked'
      PROVE  Reaches(c, view[c], queue[c], snapshot)'
  <2>1. c \in linked /\ c \in Board /\ Reaches(c, view[c], queue[c], snapshot)
    BY <1>1 DEF BoardInv, B!TypeOK
  <2>2. CASE c = b
    <3>1. ASSUME NEW w \in Shown, Shows(b, w, snapshot)
          PROVE  B!Merge(b, w, d) \in Shown /\ Shows(b, B!Merge(b, w, d), snapshot)
      BY <1>2, <1>3, <3>1, MergeIsShown, SnapshotSettles DEF d
    <3>2. view[b] \in Shown /\ queue[b] \in Seq(Message)
      BY <1>2
    <3>3. Reaches(b, view[b], Append(queue[b], d), snapshot)
      BY <1>3, <2>1, <2>2, <3>1, <3>2, OneMore
    <3>4. queue'[c] = Append(queue[b], d)
      BY <1>1, <1>2, <2>2
    <3> QED  BY <1>1, <2>2, <3>3, <3>4 DEF Reaches, Shows, B!Merge
  <2>3. CASE c # b
    <3>1. queue'[c] = queue[c]
      BY <1>1, <1>2, <2>1, <2>3
    <3> QED  BY <1>1, <2>1, <3>1 DEF Reaches, Shows, B!Merge
  <2> QED  BY <2>2, <2>3
<1> QED  BY <1>1, <1>4, <1>5, <1>6, SameSnapshot DEF BoardInv

LEMMA ShowHolds ==
    ASSUME BoardSane, BoardInv, NEW b \in Board, B!Deliver(b)
    PROVE  BoardInv'
<1> DEFINE m == B!Merge(b, view[b], Head(queue[b]))
<1>1. /\ snapshot' = snapshot /\ viewers' = viewers /\ heard' = heard /\ inputs' = inputs
      /\ linked' = linked /\ connects' = connects /\ queue[b] # <<>>
      /\ view' = [view EXCEPT ![b] = m] /\ queue' = [queue EXCEPT ![b] = Tail(@)]
  BY DEF B!Deliver
<1>2. /\ queue \in [Board -> Seq(Message)] /\ view \in [Board -> Shown]
  BY DEF BoardInv, BoardTypes
<1>3. b \in linked /\ Reaches(b, view[b], queue[b], snapshot)
  BY <1>1 DEF BoardInv, B!TypeOK
<1>4. m \in Shown /\ Reaches(b, m, Tail(queue[b]), snapshot)
  BY <1>1, <1>2, <1>3, OneLess
<1> HIDE DEF m
<1>5. BoardTypes'
  <2>1. Tail(queue[b]) \in Seq(Message)
    BY <1>1, <1>2
  <2>2. queue' \in [Board -> Seq(Message)] /\ view' \in [Board -> Shown]
    BY <1>1, <1>2, <1>4, <2>1
  <2> QED  BY <1>1, <2>2, SameSnapshot DEF BoardTypes
<1>6. B!TypeOK'
  <2>1. \A c \in Board \ linked' : queue'[c] = <<>>
    BY <1>1, <1>2, <1>3 DEF BoardInv, B!TypeOK
  <2>2. /\ linked' \subseteq Board /\ connects' \in [Board -> 0 .. MaxConnects]
        /\ inputs' \in 0 .. MaxInput
    BY <1>1 DEF BoardInv, B!TypeOK
  <2> QED  BY <1>1, <2>1, <2>2, SameSnapshot DEF B!TypeOK
<1>7. ASSUME NEW c \in linked'
      PROVE  Reaches(c, view[c], queue[c], snapshot)'
  <2>1. CASE c = b
    <3>1. view'[c] = m /\ queue'[c] = Tail(queue[b])
      BY <1>1, <1>2, <2>1
    <3> QED  BY <1>1, <1>4, <2>1, <3>1 DEF Reaches, Shows, B!Merge
  <2>2. CASE c # b
    <3>1. c \in linked /\ c \in Board /\ Reaches(c, view[c], queue[c], snapshot)
      BY <1>1 DEF BoardInv, B!TypeOK
    <3>2. view'[c] = view[c] /\ queue'[c] = queue[c]
      BY <1>1, <1>2, <2>2, <3>1
    <3> QED  BY <1>1, <3>1, <3>2 DEF Reaches, Shows, B!Merge
  <2> QED  BY <2>1, <2>2
<1> QED  BY <1>1, <1>5, <1>6, <1>7, SameSnapshot DEF BoardInv

LEMMA DisconnectHolds ==
    ASSUME BoardSane, BoardInv, NEW b \in Board, B!Disconnect(b)
    PROVE  BoardInv'
<1>1. /\ snapshot' = snapshot /\ viewers' = viewers /\ heard' = heard /\ inputs' = inputs
      /\ linked' = linked \ {b} /\ connects' = connects /\ view' = view
      /\ queue' = [queue EXCEPT ![b] = <<>>]
  BY DEF B!Disconnect
<1>2. /\ queue \in [Board -> Seq(Message)] /\ view \in [Board -> Shown]
  BY DEF BoardInv, BoardTypes
<1>3. BoardTypes'
  <2>1. queue' \in [Board -> Seq(Message)]
    BY <1>1, <1>2
  <2> QED  BY <1>1, <1>2, <2>1, SameSnapshot DEF BoardTypes
<1>4. B!TypeOK'
  <2>1. \A c \in Board \ linked' : queue'[c] = <<>>
    BY <1>1, <1>2 DEF BoardInv, B!TypeOK
  <2>2. /\ linked' \subseteq Board /\ connects' \in [Board -> 0 .. MaxConnects]
        /\ inputs' \in 0 .. MaxInput
    BY <1>1 DEF BoardInv, B!TypeOK
  <2> QED  BY <1>1, <2>1, <2>2, SameSnapshot DEF B!TypeOK
<1>5. ASSUME NEW c \in linked'
      PROVE  Reaches(c, view[c], queue[c], snapshot)'
  <2>1. /\ c \in linked /\ c \in Board /\ c # b
        /\ Reaches(c, view[c], queue[c], snapshot)
    BY <1>1 DEF BoardInv, B!TypeOK
  <2>2. view'[c] = view[c] /\ queue'[c] = queue[c]
    BY <1>1, <1>2, <2>1
  <2> QED  BY <1>1, <2>1, <2>2 DEF Reaches, Shows, B!Merge
<1> QED  BY <1>1, <1>3, <1>4, <1>5, SameSnapshot DEF BoardInv

LEMMA RestartHolds ==
    ASSUME BoardSane, BoardInv, B!Restart
    PROVE  BoardInv'
<1>1. /\ snapshot' = [wf |-> None, cards |-> B!NoCards, meta |-> {}, topic |-> None,
                      plane |-> [stop |-> 0, acks |-> 0]]
      /\ linked' = {} /\ queue' = [b \in Board |-> <<>>] /\ view' = view
      /\ heard' = [s \in B!Stop |-> <<>>]
      /\ connects' = connects /\ inputs' \in 0 .. MaxInput
  BY DEF B!Restart, B!Handles, B!EmptySnapshot, B!NoPlane, B!Unheard, BoardInv, B!TypeOK, BoardSane
<1>2. /\ None \in Statuses /\ B!NoCards \in CardsShown /\ {} \in MetaShown /\ None \in Topics
      /\ [stop |-> 0, acks |-> 0] \in Planes
  BY DEF Statuses, CardsShown, MetaShown, Topics, B!NoCards, Planes
<1>3. snapshot' \in Shown /\ snapshot'.plane \in Planes
  BY <1>1, <1>2 DEF Shown
<1>4. view' \in [Board -> Shown] /\ queue' \in [Board -> Seq(Message)]
  BY <1>1 DEF BoardInv, BoardTypes
<1>5. B!TypeOK'
  BY <1>1 DEF B!TypeOK, BoardSane, BoardInv
<1>6. AcksAreKnown'
  BY <1>1 DEF AcksAreKnown, Acked
<1> QED  BY <1>1, <1>3, <1>4, <1>5, <1>6 DEF BoardInv, BoardTypes

LEMMA BoardInvHolds ==
    ASSUME BoardSane
    PROVE  B!Spec => []BoardInv
<1>1. ASSUME BoardInv, [B!Next]_(B!viewVars) PROVE BoardInv'
  <2>1. CASE B!Next
    BY <1>1, <2>1, ReceiveHolds, NoteHolds, ConnectHolds, RequestHolds, ShowHolds,
       DisconnectHolds, RestartHolds DEF B!Next
  <2>2. CASE UNCHANGED B!viewVars
    <3>1. /\ snapshot' = snapshot /\ linked' = linked /\ queue' = queue /\ view' = view
          /\ viewers' = viewers /\ heard' = heard /\ inputs' = inputs
          /\ connects' = connects
      BY <2>2 DEF B!viewVars
    <3>2. B!TypeOK' /\ BoardTypes' /\ AcksAreKnown'
      BY <1>1, <3>1 DEF BoardInv, B!TypeOK, BoardTypes, AcksAreKnown
    <3>3. ASSUME NEW b \in linked' PROVE Reaches(b, view[b], queue[b], snapshot)'
      <4>1. Reaches(b, view[b], queue[b], snapshot)
        BY <1>1, <3>1 DEF BoardInv
      <4> QED  BY <3>1, <4>1 DEF Reaches, Shows, B!Merge
    <3> QED  BY <3>2, <3>3 DEF BoardInv
  <2> QED  BY <1>1, <2>1, <2>2
<1> QED  BY <1>1, BoardStart, PTL DEF B!Spec

\* The snapshot, what was heard, the queues and the counters keep their types.
THEOREM BoardTypeCorrect ==
    ASSUME BoardSane
    PROVE  Spec => []B!TypeOK
<1>1. BoardInv => B!TypeOK
  BY DEF BoardInv
<1> QED  BY <1>1, BoardInvHolds, ViewsRunAlone, PTL

\* Whatever order deltas, stops, acknowledgements, snapshots, lost connections and
\* restarts come in, a board that is up to date shows the gateway's snapshot, and the
\* acknowledgements shown for a stop are those received of that stop (applyToSnapshot,
\* applyDelta, applyControl, buildSnapshot).
THEOREM BoardsStayTruthful ==
    ASSUME BoardSane
    PROVE  Spec => []BoardsAreTruthful
<1>1. ASSUME BoardInv PROVE BoardsAreTruthful
  <2>1. ASSUME NEW b \in linked, queue[b] = <<>>
        PROVE  Shows(b, view[b], snapshot)
    BY <1>1, <2>1, NothingMore DEF BoardInv
  <2>2. B!BoardsFollowSnapshot
    BY <2>1 DEF B!BoardsFollowSnapshot, Shows
  <2>3. B!AcksBelongToTheStop
    BY <1>1 DEF BoardInv, AcksAreKnown, Acked, B!AcksBelongToTheStop
  <2> QED  BY <2>2, <2>3 DEF BoardsAreTruthful, B!BoardsAreTruthful
<1> QED  BY <1>1, BoardInvHolds, ViewsRunAlone, PTL

=============================================================================
