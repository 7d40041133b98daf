------------------------------ MODULE BoardView ------------------------------
(***************************************************************************)
(* SocketGateway and the boards: the gateway merges every state delta into *)
(* its snapshot and sends the delta on to the boards connected to it; a    *)
(* board that connects clears its state and gets the snapshot first.  The  *)
(* React board and the viewers of the examples merge by the same rules, in *)
(* code of their own.                                                      *)
(*                                                                         *)
(* A view has the workflow status, the cards, the run's metadata and topic *)
(* and the control plane: the latest emergency stop and how many nodes     *)
(* acknowledged it.  Agents merge as cards do and are never cleared; they  *)
(* are left out.  Socket.io delivers in order while connected.             *)
(***************************************************************************)
EXTENDS Naturals, Sequences, FiniteSets

CONSTANTS
    Board,       \* the boards that may connect
    Card,        \* task ids
    Node,        \* nodes that acknowledge stops
    None,        \* absent
    MaxStop,     \* bound: emergency stops, named by their moments
    MaxInput,    \* bound: deltas, stops and snapshot requests the gateway handles
    MaxConnects  \* bound: connections of a board

Stop     == 1 .. MaxStop
Terminal == {"FINISHED", "STOPPED", "ERRORED"}

VARIABLES
    snapshot,    \* the gateway's snapshot
    linked,      \* boards connected to the gateway
    queue,       \* what is on its way to each board
    view,        \* what each board shows
    viewers,     \* the boards that are viewers of the examples, not React boards
    heard,       \* the nodes of the acknowledgements received for each stop
    inputs,      \* counters of the bounds
    connects

viewVars == <<snapshot, linked, queue, view, viewers, heard, inputs, connects>>

NoCards == [c \in Card |-> None]
NoPlane == [stop |-> 0, acks |-> 0]
Unheard == [s \in Stop |-> <<>>]

\* The gateway's snapshot at its start, the control plane enabled, and the
\* state of a board that has just connected (resetState).
EmptySnapshot == [wf |-> None, cards |-> NoCards, meta |-> {}, topic |-> None,
                  plane |-> NoPlane]
Fresh == [EmptySnapshot EXCEPT !.plane = None]

\* A delta: every part but those named is absent.
Blank == [wf |-> None, cards |-> NoCards, meta |-> {}, topic |-> None,
          plane |-> None, ack |-> None]

Acks == {[stop |-> s, node |-> n] : s \in Stop, n \in Node \cup {"issued"}}

\* What workers, orchestrators, nodes and gateways publish; of the metadata
\* which fields it sets.
Deltas ==
    {[Blank EXCEPT !.wf = "RUNNING", !.topic = "new", !.meta = {"start"}],
     [Blank EXCEPT !.wf = "FINISHED", !.meta = {"end"}]}
    \cup {[Blank EXCEPT !.cards[c] = s] : c \in Card, s \in {"DOING", "DONE"}}
    \cup {[Blank EXCEPT !.ack = a] : a \in Acks}

TypeOK ==
    /\ snapshot.plane.stop \in 0 .. MaxStop
    /\ snapshot.plane.acks \in Nat
    /\ linked \subseteq Board
    /\ \A b \in Board \ linked : queue[b] = <<>>
    /\ heard \in [Stop -> Seq(Node)]
    /\ inputs \in 0 .. MaxInput
    /\ connects \in [Board -> 0 .. MaxConnects]

-----------------------------------------------------------------------------
(* Merging, in the gateway and in the boards.                              *)

Or(new, old) == IF new = None THEN old ELSE new

Restarts(old, new) == new = "RUNNING" /\ old \in Terminal

MergeCards(cards, new) == [c \in Card |-> Or(new[c], cards[c])]

\* Mutant: the ack of any stop is counted.
CountAck_AnyStop(plane, ack) ==
    LET known == IF ack.stop > plane.stop THEN [stop |-> ack.stop, acks |-> 0] ELSE plane
    IN  IF ack.node = "issued" THEN known ELSE [known EXCEPT !.acks = @ + 1]

\* applyControl: a newer stop replaces the last one; node acks for it count.
CountAck(plane, ack) ==
    LET known == IF ack.stop > plane.stop THEN [stop |-> ack.stop, acks |-> 0] ELSE plane
    IN  IF ack.node # "issued" /\ ack.stop = known.stop
        THEN [known EXCEPT !.acks = @ + 1]
        ELSE known

Merged(old, kept, d, topic, plane) ==
    [wf    |-> Or(d.wf, old.wf),
     cards |-> MergeCards(kept.cards, d.cards),
     meta  |-> kept.meta \cup d.meta,
     topic |-> Or(d.topic, topic),
     plane |-> plane]

\* applyToSnapshot: a run that starts after a finished one clears its cards,
\* metadata and inputs.
ApplyToSnapshot(s, d) ==
    LET kept == IF Restarts(s.wf, d.wf)
                THEN [s EXCEPT !.cards = NoCards, !.meta = {}, !.topic = None] ELSE s
    IN  Merged(s, kept, d, kept.topic, IF d.ack = None THEN s.plane ELSE CountAck(s.plane, d.ack))

\* applyControlAck of the boards, after the plane a snapshot brings.
BoardPlane(v, d) ==
    LET plane == Or(d.plane, v.plane)
    IN  IF plane = None \/ d.ack = None THEN plane ELSE CountAck(plane, d.ack)

\* applyDelta of the React board.
ApplyDelta(v, d) ==
    LET kept == IF Restarts(v.wf, d.wf)
                THEN [v EXCEPT !.cards = NoCards, !.meta = {}, !.topic = None] ELSE v
    IN  Merged(v, kept, d, kept.topic, BoardPlane(v, d))

\* applyDelta of a viewer: its topic label stays until another one comes.
ViewerApplyDelta(v, d) ==
    LET kept == IF Restarts(v.wf, d.wf)
                THEN [v EXCEPT !.cards = NoCards, !.meta = {}] ELSE v
    IN  Merged(v, kept, d, v.topic, BoardPlane(v, d))

Merge(b, v, d) == IF b \in viewers THEN ViewerApplyDelta(v, d) ELSE ApplyDelta(v, d)

\* buildSnapshot, as the delta it is sent as.
SnapshotDelta == [Blank EXCEPT !.wf = snapshot.wf, !.cards = snapshot.cards,
                     !.meta = snapshot.meta, !.topic = snapshot.topic,
                     !.plane = snapshot.plane]

-----------------------------------------------------------------------------
Init ==
    /\ snapshot = EmptySnapshot
    /\ viewers \in SUBSET Board
    /\ linked = {}
    /\ queue = [b \in Board |-> <<>>]
    /\ view = [b \in Board |-> Fresh]
    /\ heard = Unheard
    /\ inputs = 0
    /\ connects = [b \in Board |-> 0]

Handles == inputs < MaxInput /\ inputs' = inputs + 1

EmitLocal(d) ==
    queue' = [b \in Board |-> IF b \in linked THEN Append(queue[b], d) ELSE queue[b]]

\* A message on the state channel: merged, then sent on to the own boards.  A node
\* may acknowledge one stop more than once: the saved one when it ended tasks, the
\* live message of the same command, and each of them for every agent it runs.
ReceiveDelta(d) ==
    /\ Handles
    /\ snapshot' = ApplyToSnapshot(snapshot, d)
    /\ EmitLocal(d)
    /\ heard' = IF d.ack = None \/ d.ack.node = "issued" THEN heard
                ELSE [heard EXCEPT ![d.ack.stop] = Append(@, d.ack.node)]
    /\ UNCHANGED <<viewers, linked, view, connects>>

\* A stop seen on the control channel, live or the saved one.
NoteStop(s) ==
    /\ Handles
    /\ s > snapshot.plane.stop
    /\ snapshot' = [snapshot EXCEPT !.plane = [stop |-> s, acks |-> 0]]
    /\ EmitLocal([Blank EXCEPT !.plane = [stop |-> s, acks |-> 0]])
    /\ UNCHANGED <<viewers, linked, view, heard, connects>>

\* Mutant: the board keeps what it showed before it lost its connection.
Connect_KeepsState(b) ==
    /\ b \notin linked
    /\ connects[b] < MaxConnects
    /\ connects' = [connects EXCEPT ![b] = @ + 1]
    /\ linked' = linked \cup {b}
    /\ queue' = [queue EXCEPT ![b] = <<SnapshotDelta>>]
    /\ UNCHANGED <<viewers, snapshot, view, heard, inputs>>

\* A board connects: it clears its state (a viewer not its topic label), and
\* the gateway sends the snapshot before anything else.
Connect(b) ==
    /\ b \notin linked
    /\ connects[b] < MaxConnects
    /\ connects' = [connects EXCEPT ![b] = @ + 1]
    /\ linked' = linked \cup {b}
    /\ view' = [view EXCEPT ![b] =
                  IF b \in viewers THEN [Fresh EXCEPT !.topic = view[b].topic] ELSE Fresh]
    /\ queue' = [queue EXCEPT ![b] = <<SnapshotDelta>>]
    /\ UNCHANGED <<viewers, snapshot, heard, inputs>>

\* A client may ask for the snapshot again; it is merged like a delta.
RequestSnapshot(b) ==
    /\ b \in linked
    /\ Handles
    /\ queue' = [queue EXCEPT ![b] = Append(@, SnapshotDelta)]
    /\ UNCHANGED <<viewers, snapshot, linked, view, heard, connects>>

Deliver(b) ==
    /\ queue[b] # <<>>
    /\ view' = [view EXCEPT ![b] = Merge(b, @, Head(queue[b]))]
    /\ queue' = [queue EXCEPT ![b] = Tail(@)]
    /\ UNCHANGED <<viewers, snapshot, linked, heard, inputs, connects>>

\* The connection is lost, or the gateway ends it (expired token).
Disconnect(b) ==
    /\ b \in linked
    /\ linked' = linked \ {b}
    /\ queue' = [queue EXCEPT ![b] = <<>>]
    /\ UNCHANGED <<viewers, snapshot, view, heard, inputs, connects>>

\* The gateway restarts with an empty snapshot; every connection is lost.
Restart ==
    /\ Handles
    /\ snapshot' = EmptySnapshot
    /\ heard' = Unheard
    /\ linked' = {}
    /\ queue' = [b \in Board |-> <<>>]
    /\ UNCHANGED <<viewers, view, connects>>

Next ==
    \/ \E d \in Deltas : ReceiveDelta(d)
    \/ \E s \in Stop : NoteStop(s)
    \/ \E b \in Board : Connect(b) \/ RequestSnapshot(b) \/ Deliver(b) \/ Disconnect(b)
    \/ Restart

Spec == Init /\ [][Next]_viewVars

-----------------------------------------------------------------------------
(* Properties.                                                             *)

\* A connected board with nothing left on its way shows the gateway's snapshot: it
\* misses nothing that happened before it connected, keeps nothing from before it
\* lost its connection, and two boards that are up to date show the same.  (A
\* viewer's topic label may be an older one.)
BoardsFollowSnapshot ==
    \A b \in linked :
        queue[b] = <<>> =>
            /\ view[b].wf = snapshot.wf
            /\ view[b].cards = snapshot.cards
            /\ view[b].meta = snapshot.meta
            /\ view[b].plane = snapshot.plane
            /\ b \notin viewers => view[b].topic = snapshot.topic

\* The acknowledgements shown for the last stop are those received of that very
\* stop, none lost and none of another one, whatever order stops, acks and the
\* replayed stop arrive in (applyControl, noteStop).
AcksBelongToTheStop ==
    snapshot.plane.acks =
        IF snapshot.plane.stop = 0 THEN 0 ELSE Len(heard[snapshot.plane.stop])

\* What a board shows is what the gateway was told, the stops included.
BoardsAreTruthful == BoardsFollowSnapshot /\ AcksBelongToTheStop

\* EmergencyStopBanner.tsx:9: the number shown with a stop is how many nodes have
\* acknowledged it.
AcksCountNodes ==
    snapshot.plane.stop # 0 =>
        snapshot.plane.acks = Cardinality({n \in Node :
            \E i \in 1 .. Len(heard[snapshot.plane.stop]) :
                heard[snapshot.plane.stop][i] = n})

=============================================================================
