---------------------------- MODULE HumanReview ----------------------------
(***************************************************************************)
(* waitForHITLDecision and the gateway's forwardHitlDecision: a human      *)
(* decides on a review at the terminal or on a board.  The gateway writes  *)
(* a board's decision to the list of the task, publishes it, and only then *)
(* acknowledges it.  The orchestrator listens on the channel, polls the    *)
(* list and asks at the terminal; the first decision ends the wait.        *)
(*                                                                         *)
(* Pub/Sub keeps nothing: what is published before the subscription is     *)
(* live is lost to the waiting side, and the list makes up for it.         *)
(***************************************************************************)
EXTENDS Naturals, Sequences, FiniteSets

CONSTANTS
    MaxReviews,  \* bound: review tasks, numbered in the order they are dispatched
    MaxSends,    \* bound: decisions sent from boards
    BoardChoice, \* bound: the decisions boards send
    MaxWaits     \* bound: waits for a decision

Review   == 1 .. MaxReviews
Send     == 1 .. MaxSends
Decision == {"PUBLISH", "REVISE", "REJECT"}
Nobody   == 0

VARIABLES
    sends,       \* board decisions: task, decision, how far the gateway is, wait it was stored in
    sent,        \* how many there are
    lists,       \* kaiban-hitl-decisions:<taskId>: sends not consumed, oldest first
    dropped,     \* sends Redis popped for a reply that was lost
    waiting,     \* the task of the wait that is on, or Nobody
    waits,       \* waits begun; the last one is the one that is on
    subscribed,  \* whether its subscription is live
    inbox,       \* sends published to it
    popped,      \* the send BRPOP answered with, or Nobody
    rlOpen,      \* the terminal can still answer
    prompt,      \* the wait whose rl.question is pending, or 0
    decided      \* how each wait ended: [task, decision, by]; by is a send,
                 \* or Nobody for the terminal and the stop signal

gateVars == <<waiting, subscribed, inbox, popped, prompt, decided>>
sideVars == <<sends, sent, lists, dropped>>
reviewVars == <<gateVars, sideVars, waits, rlOpen>>

Undecided == [task |-> Nobody, decision |-> "none", by |-> Nobody]

ReviewTypeOK ==
    /\ sends \in [Send -> [task : Review \cup {Nobody}, decision : Decision \cup {"none"},
                           step : {"none", "push", "publish", "acked", "failed"},
                           wait : 0 .. MaxWaits]]
    /\ sent \in 0 .. MaxSends
    /\ \A t \in Review : lists[t] \in Seq(Send)
    /\ dropped \subseteq Send
    /\ waiting \in Review \cup {Nobody}
    /\ waits \in 0 .. MaxWaits
    /\ subscribed \in BOOLEAN /\ rlOpen \in BOOLEAN
    /\ inbox \in Seq(Send)
    /\ popped \in Send \cup {Nobody}
    /\ prompt \in 0 .. waits
    /\ \A w \in 1 .. MaxWaits : decided[w].decision \in Decision \cup {"none", "aborted"}

ReviewInit ==
    /\ sends = [s \in Send |-> [task |-> Nobody, decision |-> "none",
                                step |-> "none", wait |-> 0]]
    /\ sent = 0
    /\ lists = [t \in Review |-> <<>>]
    /\ dropped = {}
    /\ waiting = Nobody
    /\ waits = 0
    /\ subscribed = FALSE
    /\ inbox = <<>>
    /\ popped = Nobody
    /\ rlOpen \in BOOLEAN     \* standard input may be closed from the start
    /\ prompt = 0
    /\ decided = [w \in 1 .. MaxWaits |-> Undecided]

-----------------------------------------------------------------------------
(* The board and the gateway.                                              *)

\* A board sends a decision for a task it shows.
BoardDecides(t, d) ==
    /\ sent < MaxSends
    /\ sent' = sent + 1
    /\ sends' = [sends EXCEPT ![sent + 1] =
                    [task |-> t, decision |-> d, step |-> "push", wait |-> 0]]
    /\ UNCHANGED <<lists, dropped, gateVars, waits, rlOpen>>

\* Mutant: only the channel, no list.
Push_ChannelOnly(s) ==
    /\ sends[s].step = "push"
    /\ sends' = [sends EXCEPT ![s].step = "publish", ![s].wait = waits]
    /\ UNCHANGED <<lists, dropped, sent, gateVars, waits, rlOpen>>

\* LPUSH and EXPIRE.
Push(s) ==
    /\ sends[s].step = "push"
    /\ sends' = [sends EXCEPT ![s].step = "publish", ![s].wait = waits]
    /\ lists' = [lists EXCEPT ![sends[s].task] = Append(@, s)]
    /\ UNCHANGED <<sent, dropped, gateVars, waits, rlOpen>>

\* PUBLISH, then the board's acknowledgement.
PublishDecision(s) ==
    /\ sends[s].step = "publish"
    /\ sends' = [sends EXCEPT ![s].step = "acked"]
    /\ inbox' = IF subscribed THEN Append(inbox, s) ELSE inbox
    /\ UNCHANGED <<lists, dropped, sent, waiting, subscribed, popped, prompt, decided,
                   waits, rlOpen>>

\* One of the writes failed, perhaps after it was done: the board is told.
ForwardFails(s) ==
    /\ sends[s].step \in {"push", "publish"}
    /\ sends' = [sends EXCEPT ![s].step = "failed"]
    /\ \/ UNCHANGED lists
       \/ /\ sends[s].step = "push"
          /\ lists' = [lists EXCEPT ![sends[s].task] = Append(@, s)]
    /\ UNCHANGED <<sent, dropped, gateVars, waits, rlOpen>>

\* The list expires 300 s after the last push, when nobody polls it.
ListExpires(t) ==
    /\ waiting # t
    /\ lists[t] # <<>>
    /\ lists' = [lists EXCEPT ![t] = <<>>]
    /\ UNCHANGED <<sends, sent, dropped, gateVars, waits, rlOpen>>

-----------------------------------------------------------------------------
(* The wait.                                                               *)

\* A question asked while another one is pending is dropped by readline.
StartWait(t) ==
    /\ waiting = Nobody
    /\ waits < MaxWaits
    /\ waits' = waits + 1
    /\ waiting' = t
    /\ prompt' = IF rlOpen /\ prompt = 0 THEN waits + 1 ELSE prompt
    /\ UNCHANGED <<subscribed, inbox, popped, decided, sideVars, rlOpen>>

\* May also never happen: then only the list answers.
Subscribed ==
    /\ waiting # Nobody /\ ~subscribed
    /\ subscribed' = TRUE
    /\ UNCHANGED <<waiting, inbox, popped, prompt, decided, sideVars, waits, rlOpen>>

\* The subscriber's connection is lost, and with it what was on its way; ioredis
\* connects and subscribes again.
SubscriptionLost ==
    /\ subscribed
    /\ subscribed' = FALSE
    /\ inbox' = <<>>
    /\ UNCHANGED <<waiting, popped, prompt, decided, sideVars, waits, rlOpen>>

\* settle: both connections are closed; what they had in hand is dropped.
Settle ==
    /\ waiting' = Nobody
    /\ subscribed' = FALSE
    /\ inbox' = <<>>
    /\ popped' = Nobody

\* finish and onAbort: settle and release the pending question (releasePrompt).
Finish(d, by) ==
    /\ Settle
    /\ decided' = [decided EXCEPT ![waits] = [task |-> waiting, decision |-> d, by |-> by]]
    /\ prompt' = 0

\* BRPOP in Redis takes the oldest decision from the list of the review.
TakeOldest ==
    /\ waiting # Nobody
    /\ popped = Nobody
    /\ lists[waiting] # <<>>
    /\ lists' = [lists EXCEPT ![waiting] = Tail(@)]
    /\ UNCHANGED <<waiting, subscribed, inbox, prompt, decided, sends, sent, waits, rlOpen>>

\* Its reply arrives; one that comes after the wait has ended is dropped (Settle).
Pop == TakeOldest /\ popped' = Head(lists[waiting]) /\ UNCHANGED dropped

\* The connection is lost before the reply: BRPOP rejects or is sent again, and the
\* loop polls on, without the decision that Redis has taken from the list.
PopLost ==
    TakeOldest /\ dropped' = dropped \cup {Head(lists[waiting])} /\ UNCHANGED popped

HandlePopped ==
    /\ popped # Nobody
    /\ Finish(sends[popped].decision, popped)
    /\ UNCHANGED <<sideVars, waits, rlOpen>>

\* Mutant: a message is taken without comparing its task.
HandleMessage_AnyTask ==
    /\ inbox # <<>>
    /\ Finish(sends[Head(inbox)].decision, Head(inbox))
    /\ UNCHANGED <<sideVars, waits, rlOpen>>

\* handleBoardMessage: every review's decisions come on the one channel.
HandleMessage ==
    /\ inbox # <<>>
    /\ LET s == Head(inbox)
       IN  IF sends[s].task = waiting
           THEN Finish(sends[s].decision, s)
           ELSE /\ inbox' = Tail(inbox)
                /\ UNCHANGED <<waiting, subscribed, popped, prompt, decided>>
    /\ UNCHANGED <<sideVars, waits, rlOpen>>

\* An answer at the terminal; VIEW and anything else asks again.  A question
\* left over from an ended wait takes the answer and does nothing.
Answer(d) ==
    /\ prompt # 0
    /\ IF waiting # Nobody /\ prompt = waits
       THEN Finish(d, Nobody)
       ELSE /\ prompt' = 0
            /\ UNCHANGED <<waiting, subscribed, inbox, popped, decided>>
    /\ UNCHANGED <<sideVars, waits, rlOpen>>

CloseTerminal ==
    /\ rlOpen
    /\ rlOpen' = FALSE
    /\ prompt' = 0
    /\ UNCHANGED <<waiting, subscribed, inbox, popped, decided, sideVars, waits>>

BoardStep ==
    \/ \E s \in Send : Push(s) \/ PublishDecision(s) \/ ForwardFails(s)
    \/ \E t \in Review : ListExpires(t)
    \/ CloseTerminal

=============================================================================
