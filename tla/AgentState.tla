----------------------------- MODULE AgentState -----------------------------
(***************************************************************************)
(* AgentStatePublisher: what one worker tells the board about its agent    *)
(* and its tasks, and the token caps it enforces.                          *)
(*                                                                         *)
(* wrapHandler runs once per attempt.  The actor runs one attempt at a     *)
(* time, but it only aborts the signal of an attempt it gives up (timeout, *)
(* node stop, emergency stop): a deaf handler returns later, beside the    *)
(* attempts that followed it, of the same task (a retry, a replay of the   *)
(* dead-letter queue) or of another one.                                   *)
(*                                                                         *)
(* The publisher's deltas go out in order on one connection, so row and    *)
(* card are the board as it shows this agent once they have arrived.       *)
(***************************************************************************)
EXTENDS Naturals, Sequences, FiniteSets, SequencesExt

CONSTANTS
    Task,            \* task ids
    NoTask,          \* null
    MaxAttempts,     \* bound: attempts of one run
    MaxUse,          \* bound: tokens one attempt can spend
    MaxTokenBudget,  \* the agent's cap
    MaxTaskBudget,   \* the cap of one task
    MaxStops,        \* MAX_REMEMBERED_STOPS
    MaxTracked       \* MAX_TRACKED_TASKS

Attempt == 1 .. MaxAttempts
Signal  == {"live", "timeout", "stop"}
Row     == [status : {"IDLE", "THINKING", "EXECUTING", "ERROR"}, task : Task \cup {NoTask}]
CardStatus == {"none", "DOING", "DONE", "BLOCKED", "STOPPED"}

VARIABLES
    attempts,        \* attempt -> its task, whether its handler still runs, its signal
    attemptSeq,      \* attempts wrapped so far
    current,         \* currentStatus and currentTaskId, as the heartbeat repeats them
    stoppedTaskIds,  \* the remembered stops, oldest first
    totalTokensUsed, \* tally of the agent
    taskTokensUsed,  \* tallies of the tasks last accounted, oldest first
    owed,            \* the stopped task the actor still has to report
    row,             \* the agent's row on the board
    card,            \* the tasks' cards on the board
    spent            \* what the attempts of each task really spent

stateVars == <<attempts, attemptSeq, current, stoppedTaskIds, totalTokensUsed,
               taskTokensUsed, owed, row, card, spent>>

TypeOK ==
    /\ attempts \in [Attempt -> [task : Task \cup {NoTask},
                                 open : BOOLEAN, signal : Signal]]
    /\ attemptSeq \in 0 .. MaxAttempts
    /\ current \in Row
    /\ stoppedTaskIds \in Seq(Task)
    /\ totalTokensUsed \in Nat
    /\ taskTokensUsed \in Seq([task : Task, used : Nat])
    /\ owed \in Task \cup {NoTask}
    /\ row \in Row
    /\ card \in [Task -> CardStatus]
    /\ spent \in [Task -> Nat]

Idle == [status |-> "IDLE", task |-> NoTask]

\* The constructor and publishIdle at the start of the node.
Init ==
    /\ attempts = [a \in Attempt |-> [task |-> NoTask, open |-> FALSE, signal |-> "live"]]
    /\ attemptSeq = 0
    /\ current = Idle
    /\ stoppedTaskIds = <<>>
    /\ totalTokensUsed = 0
    /\ taskTokensUsed = <<>>
    /\ owed = NoTask
    /\ row = Idle
    /\ card = [t \in Task |-> "none"]
    /\ spent = [t \in Task |-> 0]

-----------------------------------------------------------------------------
(* Tallies and remembered stops: maps that keep the entries last written.  *)

\* The entry at the only index of gone is deleted.
Without(s, gone) == IF gone = {} THEN s ELSE RemoveAt(s, CHOOSE i \in gone : TRUE)

\* An entry written last; the oldest is forgotten beyond the bound.
Written(s, entry, max) ==
    LET all == Append(s, entry)
    IN  IF Len(all) > max THEN Tail(all) ELSE all

StoppedAt(t) == {i \in DOMAIN stoppedTaskIds : stoppedTaskIds[i] = t}
IsStopped(t) == StoppedAt(t) # {}

Forget(t) == Without(stoppedTaskIds, StoppedAt(t))

\* markStopped
Remember(t) == Written(stoppedTaskIds, t, MaxStops)

TalliedAt(t) == {i \in DOMAIN taskTokensUsed : taskTokensUsed[i].task = t}

TaskUsed(t) ==
    IF TalliedAt(t) = {} THEN 0 ELSE taskTokensUsed[CHOOSE i \in TalliedAt(t) : TRUE].used

Tallied(t, use) ==
    Written(Without(taskTokensUsed, TalliedAt(t)),
            [task |-> t, used |-> TaskUsed(t) + use], MaxTracked)

\* assertCapsNotMet, and the comparison accountTokens makes after adding.
CapMet(total, used) == total >= MaxTokenBudget \/ used >= MaxTaskBudget

\* Mutant: a late result is thrown away with its tokens.
Account_LateNotCounted(t, use) ==
    LET late == \E a \in Attempt :
                    attempts[a].task = t /\ attempts[a].open /\ attempts[a].signal # "live"
    IN  /\ spent' = [spent EXCEPT ![t] = @ + use]
        /\ IF use = 0 \/ late
           THEN UNCHANGED <<totalTokensUsed, taskTokensUsed>>
           ELSE /\ totalTokensUsed' = totalTokensUsed + use
                /\ taskTokensUsed'  = Tallied(t, use)

\* accountTokens; use = 0 stands for a result or an error that reports none.
Account(t, use) ==
    /\ spent' = [spent EXCEPT ![t] = @ + use]
    /\ IF use = 0
       THEN UNCHANGED <<totalTokensUsed, taskTokensUsed>>
       ELSE /\ totalTokensUsed' = totalTokensUsed + use
            /\ taskTokensUsed'  = Tallied(t, use)

Breaches(t, use) == use > 0 /\ CapMet(totalTokensUsed + use, TaskUsed(t) + use)

-----------------------------------------------------------------------------
(* What is published.                                                      *)

\* An ERROR is shown once; the heartbeat then says IDLE again.
ShowFailed(t) ==
    /\ row'     = [status |-> "ERROR", task |-> t]
    /\ card'    = [card EXCEPT ![t] = "BLOCKED"]
    /\ current' = Idle

\* publishStopped
PublishStopped(t) ==
    IF IsStopped(t)
    THEN UNCHANGED <<stoppedTaskIds, current, row, card>>
    ELSE /\ stoppedTaskIds' = Remember(t)
         /\ card' = [card EXCEPT ![t] = "STOPPED"]
         /\ IF current.task = t
            THEN current' = Idle /\ row' = Idle
            ELSE UNCHANGED <<current, row>>

\* Mutant: attempts are not numbered: a late failure reports like a running one.
PublishSupersededFailure_Unnumbered(t) == ShowFailed(t)

\* publishSupersededFailure
PublishSupersededFailure(t) ==
    /\ card' = IF current.task = t THEN card ELSE [card EXCEPT ![t] = "BLOCKED"]
    /\ UNCHANGED <<current, row>>

-----------------------------------------------------------------------------
(* Attempts.                                                               *)

Running(a)    == attempts[a].open /\ attempts[a].signal = "live"
Superseded(a) == a # attemptSeq

\* The actor starts an attempt: one at a time, the last one's stop reported.
MayStart == attemptSeq < MaxAttempts /\ owed = NoTask /\ \A a \in Attempt : ~Running(a)

Opened(t, open) ==
    attempts' = [attempts EXCEPT ![attemptSeq + 1] =
                    [task |-> t, open |-> open, signal |-> "live"]]

\* A cap already met refuses the attempt: no handler runs, ERROR and BLOCKED.
Refuse(t) ==
    /\ MayStart
    /\ CapMet(totalTokensUsed, TaskUsed(t))
    /\ attemptSeq' = attemptSeq + 1
    /\ Opened(t, FALSE)
    /\ ShowFailed(t)
    /\ UNCHANGED <<stoppedTaskIds, totalTokensUsed, taskTokensUsed, owed, spent>>

Begin(t) ==
    /\ MayStart
    /\ ~CapMet(totalTokensUsed, TaskUsed(t))
    /\ attemptSeq' = attemptSeq + 1
    /\ Opened(t, TRUE)
    /\ stoppedTaskIds' = Forget(t)
    /\ current' = [status |-> "EXECUTING", task |-> t]
    /\ row'     = [status |-> "THINKING", task |-> t]
    /\ card'    = [card EXCEPT ![t] = "DOING"]
    /\ UNCHANGED <<totalTokensUsed, taskTokensUsed, owed, spent>>

\* The actor gives the attempt up: its timeout fired, or the node stops.
TimeOut(a) ==
    /\ Running(a)
    /\ attempts' = [attempts EXCEPT ![a].signal = "timeout"]
    /\ UNCHANGED <<attemptSeq, current, stoppedTaskIds, totalTokensUsed,
                   taskTokensUsed, owed, row, card, spent>>

\* An emergency stop aborts the attempt; the actor reports the task afterwards.
EmergencyStop(a) ==
    /\ Running(a)
    /\ attempts' = [attempts EXCEPT ![a].signal = "stop"]
    /\ owed' = attempts[a].task
    /\ UNCHANGED <<attemptSeq, current, stoppedTaskIds, totalTokensUsed,
                   taskTokensUsed, row, card, spent>>

\* onEmergencyStop of the actor, for a stopped attempt ...
ReportStop ==
    /\ owed # NoTask
    /\ owed' = NoTask
    /\ PublishStopped(owed)
    /\ UNCHANGED <<attempts, attemptSeq, totalTokensUsed, taskTokensUsed, spent>>

\* ... and for a task sent before the stop and refused when it is delivered.
RefuseStopped(t) ==
    /\ MayStart
    /\ PublishStopped(t)
    /\ UNCHANGED <<attempts, attemptSeq, totalTokensUsed, taskTokensUsed, owed, spent>>

Close(a, use) ==
    /\ attempts[a].open
    /\ attempts' = [attempts EXCEPT ![a].open = FALSE]
    /\ Account(attempts[a].task, use)
    /\ UNCHANGED <<attemptSeq, owed>>

\* The handler returns in time: DONE, unless its tokens reach a cap.
Resolve(a, use) ==
    /\ attempts[a].signal = "live"
    /\ Close(a, use)
    /\ IF Breaches(attempts[a].task, use)
       THEN ShowFailed(attempts[a].task)
       ELSE /\ current' = Idle
            /\ row'     = Idle
            /\ card'    = [card EXCEPT ![attempts[a].task] = "DONE"]
    /\ UNCHANGED stoppedTaskIds

\* Mutant: the attempt that ends is reported without asking why it was aborted.
EndStopped_AsFailure(a, use) ==
    /\ attempts[a].signal = "stop"
    /\ Close(a, use)
    /\ IF Superseded(a)
       THEN PublishSupersededFailure(attempts[a].task)
       ELSE ShowFailed(attempts[a].task)
    /\ UNCHANGED stoppedTaskIds

\* endedByEmergencyStop: returned or thrown after the stop, shown as STOPPED.
EndStopped(a, use) ==
    /\ attempts[a].signal = "stop"
    /\ Close(a, use)
    /\ PublishStopped(attempts[a].task)

\* Thrown in time, or settled after its timeout, with the usage it reports.
EndFailed(a, use) ==
    /\ attempts[a].signal # "stop"
    /\ Close(a, use)
    /\ IF Superseded(a)
       THEN PublishSupersededFailure(attempts[a].task)
       ELSE ShowFailed(attempts[a].task)
    /\ UNCHANGED stoppedTaskIds

Heartbeat ==
    /\ row' = current
    /\ UNCHANGED <<attempts, attemptSeq, current, stoppedTaskIds, totalTokensUsed,
                   taskTokensUsed, owed, card, spent>>

Next ==
    \/ \E t \in Task : Begin(t) \/ Refuse(t) \/ RefuseStopped(t)
    \/ \E a \in Attempt : TimeOut(a) \/ EmergencyStop(a)
    \/ \E a \in Attempt, use \in 0 .. MaxUse :
          Resolve(a, use) \/ EndStopped(a, use) \/ EndFailed(a, use)
    \/ ReportStop
    \/ Heartbeat

Spec == Init /\ [][Next]_stateVars

-----------------------------------------------------------------------------
(* Properties.                                                             *)

Ended(a) == attempts[a].open /\ ~attempts'[a].open

OfTask(t)  == {a \in Attempt : attempts[a].task = t}
Retried(a) == \E b \in OfTask(attempts[a].task) : b > a

\* Every token an attempt spent is in the tallies the caps are compared with,
\* once: also those of late results, of failed attempts and of the attempt
\* that reached a cap (accountTokens, countLateTokens, accountFailedAttempt).
EverySpentTokenCounts ==
    /\ totalTokensUsed = Cardinality(UNION {{t} \X (1 .. spent[t]) : t \in Task})
    /\ Cardinality(Task) <= MaxTracked => \A t \in Task : TaskUsed(t) = spent[t]

\* The end of an attempt that another one replaced leaves the agent's row to
\* the newer attempt (attemptSeq), except when a stopped attempt ends while a
\* new send of its own task runs, which RetryOwnsTheCard is about.
LateEndKeepsTheAgent ==
    [][\A a \in Attempt :
          /\ Ended(a) /\ Superseded(a)
          /\ attempts[a].signal = "stop" => attempts[a].task # current.task
          => UNCHANGED <<current, row>>]_stateVars

\* A task whose last attempt was ended by an emergency stop is shown as
\* STOPPED, never as ERROR or DONE, whatever its handler still does, and also
\* when the report has been forgotten and is made again (ES-12, markStopped).
\* Tasks an attempt of which timed out are left to RetryOwnsTheCard.
StoppedIsShown ==
    \A a \in Attempt :
        /\ attempts[a].signal = "stop"
        /\ owed # attempts[a].task
        /\ \A b \in OfTask(attempts[a].task) : b <= a /\ attempts[b].signal # "timeout"
        => card[attempts[a].task] = "STOPPED"

\* "A superseded attempt of the same task publishes nothing: the retry owns
\* it" (publishSupersededFailure).  The code only compares with the task that
\* runs now, and not at all after a stop: a deaf handler that returns after
\* its retry is done turns the DONE card into BLOCKED or STOPPED.
RetryOwnsTheCard ==
    [][\A a \in Attempt : Ended(a) /\ Retried(a) => UNCHANGED <<row, card>>]_stateVars

=============================================================================
