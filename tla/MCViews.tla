------------------------------- MODULE MCViews -------------------------------
(* What is shown to people and decided by them, and the run it is about:       *)
(* AgentState, BoardView, ReviewRun, ResearchPipeline and StateStream, checked *)
(* side by side.  They share no state; focus says which one takes the steps of *)
(* a behaviour, the others stay in their initial states.                       *)
EXTENDS Naturals, Sequences

CONSTANTS Task, NoTask, MaxAttempts, MaxUse, MaxTokenBudget, MaxTaskBudget, MaxStops,
          MaxTracked, Board, Card, Node, None, MaxStop, MaxInput, MaxConnects,
          MaxReviews, MaxSends, BoardChoice, MaxWaits, Steps, MaxProcesses,
          Searchers, MaxCost, SpendCap, MaxRuns,
          Member, Job, MaxMutations, MaxAway

VARIABLES
    attempts, attemptSeq, current, stoppedTaskIds, totalTokensUsed, taskTokensUsed,
    owed, row, card, spent
agent == <<attempts, attemptSeq, current, stoppedTaskIds, totalTokensUsed, taskTokensUsed,
           owed, row, card, spent>>

VARIABLES snapshot, linked, queue, view, viewers, heard, inputs, connects
board == <<snapshot, linked, queue, view, viewers, heard, inputs, connects>>

VARIABLES
    sends, sent, lists, dropped, waiting, waits, subscribed, inbox, popped, rlOpen, prompt,
    decided, example, phase, steps, tasks, editTask, draftTask, pending, wf,
    reviewCard, processes, resumed
review == <<sends, sent, lists, dropped, waiting, waits, subscribed, inbox, popped, rlOpen, prompt,
            decided, example, phase, steps, tasks, editTask, draftTask, pending, wf,
            reviewCard, processes, resumed>>

VARIABLES
    ctx, memo, at, progress, awaited, answers, halted, laggard, endedBy, pendingReview,
    shown, runs, autoPublish, paidFor
pipeline == <<ctx, memo, at, progress, awaited, answers, halted, laggard, endedBy,
              pendingReview, shown, runs, autoPublish, paidFor>>

VARIABLES store, attached, channel, joined, known, fresh, mutations, away
stream == <<store, attached, channel, joined, known, fresh, mutations, away>>

VARIABLE focus

A == INSTANCE AgentState
B == INSTANCE BoardView
R == INSTANCE ReviewRun
P == INSTANCE ResearchPipeline
S == INSTANCE StateStream

vars == <<focus, agent, board, review, pipeline, stream>>

Init ==
    /\ focus \in {"agent", "board", "review", "pipeline", "stream"}
    /\ A!Init /\ B!Init /\ R!Init /\ P!Init /\ S!Init
    /\ focus # "board" => viewers = {}
    /\ focus # "review" => example = "blog"
    /\ focus # "pipeline" => ~autoPublish

Next ==
    \/ focus = "agent" /\ A!Next /\ UNCHANGED <<focus, board, review, pipeline, stream>>
    \/ focus = "board" /\ B!Next /\ UNCHANGED <<focus, agent, review, pipeline, stream>>
    \/ focus = "review" /\ R!Next /\ UNCHANGED <<focus, agent, board, pipeline, stream>>
    \/ focus = "pipeline" /\ P!Next /\ UNCHANGED <<focus, agent, board, review, stream>>
    \/ focus = "stream" /\ S!Next /\ UNCHANGED <<focus, agent, board, review, pipeline>>

Spec ==
    /\ Init
    /\ [][Next]_vars
    /\ WF_vars(focus = "review" /\ R!Listens
               /\ UNCHANGED <<focus, agent, board, pipeline, stream>>)

-----------------------------------------------------------------------------
EverySpentTokenCounts == A!EverySpentTokenCounts
StoppedIsShown == A!StoppedIsShown
LateEndKeepsTheAgent == A!LateEndKeepsTheAgent
BoardsAreTruthful == B!BoardsAreTruthful
OnlyApprovedIsPublished == R!OnlyApprovedIsPublished
NoPendingReviewUnlessResumed == R!NoPendingReviewUnlessResumed
AckedDecisionEndsTheWait == R!AckedDecisionEndsTheWait
RunKeepsItsBooks == P!RunKeepsItsBooks
StopEndsTheRun == P!StopEndsTheRun
StreamHeals == S!StreamHeals
=============================================================================
