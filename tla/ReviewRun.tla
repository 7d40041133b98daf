----------------------------- MODULE ReviewRun -----------------------------
(***************************************************************************)
(* The orchestrators of the examples: the agents' phases, each memoized,   *)
(* a human review of the editor's verdict, at most one revision with a     *)
(* second review, and one way out for every error (endFailedRun).  The     *)
(* process may crash and start again; a memoized editorial phase is then   *)
(* not run again and its task is reviewed again.                           *)
(*                                                                         *)
(* Deltas of the orchestrator reach the board in order, so wf and          *)
(* reviewCard are the board's; the cards of the agents' own tasks are in   *)
(* AgentState.  A new review is a new task id.                             *)
(***************************************************************************)
EXTENDS HumanReview

CONSTANTS
    Steps,         \* phases before the review, the editorial one last
    MaxProcesses   \* bound: starts of the orchestrator

VARIABLES
    example,     \* "blog" (blog-team) or "research" (global-research)
    phase,       \* where the process is
    steps,       \* phases memoized
    tasks,       \* review tasks dispatched
    editTask,    \* taskId of the memoized editorial phase, or Nobody
    draftTask,   \* the review task of the latest draft
    pending,     \* pendingReviewTaskId
    wf,          \* teamWorkflowStatus on the board
    reviewCard,  \* the review tasks' cards on the board
    processes,   \* starts of the orchestrator
    resumed      \* this run was cut by a crash and resumed

runVars == <<example, phase, steps, tasks, editTask, draftTask, pending, wf,
             reviewCard, processes, resumed>>
reviewRunVars == <<reviewVars, runVars>>

\* clearing and wiping: awaiting orch.clear(), in main and in endFailedRun.
Phase == {"off", "working", "review", "decision", "revising", "clearing", "wiping", "ended"}

TypeOK ==
    /\ ReviewTypeOK
    /\ example \in {"blog", "research"}
    /\ phase \in Phase
    /\ steps \in 0 .. Steps
    /\ tasks \in 0 .. MaxReviews
    /\ {editTask, draftTask, pending} \subseteq 0 .. tasks
    /\ wf \in {"none", "RUNNING", "FINISHED", "STOPPED"}
    /\ reviewCard \in [Review -> {"none", "AWAITING", "DOING", "DONE", "BLOCKED", "STOPPED"}]
    /\ processes \in 0 .. MaxProcesses
    /\ phase \in {"off", "clearing", "wiping", "ended"} => waiting = Nobody

Init ==
    /\ ReviewInit
    /\ example \in {"blog", "research"}
    /\ phase = "off"
    /\ steps = 0
    /\ tasks = 0
    /\ editTask = Nobody /\ draftTask = Nobody /\ pending = Nobody
    /\ wf = "none"
    /\ reviewCard = [t \in Review |-> "none"]
    /\ processes = 0
    /\ resumed = FALSE

Shows(updates) == [t \in Review |-> IF t \in DOMAIN updates THEN updates[t] ELSE reviewCard[t]]
One(t, status) == [x \in {t} |-> status]

-----------------------------------------------------------------------------
(* The phases.                                                             *)

\* workflowStarted; the gateway clears the board after a run that ended.
StartRun ==
    /\ phase = "off"
    /\ processes < MaxProcesses
    /\ processes' = processes + 1
    /\ phase' = "working"
    /\ wf' = "RUNNING"
    /\ reviewCard' = IF wf \in {"FINISHED", "STOPPED"}
                     THEN [t \in Review |-> "none"] ELSE reviewCard
    /\ resumed' = (steps > 0)
    /\ UNCHANGED <<example, steps, tasks, editTask, draftTask, pending, reviewVars>>

\* A phase before the last returned in time and within the budget.
PhaseDone ==
    /\ phase = "working"
    /\ steps < Steps - 1
    /\ steps' = steps + 1
    /\ UNCHANGED <<example, phase, tasks, editTask, draftTask, pending, wf, reviewCard,
                   processes, resumed, reviewVars>>

\* awaitingHITL
Awaiting(t) == pending' = t /\ reviewCard' = Shows(One(t, "AWAITING"))

\* The editorial phase; the research example asks for the decision inside it.
EditorialDone ==
    /\ phase = "working"
    /\ steps = Steps - 1
    /\ tasks < MaxReviews
    /\ tasks' = tasks + 1
    /\ steps' = Steps
    /\ editTask' = tasks + 1
    /\ IF example = "research"
       THEN Awaiting(tasks + 1)
       ELSE UNCHANGED <<pending, reviewCard>>
    /\ UNCHANGED <<example, phase, draftTask, wf, processes, resumed, reviewVars>>

\* All phases memoized: the human review, which the blog example announces here.
BeginReview ==
    /\ phase = "working"
    /\ steps = Steps
    /\ phase' = "review"
    /\ draftTask' = editTask
    /\ StartWait(editTask)
    /\ IF example = "blog" THEN Awaiting(editTask) ELSE UNCHANGED <<pending, reviewCard>>
    /\ UNCHANGED <<example, steps, tasks, editTask, wf, processes, resumed>>

\* workflowFinished; the checkpoint is cleared next.
Finished(cards) ==
    /\ phase' = "clearing"
    /\ wf' = "FINISHED"
    /\ reviewCard' = Shows(cards)
    /\ UNCHANGED <<steps, editTask>>

\* workflowStopped, the review rejected or the revised draft not published.
NotPublished(cards) ==
    /\ phase' = "clearing"
    /\ wf' = "STOPPED"
    /\ reviewCard' = Shows(cards)
    /\ UNCHANGED <<steps, editTask>>

\* The edit task's card beside that of the reviewed draft (blog only).
WithEdit(t, status) ==
    IF example = "blog" THEN [x \in {t, editTask} |-> status] ELSE One(t, status)

Outcome == decided[waits].decision

\* handleBlogDecision, handleDecision and the end of the revision.
DecisionTaken ==
    /\ phase \in {"review", "decision"}
    /\ waiting = Nobody
    /\ \/ /\ Outcome = "PUBLISH"
          /\ Finished(WithEdit(draftTask, "DONE"))
       \/ /\ Outcome = "REVISE" /\ phase = "review"
          /\ phase' = "revising"
          /\ reviewCard' = Shows(One(editTask, IF example = "blog" THEN "DOING" ELSE "DONE"))
          /\ UNCHANGED <<wf, steps, editTask>>
       \/ /\ Outcome = "REJECT" \/ (Outcome = "REVISE" /\ phase = "decision")
          /\ NotPublished(WithEdit(draftTask, "BLOCKED"))
    /\ UNCHANGED <<example, tasks, draftTask, pending, processes, resumed, reviewVars>>

\* The revised draft is back: it is a task of its own and is reviewed again.
RevisionDone ==
    /\ phase = "revising"
    /\ tasks < MaxReviews
    /\ tasks' = tasks + 1
    /\ draftTask' = tasks + 1
    /\ phase' = "decision"
    /\ Awaiting(tasks + 1)
    /\ StartWait(tasks + 1)
    /\ UNCHANGED <<example, steps, editTask, wf, processes, resumed>>

-----------------------------------------------------------------------------
(* The ways out.                                                           *)

\* reviewStopped
ReviewStopped ==
    /\ reviewCard' = IF pending = Nobody THEN reviewCard ELSE Shows(One(pending, "STOPPED"))
    /\ pending' = Nobody

\* Mutant: only an emergency stop ends the review that is pending.
EndFailedRun_KeepsReview(why) ==
    /\ phase' = IF why = "failed" THEN "ended" ELSE "wiping"
    /\ wf' = "STOPPED"
    /\ IF why = "stop" THEN ReviewStopped ELSE UNCHANGED <<reviewCard, pending>>

\* endFailedRun: an emergency stop or the budget guard, after which the checkpoint
\* is cleared, or any other error, after which it stays.
EndFailedRun(why) ==
    /\ phase' = IF why = "failed" THEN "ended" ELSE "wiping"
    /\ wf' = "STOPPED"
    /\ ReviewStopped

\* orch.clear(): the next start is a new run.
Cleared == steps' = 0 /\ editTask' = Nobody

Clear ==
    /\ phase \in {"clearing", "wiping"}
    /\ phase' = "ended"
    /\ Cleared
    /\ UNCHANGED <<example, tasks, draftTask, pending, wf, reviewCard, processes, resumed,
                   reviewVars>>

\* store.clear rejects, with the record deleted or not.  In main that is an error of
\* the run like any other, though its end has been published; in endFailedRun it is
\* the process's last.
ClearFails ==
    /\ phase \in {"clearing", "wiping"}
    /\ Cleared \/ UNCHANGED <<steps, editTask>>
    /\ IF phase = "clearing"
       THEN EndFailedRun("failed")
       ELSE phase' = "ended" /\ UNCHANGED <<pending, wf, reviewCard>>
    /\ UNCHANGED <<example, tasks, draftTask, processes, resumed, reviewVars>>

\* A phase's wait failed, or the budget guard after a phase or before a revision.
PhaseFails(why) ==
    /\ phase \in {"working", "revising"}
    /\ EndFailedRun(why)
    /\ UNCHANGED <<example, steps, tasks, editTask, draftTask, processes, resumed, reviewVars>>

\* The governance review rejected the report: stopped, with no review pending.
GovernanceRejects ==
    /\ example = "research" /\ phase = "working" /\ steps = Steps - 1
    /\ NotPublished([x \in {} |-> "none"])
    /\ UNCHANGED <<example, tasks, draftTask, pending, processes, resumed, reviewVars>>

\* The stop signal ends whatever the run is waiting for.
StopAll ==
    /\ phase \in {"working", "revising"} \/ waiting # Nobody
    /\ EndFailedRun("stop")
    /\ IF waiting # Nobody THEN Finish("aborted", Nobody)
       ELSE UNCHANGED gateVars
    /\ UNCHANGED <<example, steps, tasks, editTask, draftTask, processes, resumed, sideVars,
                   waits, rlOpen>>

\* The process leaves: what was published stays on the board.
Exit ==
    /\ phase = "ended"
    /\ phase' = "off"
    /\ pending' = Nobody
    /\ UNCHANGED <<example, steps, tasks, editTask, draftTask, wf, reviewCard, processes,
                   resumed, reviewVars>>

\* Nothing of the process survives but the checkpoint.
Crash ==
    /\ phase \notin {"off", "ended"}
    /\ phase' = "off"
    /\ pending' = Nobody
    /\ Settle
    /\ prompt' = 0
    /\ UNCHANGED <<example, steps, tasks, editTask, draftTask, wf, reviewCard, processes,
                   resumed, decided, sideVars, waits, rlOpen>>

Run == StartRun \/ PhaseDone \/ EditorialDone \/ BeginReview \/ DecisionTaken
       \/ RevisionDone \/ GovernanceRejects \/ Clear \/ ClearFails \/ Exit

\* A board shows the buttons of a review that awaits its decision; its user
\* may take a while.
Gate ==
    \/ BoardStep
    \/ \E t \in Review, d \in BoardChoice : reviewCard[t] = "AWAITING" /\ BoardDecides(t, d)
    \/ Subscribed \/ SubscriptionLost \/ Pop \/ PopLost \/ HandlePopped \/ HandleMessage
    \/ \E d \in Decision : Answer(d)

Next ==
    \/ Run
    \/ \E why \in {"budget", "failed"} : PhaseFails(why)
    \/ StopAll
    \/ Crash
    \/ Gate /\ UNCHANGED runVars

\* The poll goes on, and what has arrived is handled.
Listens == (Pop \/ HandlePopped \/ HandleMessage) /\ UNCHANGED runVars

Spec == Init /\ [][Next]_reviewRunVars /\ WF_reviewRunVars(Listens)

-----------------------------------------------------------------------------
(* Properties.                                                             *)

\* A draft is published only by a PUBLISH of its own review: sent by a board
\* for that very task, or typed at a question asked in that round.  A decision
\* on the first draft, sent late, repeated, or left in the list or on the
\* channel, never publishes the revised one (handleBoardMessage).
OnlyApprovedIsPublished ==
    wf = "FINISHED" =>
        \E w \in 1 .. waits :
            /\ decided[w].decision = "PUBLISH"
            /\ decided[w].task = draftTask
            /\ decided[w].by \in Send =>
                  sends[decided[w].by].task = draftTask
                  /\ sends[decided[w].by].decision = "PUBLISH"

Acknowledged(s) ==
    sends[s].step = "acked" /\ sends[s].task = waiting /\ sends[s].wait = waits

\* A decision the gateway acknowledged while the review waited ends the wait, also
\* when the channel is not subscribed yet or never is (the list) - unless the reply
\* that brought it was lost (the catch of runPoller).
AckedDecisionEndsTheWait ==
    \A s \in Send :
        (Acknowledged(s) /\ s \notin dropped) ~> (waiting = Nobody \/ s \in dropped)

\* SocketGateway.ts:348-350: the board is told ok only after the reliable path is
\* persisted, so that a decision the channel did not bring is always recoverable
\* with BRPOP.
AckedDecisionIsRecoverable ==
    \A s \in Send : Acknowledged(s) ~> waiting = Nobody

\* "the board shows no pending decision after the run exits" (reviewStopped):
\* holds for a run that was not resumed after a crash.
NoPendingReviewUnlessResumed ==
    phase = "ended" /\ ~resumed => \A t \in Review : reviewCard[t] # "AWAITING"

\* The same for every run.  pendingReviewTaskId is forgotten by a crash, and
\* the research example announces the review inside the memoized phase: a
\* resumed run that is stopped leaves its review's card waiting.
NoPendingReview == phase = "ended" => \A t \in Review : reviewCard[t] # "AWAITING"

\* state-publisher.ts:98 and 136-137: the review that ends STOPPED, because no
\* decision was taken, is one the orchestrator was waiting on - not the review of
\* a draft it has published.
PublishedReviewStays ==
    [][\A t \in Review :
        wf = "FINISHED" /\ reviewCard[t] = "DONE" => reviewCard'[t] # "STOPPED"]_reviewRunVars

=============================================================================
