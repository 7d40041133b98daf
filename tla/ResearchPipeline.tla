--------------------------- MODULE ResearchPipeline ---------------------------
(***************************************************************************)
(* The run of examples/global-research: a search phase fanned out over the *)
(* sub-topics, a draft, a governance and an editorial phase, each memoized *)
(* with a snapshot of the context, then a human decision and at most one   *)
(* revision.  The process may fail, be stopped, crash and resume from the  *)
(* snapshots; a phase that is cut by a stop goes on beside the ending run. *)
(*                                                                         *)
(* How a decision is reached is ReviewRun's.  Costs are token counts; the  *)
(* texts are left out but for the sub-topic a search result is about.      *)
(***************************************************************************)
EXTENDS Naturals, Sequences, FiniteSets

CONSTANTS
    Searchers,   \* NUM_SEARCHERS
    MaxCost,     \* bound: the cost of one result
    SpendCap,    \* the workflow budget
    MaxRuns      \* bound: starts of the orchestrator

VARIABLES
    ctx,          \* the research context
    memo,         \* the checkpoint: the snapshots of the memoized phases
    at,           \* the phase the run is in; 5 and 7 are the decisions
    progress,     \* how far it is in it
    awaited,      \* tasks the phase waits for
    answers,      \* the answers so far, in the order they came
    halted,       \* the stop signal has fired
    laggard,      \* the phase whose dispatch outlives the run, or 0
    endedBy,      \* how the run ended
    pendingReview,\* pendingReviewTaskId: the phase whose task it is, or 0
    shown,        \* the board: workflow status, the phases' cards, the search tasks' cards
    runs,         \* starts of the orchestrator, for MaxRuns
    autoPublish,  \* AUTO_PUBLISH
    paidFor       \* history: what the results of each phase have cost

pipelineVars == <<ctx, memo, at, progress, awaited, answers, halted, laggard, endedBy,
                  pendingReview, shown, runs, autoPublish, paidFor>>

Search == 1
Write == 2
Governance == 3
Editorial == 4
Revision == 6
Phases == {Search, Write, Governance, Editorial, Revision}
Carded == Phases \ {Search}
NoCards == [p \in Carded |-> "none"]
SearchCard(status, error) == [status |-> status, error |-> error]
AllSearches(status) == [t \in 1 .. Searchers |-> SearchCard(status, "none")]
Fresh == [totals |-> 0, found |-> {}, verdict |-> "none"]

TypeOK ==
    /\ memo \in Seq([totals : Nat, found : SUBSET (1 .. Searchers),
                     verdict : {"none", "passed", "REJECTED"}])
    /\ at \in 1 .. 7 /\ {laggard, pendingReview} \subseteq 0 .. 6
    /\ progress \in {"off", "entering", "dispatching", "waiting", "saving", "deciding",
                     "clearing", "ended"}
    /\ endedBy \in {"none", "stop", "budget", "error", "decision"}
    /\ awaited \subseteq 1 .. Searchers

Init ==
    /\ ctx = Fresh /\ memo = <<>> /\ at = 1 /\ progress = "off"
    /\ awaited = {} /\ answers = <<>>
    /\ halted = FALSE /\ laggard = 0 /\ endedBy = "none" /\ pendingReview = 0
    /\ shown = [wf |-> "none", card |-> NoCards, search |-> AllSearches("none")]
    /\ runs = 0
    /\ autoPublish \in BOOLEAN
    /\ paidFor = [p \in Phases |-> 0]

-----------------------------------------------------------------------------
(* The board: RUNNING after a run that ended clears it (SocketGateway).    *)

Running == IF shown.wf \in {"FINISHED", "STOPPED"}
           THEN [wf |-> "RUNNING", card |-> NoCards, search |-> AllSearches("none")]
           ELSE [shown EXCEPT !.wf = "RUNNING"]

\* searchingPhase, aggregatingPhase, reviewingPhase; the others publish nothing.
Announced(p) == CASE p = Search -> [Running EXCEPT !.search = AllSearches("DOING")]
                  [] p \in {Write, Governance} -> [shown EXCEPT !.card[p] = "DOING"]
                  [] OTHER -> shown

\* workflowStopped and reviewStopped, on the board that is left.
Stopped(b) == [b EXCEPT !.wf = "STOPPED",
                        !.card = IF pendingReview = 0 THEN b.card
                                 ELSE [b.card EXCEPT ![pendingReview] = "STOPPED"]]

\* endFailedRun: a stop and the budget end the workflow, another error keeps its checkpoint.
EndFailedRun(how, b) ==
    /\ shown' = Stopped(b)
    /\ endedBy' = how
    /\ pendingReview' = 0
    /\ progress' = IF how = "error" THEN "ended" ELSE "clearing"
    /\ awaited' = {} /\ answers' = <<>>

Goes(next) == progress' = next /\ UNCHANGED <<awaited, answers, shown, endedBy, pendingReview>>

-----------------------------------------------------------------------------
\* workflowStarted, in a new process.
Start ==
    /\ progress = "off" /\ runs < MaxRuns
    /\ runs' = runs + 1
    /\ progress' = "entering" /\ shown' = Running /\ endedBy' = "none"
    /\ UNCHANGED <<ctx, memo, at, awaited, answers, halted, laggard, pendingReview,
                   autoPublish, paidFor>>

\* After memoize: the budget, the governance verdict, the next phase.
Continue(p, c) ==
    IF c.totals >= SpendCap THEN EndFailedRun("budget", shown) /\ UNCHANGED at
    ELSE IF p = Governance /\ c.verdict = "REJECTED"
    THEN /\ shown' = [shown EXCEPT !.wf = "STOPPED"] /\ endedBy' = "decision"
         /\ progress' = "clearing" /\ UNCHANGED <<at, awaited, answers, pendingReview>>
    ELSE at' = p + 1 /\ Goes(IF p = Editorial THEN "deciding" ELSE "entering")

\* Mutant: the totals are not part of what a snapshot restores.
Resume_KeepsTotals ==
    /\ progress = "entering" /\ at <= Len(memo)
    /\ ctx' = [memo[at] EXCEPT !.totals = ctx.totals]
    /\ Continue(at, ctx')
    /\ UNCHANGED <<memo, halted, laggard, runs, autoPublish, paidFor>>

\* memoize finds the phase in the checkpoint; even a stop does not keep it from that.
Resume ==
    /\ progress = "entering" /\ at <= Len(memo)
    /\ ctx' = memo[at]
    /\ Continue(at, ctx')
    /\ UNCHANGED <<memo, halted, laggard, runs, autoPublish, paidFor>>

\* memoize: assertDispatchAllowed, then the phase starts by dispatching its tasks.
Enter ==
    /\ progress = "entering" /\ at > Len(memo)
    /\ IF halted THEN EndFailedRun("stop", shown) ELSE Goes("dispatching")
    /\ UNCHANGED <<ctx, memo, at, halted, laggard, runs, autoPublish, paidFor>>

Dispatched ==
    /\ progress = "dispatching"
    /\ IF halted THEN EndFailedRun("stop", shown)     \* the revision's wait
       ELSE /\ progress' = "waiting"
            /\ awaited' = (IF at = Search THEN 1 .. Searchers ELSE {1}) /\ answers' = <<>>
            /\ shown' = Announced(at)
            /\ UNCHANGED <<endedBy, pendingReview>>
    /\ UNCHANGED <<ctx, memo, at, halted, laggard, runs, autoPublish, paidFor>>

\* The checkpoint cannot be loaded, a task not be published, a snapshot not be saved.
PhaseFails ==
    /\ progress \in {"entering", "dispatching", "saving"}
    /\ EndFailedRun("error", shown)
    /\ UNCHANGED <<ctx, memo, at, halted, laggard, runs, autoPublish, paidFor>>

-----------------------------------------------------------------------------
(* The answers.  A late or lost one is a failed one: its wait times out.   *)

Answer(t, kind, cost) == [task |-> t, kind |-> kind, cost |-> cost]

\* What the answers cost, token by token.
CostOf(as) == Cardinality(UNION {{i} \X (1 .. as[i].cost) : i \in DOMAIN as})

EndedAs(as, t, kind) == \E i \in DOMAIN as : as[i].task = t /\ as[i].kind = kind

\* searchPhaseComplete: the card of a task that ended with an error, a worker's
\* emergency_stop among them, is BLOCKED and tells the error; an empty result is DONE.
SearchEnd(as, t) ==
    IF EndedAs(as, t, "stopped") THEN SearchCard("BLOCKED", "stopped")
    ELSE IF EndedAs(as, t, "failed") THEN SearchCard("BLOCKED", "failed")
    ELSE SearchCard("DONE", "none")

\* runSearchPhase, all tasks ended: what came back, under the sub-topic its task was
\* dispatched for; an empty result counts as none.  Without any the phase throws before
\* it reports the cards.
Searched(as) ==
    LET found == {as[i].task : i \in {j \in DOMAIN as : as[j].kind = "result"}} IN
    IF found = {} THEN EndFailedRun("error", shown) /\ UNCHANGED <<ctx, paidFor>>
    ELSE /\ ctx' = [ctx EXCEPT !.totals = @ + CostOf(as), !.found = found]
         /\ paidFor' = [paidFor EXCEPT ![Search] = CostOf(as)]
         /\ shown' = [shown EXCEPT !.search = [t \in 1 .. Searchers |-> SearchEnd(as, t)]]
         /\ progress' = "saving"
         /\ UNCHANGED <<endedBy, pendingReview>>

\* The card once the phase's task is done: the editor's and the revision's wait for a human.
Done(p) == IF p \in {Editorial, Revision} THEN "AWAITING" ELSE "DONE"

\* Mutant: the wait that a worker's emergency_stop ended is reported like a failure.
FailUnlessStopped_Reports(kind, p) ==
    IF kind = "stopped" THEN EndFailedRun("stop", [shown EXCEPT !.card[p] = "BLOCKED"])
    ELSE EndFailedRun("error", [shown EXCEPT !.card[p] = "BLOCKED"])

\* failUnlessStopped: taskFailed, except for an EmergencyStopError.  (Once the run's own
\* signal has fired there is no wait left to answer: Halt.)
FailUnlessStopped(kind, p) ==
    IF kind = "stopped" THEN EndFailedRun("stop", shown)
    ELSE EndFailedRun("error", [shown EXCEPT !.card[p] = "BLOCKED"])

\* runWritePhase, runGovernancePhase, runEditorialPhase, runRevisionPhase.
Single(a, verdict) ==
    IF a.kind # "result" THEN FailUnlessStopped(a.kind, at) /\ UNCHANGED <<ctx, at, paidFor>>
    ELSE /\ ctx' = [ctx EXCEPT !.totals = @ + a.cost,
                               !.verdict = IF at = Governance THEN verdict ELSE @]
         /\ paidFor' = [paidFor EXCEPT ![at] = a.cost]
         /\ shown' = [shown EXCEPT !.card[at] = Done(at)]
         /\ pendingReview' = IF Done(at) = "AWAITING" THEN at ELSE pendingReview
         /\ IF at = Revision THEN progress' = "deciding" /\ at' = 7
                             ELSE progress' = "saving" /\ UNCHANGED at
         /\ UNCHANGED endedBy

\* waitAll takes a worker's emergency_stop for a failure like any other.
SearchAnswer(t, kind, cost) ==
    /\ progress = "waiting" /\ at = Search /\ t \in awaited
    /\ LET all == Append(answers, Answer(t, kind, cost))
       IN  IF awaited # {t}
           THEN /\ awaited' = awaited \ {t} /\ answers' = all
                /\ UNCHANGED <<ctx, paidFor, progress, shown, endedBy, pendingReview>>
           ELSE Searched(all) /\ awaited' = {} /\ answers' = <<>>
    /\ UNCHANGED <<memo, at, halted, laggard, runs, autoPublish>>

SingleAnswer(kind, cost, verdict) ==
    /\ progress = "waiting" /\ at # Search
    /\ Single(Answer(1, kind, cost), verdict)
    /\ awaited' = {} /\ answers' = <<>>
    /\ UNCHANGED <<memo, halted, laggard, runs, autoPublish>>

\* memoize saves the snapshot.
Save ==
    /\ progress = "saving"
    /\ memo' = Append(memo, ctx)
    /\ Continue(at, ctx)
    /\ UNCHANGED <<ctx, halted, laggard, runs, autoPublish, paidFor>>

-----------------------------------------------------------------------------
(* The decision, the stop, the end.                                        *)

Decided(p, wf, status) ==
    /\ shown' = [shown EXCEPT !.wf = wf, !.card[p] = status]
    /\ endedBy' = "decision" /\ progress' = "clearing"
    /\ UNCHANGED <<at, awaited, answers, pendingReview>>

\* A human decides, or nobody is asked; a human's wait does not begin under a stop.
Decide ==
    /\ progress = "deciding"
    /\ autoPublish \/ ~halted
    /\ \/ Decided(IF at = 5 THEN Editorial ELSE Revision, "FINISHED", "DONE")
       \/ ~autoPublish /\ Decided(IF at = 5 THEN Editorial ELSE Revision, "STOPPED", "BLOCKED")
       \/ /\ ~autoPublish /\ at = 5                    \* REVISE
          /\ shown' = [shown EXCEPT !.card[Editorial] = "DONE"]
          /\ at' = Revision /\ progress' = "dispatching"
          /\ UNCHANGED <<awaited, answers, endedBy, pendingReview>>
    /\ UNCHANGED <<ctx, memo, halted, laggard, runs, autoPublish, paidFor>>

\* The stop signal: memoize rejects at once, a dispatch under way goes on; the waits
\* reject.  Between two awaits of the run it is noticed at the next of them.
Halt ==
    /\ ~halted
    /\ progress \in {"entering", "dispatching", "waiting", "saving", "deciding"}
    /\ halted' = TRUE
    /\ IF progress \in {"waiting", "deciding"} \/ (progress = "dispatching" /\ at # Revision)
       THEN EndFailedRun("stop", shown)
       ELSE UNCHANGED <<progress, awaited, answers, shown, endedBy, pendingReview>>
    /\ laggard' = IF progress = "dispatching" /\ at # Revision THEN at ELSE 0
    /\ UNCHANGED <<ctx, memo, at, runs, autoPublish, paidFor>>

\* A human's wait that would begin under a stop.
HaltedReview ==
    /\ progress = "deciding" /\ halted /\ ~autoPublish
    /\ EndFailedRun("stop", shown)
    /\ UNCHANGED <<ctx, memo, at, halted, laggard, runs, autoPublish, paidFor>>

\* The phase that was cut: its tasks are out, it announces them; its wait rejects.
LateDispatch ==
    /\ laggard # 0
    /\ shown' = Announced(laggard)
    /\ laggard' = 0
    /\ UNCHANGED <<ctx, memo, at, progress, awaited, answers, halted, endedBy, pendingReview,
                   runs, autoPublish, paidFor>>

\* orch.clear(): the checkpoint of the ended run is wiped.
Clear ==
    /\ progress = "clearing"
    /\ memo' = <<>>
    /\ Goes("ended")
    /\ UNCHANGED <<ctx, at, halted, laggard, runs, autoPublish, paidFor>>

\* It rejects, the checkpoint wiped or not: inside runPipeline after a decision, whose end
\* is then reported as a failure; inside endFailedRun that end stays as it is.
ClearFails ==
    /\ progress = "clearing"
    /\ memo' \in {memo, <<>>}
    /\ IF endedBy = "decision" THEN EndFailedRun("error", shown) ELSE Goes("ended")
    /\ UNCHANGED <<ctx, at, halted, laggard, runs, autoPublish, paidFor>>

\* The process exits, or crashes before that: only the checkpoint and the board are left.
Leave ==
    /\ progress # "off"
    /\ progress' = "off"
    /\ ctx' = Fresh /\ at' = 1 /\ awaited' = {} /\ answers' = <<>>
    /\ halted' = FALSE /\ laggard' = 0 /\ endedBy' = "none" /\ pendingReview' = 0
    /\ paidFor' = [p \in Phases |-> IF p <= Len(memo) THEN paidFor[p] ELSE 0]
    /\ UNCHANGED <<memo, shown, runs, autoPublish>>

Next ==
    \/ Start \/ Resume \/ Enter \/ Dispatched \/ PhaseFails \/ Save \/ Decide
    \/ Halt \/ HaltedReview \/ LateDispatch \/ Clear \/ ClearFails \/ Leave
    \/ \E t \in 1 .. Searchers :
          \/ \E cost \in 0 .. MaxCost : SearchAnswer(t, "result", cost)
          \/ \E kind \in {"empty", "failed", "stopped"} : SearchAnswer(t, kind, 0)
    \/ \E cost \in 0 .. MaxCost, verdict \in {"passed", "REJECTED"} :
          SingleAnswer("result", cost, verdict)
    \/ SingleAnswer("failed", 0, "none") \/ SingleAnswer("stopped", 0, "none")

Spec == Init /\ [][Next]_pipelineVars

-----------------------------------------------------------------------------
(* Properties.                                                             *)

Live == progress \in {"entering", "dispatching", "waiting", "saving", "deciding"}
Past == {p \in Phases : p < at \/ (p = at /\ progress = "saving")}

Paid(p) == IF p \in Past THEN paidFor[p] ELSE 0

\* Over crashes and resumes the run's totals are what the results it goes on with
\* have cost, no result counted twice and none of a finished phase forgotten.
TotalsMatchTheWork ==
    Live => ctx.totals = Paid(Search) + Paid(Write) + Paid(Governance) + Paid(Editorial)
                         + Paid(Revision)

\* Nothing is dispatched once the totals are at the cap, and nothing is written
\* without a search result.
DispatchedWithCause ==
    progress \in {"dispatching", "waiting"} =>
        ctx.totals < SpendCap /\ (at > Search => ctx.found # {})

\* A report that governance rejected is not published, whatever crash or resume
\* comes between the verdict and the end.
RejectedIsNotPublished ==
    endedBy = "decision" /\ ctx.verdict = "REJECTED" => shown.wf # "FINISHED"

RunKeepsItsBooks == TotalsMatchTheWork /\ DispatchedWithCause /\ RejectedIsNotPublished

\* A stop ends the run STOPPED and reports no phase as failed; a search task is shown
\* BLOCKED only by a search phase that went on with another one's result.  Two gaps are
\* the code's: a search phase cut while it dispatches reopens the board afterwards, and
\* with AUTO_PUBLISH a stop that lands while the editor's result is saved is not
\* noticed any more.
StopEndsTheRun ==
    /\ endedBy = "stop" =>
          /\ \/ shown.wf = "STOPPED"
             \/ shown = [wf |-> "RUNNING", card |-> NoCards, search |-> AllSearches("DOING")]
          /\ \A p \in Carded : shown.card[p] # "BLOCKED"
          /\ (\E t \in 1 .. Searchers : shown.search[t].status = "BLOCKED")
                => \E t \in 1 .. Searchers : shown.search[t].status = "DONE"
    /\ halted /\ shown.wf = "FINISHED" => autoPublish

\* phases.ts:44-48: a worker's emergency_stop "must not re-publish the task as BLOCKED".
\* Of a search task it does: searchPhaseComplete knows errors only.
StoppedSearchNotBlocked ==
    \A t \in 1 .. Searchers :
        shown.search[t].error = "stopped" => shown.search[t].status # "BLOCKED"
=============================================================================
