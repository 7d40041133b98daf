-------------------------- MODULE WorkflowOrchestrator --------------------------
(* src/src/shared/orchestrator.ts: one instance drives the steps of a workflow *)
(* through the CompletionRouter and saves each finished step, with the spend   *)
(* so far, in one record of the checkpoint store; after a crash a fresh        *)
(* instance resumes from that record.  Steps may run in parallel, spend may be *)
(* recorded from outside and the record cleared while they do.                 *)
(*                                                                             *)
(* memoize is runStep with a producer in place of the dispatch and the wait.   *)
EXTENDS Naturals, Sequences, FiniteSets

CONSTANTS
    Calls,         \* calls of runStep
    Steps,         \* step names
    StepOf,        \* the step each call runs
    Tasks,         \* task ids
    TaskOf,        \* the task id the dispatch of each call resolves with
    Cost,          \* the spend a task's result reports
    Cap,           \* the workflow budget
    NoTask,        \* a step without an entry in the checkpoint
    SaveMayFail,   \* may the store reject a load, a save or a clear?
    MaxClears,     \* bound: calls of clear() by one instance
    MaxRecords,    \* bound: calls of recordSpend() by one instance
    MaxCrashes     \* bound: crashes of the orchestrator

ASSUME OrchestratorAssumption ==
    /\ IsFiniteSet(Steps)
    /\ StepOf \in [Calls -> Steps]
    /\ TaskOf \in [Calls -> Tasks]
    /\ Cost \in [Tasks -> Nat]
    /\ Cap \in Nat \ {0}
    /\ NoTask \notin Tasks
    /\ {"background", "clear"} \cap Calls = {}
    /\ SaveMayFail \in BOOLEAN
    /\ {MaxClears, MaxRecords, MaxCrashes} \subseteq Nat

VARIABLES
    stored,      \* the store: [present, steps, spend]
    stage,       \* where each call is in runStep
    callGen,     \* the generation it was made in; its cp is that checkpoint
    checkpoints, \* the checkpoint object of each generation; this.checkpoint is
                 \*   the current one, older ones live on in calls that hold them
    generation,  \* bumped by clear()
    totals,      \* this.totals
    stop,        \* this.stop # null
    loading,     \* this.loading: no, under way, or settled
    loadGen,     \* generation of the store.load under way, NoLoad when none is
    cleared,     \* this.cleared
    saveChain,   \* saves and clears queued or running, in call order
    job,         \* what the head of saveChain waits for
    saving,      \* the record the running store.save writes
    halted,      \* the stopSignal has fired
    records,     \* recordSpend() calls of this instance, for MaxRecords
    crashes,     \* crashes so far, for MaxCrashes
    charged,     \* history: spend this run must account for
    wiped        \* history: this instance's store.clear has succeeded

storeVars == <<stored, saving, wiped>>
callVars  == <<stage, callGen>>
spendVars == <<totals, stop, charged>>
loadVars  == <<loading, loadGen>>
chainVars == <<saveChain, job>>
runVars   == <<generation, cleared, halted, records, crashes>>
vars == <<storeVars, callVars, checkpoints, spendVars, loadVars, chainVars, runVars>>

-----------------------------------------------------------------------------
NoLoad     == MaxClears + 1
Background == "background"      \* a save no call waits for: recordSpend's
Clear      == "clear"

Empty    == [s \in Steps |-> NoTask]
NoRecord == [present |-> FALSE, steps |-> Empty, spend |-> 0]

Stages == {"idle", "loading", "dispatching", "waiting", "saving",
           "returned", "rejected", "duplicate"}
Ended  == {"returned", "rejected", "duplicate"}

checkpoint == checkpoints[generation]
Snapshot   == [present |-> TRUE, steps |-> checkpoint, spend |-> totals]

TasksIn(steps) == {steps[s] : s \in Steps} \ {NoTask}
CostOfTasks(tasks) == Cardinality(UNION {{t} \X (1 .. Cost[t]) : t \in tasks})

To(c, next) == stage' = [stage EXCEPT ![c] = next]

\* addSpend: the cap is checked against the new totals at once.
AddSpend(n) ==
    /\ totals' = totals + n
    /\ charged' = charged + n
    /\ stop' = (stop \/ totals' >= Cap)

Enqueue(entry) == saveChain' = Append(saveChain, entry)

\* The clears of a chain that have not ended.
ClearsIn(chain) == {i \in DOMAIN chain : chain[i] = Clear}

\* ensureLoaded: start the one load of this instance unless it was started.
EnsureLoading ==
    IF loading = "no" THEN loading' = "pending" /\ loadGen' = generation
                      ELSE UNCHANGED loadVars

-----------------------------------------------------------------------------
Init ==
    /\ stored = NoRecord
    /\ charged = 0
    /\ crashes = 0
    /\ stage = [c \in Calls |-> "idle"]
    /\ callGen = [c \in Calls |-> 0]
    /\ checkpoints = [g \in 0 .. MaxClears |-> Empty]
    /\ generation = 0
    /\ totals = 0
    /\ stop = FALSE
    /\ loading = "no" /\ loadGen = NoLoad
    /\ cleared = FALSE
    /\ saveChain = <<>> /\ job = "none" /\ saving = NoRecord
    /\ halted = FALSE
    /\ records = 0
    /\ wiped = FALSE

\* The constructor: nothing is read from the store yet.
FreshInstance ==
    /\ stage' = [c \in Calls |-> "idle"]
    /\ callGen' = [c \in Calls |-> 0]
    /\ checkpoints' = [g \in 0 .. MaxClears |-> Empty]
    /\ generation' = 0
    /\ totals' = 0
    /\ stop' = FALSE
    /\ loading' = "no" /\ loadGen' = NoLoad
    /\ cleared' = FALSE
    /\ saveChain' = <<>> /\ job' = "none" /\ saving' = NoRecord
    /\ halted' = FALSE
    /\ records' = 0
    /\ wiped' = FALSE

-----------------------------------------------------------------------------
\* runStep up to its first await: note the generation and wait for the load.
CallStep(c) ==
    /\ stage[c] = "idle"
    /\ To(c, "loading")
    /\ callGen' = [callGen EXCEPT ![c] = generation]
    /\ EnsureLoading
    /\ UNCHANGED <<storeVars, checkpoints, spendVars, chainVars, runVars>>

\* The load a call waits for has settled: its own, or one clear() replaced.
LoadedFor(c) ==
    /\ stage[c] = "loading"
    /\ IF callGen[c] = generation THEN loading = "done" ELSE loadGen # callGen[c]

\* Cleared while it waited, emergency stop, budget stop: nothing is dispatched.
StepRefused(c) ==
    /\ LoadedFor(c)
    /\ \/ callGen[c] # generation
       \/ /\ checkpoint[StepOf[c]] = NoTask
          /\ halted \/ stop
    /\ To(c, "rejected")
    /\ UNCHANGED <<storeVars, callGen, checkpoints, spendVars, loadVars,
                   chainVars, runVars>>

StepReplayed(c) ==
    /\ LoadedFor(c)
    /\ callGen[c] = generation
    /\ checkpoint[StepOf[c]] # NoTask
    /\ To(c, "returned")
    /\ UNCHANGED <<storeVars, callGen, checkpoints, spendVars, loadVars,
                   chainVars, runVars>>

\* Mutant: the dispatch does not ask the checkpoint.
StepDispatchedAgain(c) ==
    /\ LoadedFor(c)
    /\ callGen[c] = generation
    /\ ~halted /\ ~stop
    /\ To(c, "dispatching")
    /\ UNCHANGED <<storeVars, callGen, checkpoints, spendVars, loadVars,
                   chainVars, runVars>>

StepDispatched(c) ==
    /\ LoadedFor(c)
    /\ callGen[c] = generation
    /\ checkpoint[StepOf[c]] = NoTask
    /\ ~halted /\ ~stop
    /\ To(c, "dispatching")
    /\ UNCHANGED <<storeVars, callGen, checkpoints, spendVars, loadVars,
                   chainVars, runVars>>

\* cp[name] = entry, on the checkpoint the call holds, and a save is queued.
StepSaves(c) ==
    /\ checkpoints' = [checkpoints EXCEPT ![callGen[c]][StepOf[c]] = TaskOf[c]]
    /\ Enqueue(c)
    /\ To(c, "saving")

\* The dispatch resolves with a task id some step of the checkpoint resolved.
DispatchReused(c) ==
    /\ stage[c] = "dispatching"
    /\ TaskOf[c] \in TasksIn(checkpoints[callGen[c]])
    /\ StepSaves(c)
    /\ UNCHANGED <<storeVars, callGen, spendVars, loadVars, job, runVars>>

\* Mutant: a task is asked of the checkpoint, not of the waits under way.
DispatchWaitedBeside(c) ==
    /\ stage[c] = "dispatching"
    /\ TaskOf[c] \notin TasksIn(checkpoints[callGen[c]])
    /\ To(c, IF halted THEN "rejected" ELSE "waiting")
    /\ UNCHANGED <<storeVars, callGen, checkpoints, spendVars, loadVars,
                   chainVars, runVars>>

\* The router refuses a second wait for a task id, and any wait once halted.
DispatchWaited(c) ==
    LET waitedFor == \E o \in Calls : stage[o] = "waiting" /\ TaskOf[o] = TaskOf[c]
    IN
    /\ stage[c] = "dispatching"
    /\ TaskOf[c] \notin TasksIn(checkpoints[callGen[c]])
    /\ To(c, IF waitedFor THEN "duplicate"
             ELSE IF halted THEN "rejected" ELSE "waiting")
    /\ UNCHANGED <<storeVars, callGen, checkpoints, spendVars, loadVars,
                   chainVars, runVars>>

\* The dispatch rejects, or the wait does: a timeout, a failed task.
StepFails(c) ==
    /\ stage[c] \in {"dispatching", "waiting"}
    /\ To(c, "rejected")
    /\ UNCHANGED <<storeVars, callGen, checkpoints, spendVars, loadVars,
                   chainVars, runVars>>

\* Mutant: the step is noted and saved before its spend is added.
StepResolvesUnpaid(c) ==
    /\ stage[c] = "waiting"
    /\ StepSaves(c)
    /\ UNCHANGED <<storeVars, callGen, spendVars, loadVars, job, runVars>>

\* The result: account for it, then note the step, then save both.
StepResolves(c) ==
    /\ stage[c] = "waiting"
    /\ AddSpend(Cost[TaskOf[c]])
    /\ StepSaves(c)
    /\ UNCHANGED <<storeVars, callGen, loadVars, job, runVars>>

RecordSpend ==
    /\ records < MaxRecords
    /\ records' = records + 1
    /\ AddSpend(1)
    /\ Enqueue(Background)
    /\ UNCHANGED <<storeVars, callVars, checkpoints, loadVars, job, generation,
                   cleared, halted, crashes>>

CallClear ==
    /\ Cardinality(ClearsIn(saveChain)) + generation < MaxClears
    /\ Enqueue(Clear)
    /\ UNCHANGED <<storeVars, callVars, checkpoints, spendVars, loadVars, job,
                   runVars>>

\* The stop signal fires: every wait rejects, nothing more is dispatched.
Halt ==
    /\ ~halted
    /\ halted' = TRUE
    /\ stage' = [c \in Calls |-> IF stage[c] = "waiting" THEN "rejected"
                                                         ELSE stage[c]]
    /\ UNCHANGED <<storeVars, callGen, checkpoints, spendVars, loadVars, chainVars,
                   generation, cleared, records, crashes>>
-----------------------------------------------------------------------------
\* Mutant: a load that clear() overtook is applied.
LoadSucceedsStale ==
    /\ loadGen # NoLoad
    /\ loadGen' = NoLoad
    /\ loading' = "done"
    /\ checkpoints' = [checkpoints EXCEPT ![generation] = stored.steps]
    /\ totals' = totals + stored.spend
    /\ stop' = (stop \/ totals' >= Cap)
    /\ UNCHANGED <<storeVars, callVars, chainVars, runVars, charged>>

\* Mutant: the restored spend is not checked against the cap.
LoadSucceedsUnchecked ==
    /\ loadGen # NoLoad
    /\ loadGen' = NoLoad
    /\ IF loadGen = generation
       THEN /\ loading' = "done"
            /\ checkpoints' = [checkpoints EXCEPT ![generation] = stored.steps]
            /\ totals' = totals + stored.spend
       ELSE UNCHANGED <<loading, checkpoints, totals>>
    /\ UNCHANGED <<storeVars, callVars, chainVars, runVars, charged, stop>>

\* store.load answers: a load that clear() overtook is discarded, else its record
\* becomes the checkpoint and its spend is added to what was recorded meanwhile.
LoadSucceeds ==
    /\ loadGen # NoLoad
    /\ loadGen' = NoLoad
    /\ IF loadGen = generation
       THEN /\ loading' = "done"
            /\ checkpoints' = [checkpoints EXCEPT ![generation] = stored.steps]
            /\ totals' = totals + stored.spend
            /\ stop' = (stop \/ totals' >= Cap)
       ELSE UNCHANGED <<loading, checkpoints, totals, stop>>
    /\ UNCHANGED <<storeVars, callVars, chainVars, runVars, charged>>

\* Mutant: the calls that shared the load are not told.
LoadFailsQuietly ==
    /\ SaveMayFail
    /\ loadGen # NoLoad
    /\ loadGen' = NoLoad
    /\ loading' = IF loadGen = generation THEN "no" ELSE loading
    /\ UNCHANGED <<storeVars, callVars, checkpoints, spendVars, chainVars, runVars>>

\* ... or rejects: everyone waiting for this load fails, the next call retries.
LoadFails ==
    /\ SaveMayFail
    /\ loadGen # NoLoad
    /\ loadGen' = NoLoad
    /\ IF loadGen = generation
       THEN LET failed == {c \in Calls : stage[c] = "loading" /\ callGen[c] = generation}
                            \cup (IF job = "loading" THEN {Head(saveChain)} ELSE {})
            IN
            /\ loading' = "no"
            /\ stage' = [c \in Calls |-> IF c \in failed THEN "rejected" ELSE stage[c]]
            /\ IF job = "loading" THEN job' = "none" /\ saveChain' = Tail(saveChain)
                                  ELSE UNCHANGED chainVars
       ELSE UNCHANGED <<loading, stage, chainVars>>
    /\ UNCHANGED <<storeVars, callGen, checkpoints, spendVars, runVars>>

\* The head of the chain ends; a save some call waits for settles that call.
HeadEnds(outcome) ==
    /\ saveChain' = Tail(saveChain)
    /\ job' = "none"
    /\ stage' = [c \in Calls |-> IF c = Head(saveChain) THEN outcome ELSE stage[c]]

NextIsSave == job = "none" /\ saveChain # <<>> /\ Head(saveChain) # Clear

SaveAwaitsLoad ==
    /\ NextIsSave
    /\ job' = "loading"
    /\ EnsureLoading
    /\ UNCHANGED <<storeVars, callVars, checkpoints, spendVars, saveChain, runVars>>

\* After a clear nothing is saved while no new step has completed.
SaveSkipped ==
    /\ job = "loading" /\ loading = "done"
    /\ cleared /\ checkpoint = Empty
    /\ HeadEnds("returned")
    /\ UNCHANGED <<storeVars, callGen, checkpoints, spendVars, loadVars, runVars>>

\* Mutant: the save after a clear is not skipped.
SaveStartsAlways ==
    /\ job = "loading" /\ loading = "done"
    /\ job' = "saving"
    /\ saving' = Snapshot
    /\ UNCHANGED <<stored, wiped, callVars, checkpoints, spendVars, loadVars,
                   saveChain, runVars>>

SaveStarts ==
    /\ job = "loading" /\ loading = "done"
    /\ ~(cleared /\ checkpoint = Empty)
    /\ job' = "saving"
    /\ saving' = Snapshot
    /\ UNCHANGED <<stored, wiped, callVars, checkpoints, spendVars, loadVars,
                   saveChain, runVars>>

SaveSucceeds ==
    /\ job = "saving"
    /\ stored' = saving
    /\ HeadEnds("returned")
    /\ UNCHANGED <<saving, wiped, callGen, checkpoints, spendVars, loadVars, runVars>>

\* The store may have applied a save that rejects.
SaveFails ==
    /\ SaveMayFail
    /\ job = "saving"
    /\ stored' \in {stored, saving}
    /\ HeadEnds("rejected")
    /\ UNCHANGED <<saving, wiped, callGen, checkpoints, spendVars, loadVars, runVars>>

\* clear()'s turn in the chain: reset the instance, then store.clear.
ClearStarts ==
    /\ job = "none" /\ saveChain # <<>> /\ Head(saveChain) = Clear
    /\ job' = "clearing"
    /\ generation' = generation + 1
    /\ cleared' = TRUE
    /\ totals' = 0 /\ charged' = 0
    /\ stop' = FALSE
    /\ loading' = "done"
    /\ UNCHANGED <<storeVars, callVars, checkpoints, loadGen, saveChain, halted,
                   records, crashes>>

ClearSucceeds ==
    /\ job = "clearing"
    /\ stored' = NoRecord
    /\ wiped' = TRUE
    /\ HeadEnds("returned")
    /\ UNCHANGED <<saving, callGen, checkpoints, spendVars, loadVars, runVars>>

ClearFails ==
    /\ SaveMayFail
    /\ job = "clearing"
    /\ HeadEnds("rejected")
    /\ UNCHANGED <<storeVars, callGen, checkpoints, spendVars, loadVars, runVars>>

\* The process dies, with a save or a clear perhaps applied, and a fresh instance
\* takes over: it must account for what the store holds.
Crash ==
    /\ crashes < MaxCrashes
    /\ crashes' = crashes + 1
    /\ stored' \in {stored} \cup (IF job = "saving" THEN {saving} ELSE {})
                            \cup (IF job = "clearing" THEN {NoRecord} ELSE {})
    /\ charged' = stored'.spend
    /\ FreshInstance

-----------------------------------------------------------------------------
CallStepOn(c) ==
    \/ StepRefused(c) \/ StepReplayed(c) \/ StepDispatched(c)
    \/ DispatchReused(c) \/ DispatchWaited(c)
    \/ StepFails(c) \/ StepResolves(c)

StoreStep ==
    \/ LoadSucceeds \/ LoadFails
    \/ SaveAwaitsLoad \/ SaveSkipped \/ SaveStarts \/ SaveSucceeds \/ SaveFails
    \/ ClearStarts \/ ClearSucceeds \/ ClearFails

Next ==
    \/ \E c \in Calls : CallStep(c) \/ CallStepOn(c)
    \/ RecordSpend \/ CallClear \/ Halt
    \/ StoreStep
    \/ Crash

\* Redis answers, promises continue, and the router's timers end every wait.
Fairness ==
    /\ \A c \in Calls : WF_vars(CallStepOn(c))
    /\ WF_vars(StoreStep)

Spec == Init /\ [][Next]_vars /\ Fairness

-----------------------------------------------------------------------------
Records == [present : BOOLEAN, steps : [Steps -> Tasks \cup {NoTask}], spend : Nat]

TypeOK ==
    /\ stored \in Records /\ saving \in Records
    /\ stage \in [Calls -> Stages]
    /\ callGen \in [Calls -> 0 .. MaxClears]
    /\ checkpoints \in [0 .. MaxClears -> [Steps -> Tasks \cup {NoTask}]]
    /\ generation \in 0 .. MaxClears
    /\ totals \in Nat /\ charged \in Nat
    /\ {stop, cleared, halted, wiped} \subseteq BOOLEAN
    /\ loading \in {"no", "pending", "done"}
    /\ loadGen \in 0 .. NoLoad
    /\ saveChain \in Seq(Calls \cup {Background, Clear})
    /\ job \in {"none", "loading", "saving", "clearing"}
    /\ records \in 0 .. MaxRecords /\ crashes \in 0 .. MaxCrashes

\* The spend saved with a record covers every step saved in it, each task paid
\* for once: no crash can leave a step that replays for free and never counted.
SpendCoversSteps ==
    stored.spend >= CostOfTasks(TasksIn(stored.steps))

\* What this run spent is counted exactly once: the saved spend is added to the
\* totals by one load, whatever clear(), failed loads and recordSpend() do around
\* it, and a load that clear() overtook adds nothing.
SpendRestoredOnce ==
    charged = IF loading = "done" THEN totals ELSE totals + stored.spend

\* A result that is waited for is not paid yet: the checkpoint its step writes has
\* no result of that task, and no other step waits for it - of steps in parallel
\* whose dispatches resolve with one task id, one is charged.
NoTaskPaidTwice ==
    \A c \in Calls : stage[c] = "waiting" =>
        /\ TaskOf[c] \notin TasksIn(checkpoints[callGen[c]])
        /\ \A o \in Calls \ {c} : stage[o] = "waiting" => TaskOf[o] # TaskOf[c]

\* The spend is exact: none is forgotten with a saved step, none is counted twice.
SpendIsExact == SpendCoversSteps /\ SpendRestoredOnce /\ NoTaskPaidTwice

\* A cleared record does not come back: what is stored after a clear() holds a
\* step, and every step in it was started after the clear - not by a late spend,
\* a step in flight or a load that the clear overtook.
ClearedRunStaysCleared ==
    wiped /\ stored.present =>
        /\ stored.steps # Empty
        /\ \A s \in Steps : stored.steps[s] # NoTask =>
              \E c \in Calls : callGen[c] > 0 /\ StepOf[c] = s
                                   /\ TaskOf[c] = stored.steps[s]

Dispatches(c) == stage[c] = "loading" /\ stage'[c] = "dispatching"

\* A step the store holds is not dispatched again, before or after a crash, unless
\* the run was cleared: the paid call is replayed from the checkpoint.
SavedStepNotPaidAgain ==
    [][\A c \in Calls : Dispatches(c) =>
          cleared \/ stored.steps[StepOf[c]] = NoTask]_vars

\* A workflow whose saved spend reached the cap dispatches nothing more, in this
\* instance or in the one that resumes after a crash.
CapSurvivesRestart ==
    [][\A c \in Calls : Dispatches(c) => cleared \/ stored.spend < Cap]_vars

\* Every step that was called returns or rejects, unless the process dies.
EveryStepEnds ==
    \A c \in Calls : stage[c] = "loading" ~> stage[c] \in Ended \cup {"idle"}

\* orchestrator.ts:15: "if two steps dispatch the same taskId, the second reuses
\* the first result instead of waiting twice".
SecondStepReusesResult ==
    \A c \in Calls : stage[c] # "duplicate"
=============================================================================
