------------------------ MODULE WorkflowOrchestratorProofs ------------------------
(* What holds of the orchestrator for any steps, costs and cap, and any number of  *)
(* clears, recorded spends and crashes: the spend is exact, a cleared run stays    *)
(* cleared, and neither a step the store holds nor one above the saved cap is      *)
(* dispatched again.  Costs are added up as sets of units (Units), so that one     *)
(* more task is the union with its own units.                                      *)
EXTENDS WorkflowOrchestrator, FiniteSetTheorems, SequenceTheorems, TLAPS

Entry == Calls \cup {Background, Clear}

-----------------------------------------------------------------------------
(* The clears in the chain of saves.                                       *)

LEMMA ClearsAreFinite ==
    ASSUME NEW q \in Seq(Entry)
    PROVE  IsFiniteSet(ClearsIn(q)) /\ Cardinality(ClearsIn(q)) \in Nat
<1>1. ClearsIn(q) \subseteq 1 .. Len(q)
  BY DEF ClearsIn
<1>2. IsFiniteSet(1 .. Len(q))
  BY FS_Interval
<1> QED  BY <1>1, <1>2, FS_Subset, FS_CardinalityType

LEMMA ClearsAfterAppend ==
    ASSUME NEW q \in Seq(Entry), NEW e \in Entry
    PROVE  Cardinality(ClearsIn(Append(q, e))) =
               Cardinality(ClearsIn(q)) + (IF e = Clear THEN 1 ELSE 0)
<1>1. /\ Append(q, e) \in Seq(Entry) /\ Len(Append(q, e)) = Len(q) + 1
      /\ \A i \in 1 .. Len(q) : Append(q, e)[i] = q[i]
      /\ Append(q, e)[Len(q) + 1] = e
  BY AppendProperties
<1>2. Len(q) \in Nat /\ DOMAIN q = 1 .. Len(q) /\ DOMAIN Append(q, e) = 1 .. (Len(q) + 1)
  BY <1>1
<1>3. IsFiniteSet(ClearsIn(q)) /\ Cardinality(ClearsIn(q)) \in Nat
  BY ClearsAreFinite
<1>4. CASE e = Clear
  <2>1. ClearsIn(Append(q, e)) = ClearsIn(q) \cup {Len(q) + 1} /\ Len(q) + 1 \notin ClearsIn(q)
    BY <1>1, <1>2, <1>4 DEF ClearsIn
  <2> QED  BY <1>3, <1>4, <2>1, FS_AddElement
<1>5. CASE e # Clear
  <2>1. ClearsIn(Append(q, e)) = ClearsIn(q)
    BY <1>1, <1>2, <1>5 DEF ClearsIn
  <2> QED  BY <1>3, <1>5, <2>1
<1> QED  BY <1>4, <1>5

LEMMA ClearsAfterTail ==
    ASSUME NEW q \in Seq(Entry), q # <<>>
    PROVE  Cardinality(ClearsIn(Tail(q))) + (IF Head(q) = Clear THEN 1 ELSE 0)
               <= Cardinality(ClearsIn(q))
<1> DEFINE rest == ClearsIn(q) \ {1}
           up   == [i \in ClearsIn(Tail(q)) |-> i + 1]
<1>1. /\ Tail(q) \in Seq(Entry) /\ Len(Tail(q)) = Len(q) - 1
      /\ \A i \in 1 .. Len(Tail(q)) : Tail(q)[i] = q[i + 1]
  BY HeadTailProperties
<1>2. /\ Len(q) \in Nat /\ Len(q) # 0
      /\ DOMAIN q = 1 .. Len(q) /\ DOMAIN Tail(q) = 1 .. (Len(q) - 1)
  BY <1>1
<1>3. IsFiniteSet(ClearsIn(q)) /\ Cardinality(ClearsIn(q)) \in Nat
  BY ClearsAreFinite
<1>4. IsFiniteSet(rest)
  BY <1>3, FS_Subset
<1>5. \A i \in ClearsIn(Tail(q)) : i \in Nat /\ i + 1 \in rest
  BY <1>1, <1>2 DEF ClearsIn
<1>6. up \in Injection(ClearsIn(Tail(q)), rest)
  <2>1. up \in [ClearsIn(Tail(q)) -> rest]
    BY <1>5
  <2>2. \A i, j \in ClearsIn(Tail(q)) : up[i] = up[j] => i = j
    BY <1>5
  <2> QED  BY <2>1, <2>2 DEF Injection, IsInjective
<1>7. Cardinality(ClearsIn(Tail(q))) <= Cardinality(rest)
  BY <1>4, <1>6, FS_Injection
<1>8. Cardinality(ClearsIn(Tail(q))) \in Nat /\ Cardinality(rest) \in Nat
  BY <1>1, <1>4, ClearsAreFinite, FS_CardinalityType
<1>9. CASE Head(q) = Clear
  <2>1. 1 \in ClearsIn(q)
    BY <1>2, <1>9 DEF ClearsIn
  <2>2. Cardinality(rest) = Cardinality(ClearsIn(q)) - 1
    BY <1>3, <2>1, FS_RemoveElement
  <2> QED  BY <1>3, <1>7, <1>8, <1>9, <2>2
<1>10. CASE Head(q) # Clear
  <2>1. Cardinality(rest) <= Cardinality(ClearsIn(q))
    BY <1>3, FS_Subset
  <2> QED  BY <1>3, <1>7, <1>8, <1>10, <2>1
<1> QED  BY <1>9, <1>10

-----------------------------------------------------------------------------
(* The inductive invariant.                                                *)

\* What runs is the head of the chain, and every clear in it has its generation.
ChainIsSound ==
    /\ job # "none" => saveChain # <<>>
    /\ job = "clearing" => Head(saveChain) = Clear
    /\ job \in {"loading", "saving"} => Head(saveChain) # Clear
    /\ Cardinality(ClearsIn(saveChain)) + generation
          <= MaxClears + (IF job = "clearing" THEN 1 ELSE 0)

\* The load that will be applied is under way; the store is written after it, and
\* after a clear none is applied.
LoadIsSound ==
    /\ loadGen = NoLoad \/ loadGen <= generation
    /\ loadGen = generation => loading = "pending"
    /\ job \in {"saving", "clearing"} => loading = "done"
    /\ cleared <=> generation # 0
    /\ cleared => loading = "done"

Knows(record) ==
    /\ record.spend <= totals
    /\ \A s \in Steps : record.steps[s] # NoTask => checkpoints[0][s] # NoTask

\* Until a clear, this instance knows what is stored or being stored.
KnowsTheStore ==
    ~cleared => /\ loading = "done" => Knows(stored)
                /\ job = "saving" => Knows(saving)

CapIsNoticed == totals >= Cap => stop

MadeLate(steps) ==
    \A s \in Steps : steps[s] # NoTask =>
        \E c \in Calls : callGen[c] > 0 /\ StepOf[c] = s /\ TaskOf[c] = steps[s]

\* The checkpoints after a clear hold steps called after it, and so does a save.
LateSteps ==
    /\ \A c \in Calls : stage[c] = "idle" => callGen[c] = 0
    /\ \A g \in 1 .. MaxClears : MadeLate(checkpoints[g])
    /\ job = "saving" /\ cleared => saving.steps # Empty /\ MadeLate(saving.steps)
    /\ wiped => cleared
    /\ job = "clearing" => cleared

IInv ==
    /\ TypeOK /\ ChainIsSound /\ LoadIsSound /\ KnowsTheStore /\ CapIsNoticed
    /\ SpendRestoredOnce /\ LateSteps /\ ClearedRunStaysCleared

-----------------------------------------------------------------------------
LEMMA IInvInit ==
    Init => IInv
<1> SUFFICES ASSUME Init PROVE IInv
  OBVIOUS
<1> USE OrchestratorAssumption
<1>1. TypeOK
  <2>1. NoRecord \in Records /\ NoLoad \in 0 .. NoLoad
    BY DEF NoRecord, Records, Empty, NoLoad
  <2>2. saveChain \in Seq(Calls \cup {Background, Clear})
    BY DEF Init
  <2>3. checkpoints \in [0 .. MaxClears -> [Steps -> Tasks \cup {NoTask}]]
    BY DEF Init, Empty
  <2>4. MaxClears \in Nat /\ MaxRecords \in Nat /\ MaxCrashes \in Nat
    OBVIOUS
  <2>5. {stop, cleared, halted, wiped} \subseteq BOOLEAN
    BY DEF Init
  <2> QED  BY <2>1, <2>2, <2>3, <2>4, <2>5 DEF Init, TypeOK, Stages
<1>2. ChainIsSound
  <2>1. ClearsIn(saveChain) = {}
    BY DEF Init, ClearsIn
  <2>2. Cardinality(ClearsIn(saveChain)) = 0
    BY <2>1, FS_EmptySet
  <2> QED  BY <2>2 DEF Init, ChainIsSound
<1>3. LoadIsSound /\ KnowsTheStore /\ CapIsNoticed /\ SpendRestoredOnce
  BY DEF Init, LoadIsSound, NoLoad, KnowsTheStore, CapIsNoticed, SpendRestoredOnce, NoRecord
<1>4. LateSteps /\ ClearedRunStaysCleared
  BY DEF Init, LateSteps, MadeLate, Empty, ClearedRunStaysCleared
<1> QED  BY <1>1, <1>2, <1>3, <1>4 DEF IInv

\* The chain grows by a save or a clear, or its head ends.
LEMMA ChainAppends ==
    ASSUME IInv, NEW e \in Entry, Enqueue(e), UNCHANGED <<job, generation>>,
           e = Clear => Cardinality(ClearsIn(saveChain)) + generation < MaxClears
    PROVE  saveChain' \in Seq(Entry) /\ ChainIsSound'
<1>1. /\ saveChain \in Seq(Entry) /\ generation \in Nat /\ MaxClears \in Nat
  BY OrchestratorAssumption DEF IInv, TypeOK, Entry
<1>2. /\ saveChain' \in Seq(Entry) /\ saveChain' # <<>>
      /\ saveChain # <<>> => Head(saveChain') = Head(saveChain)
      /\ Cardinality(ClearsIn(saveChain')) =
            Cardinality(ClearsIn(saveChain)) + (IF e = Clear THEN 1 ELSE 0)
  BY <1>1, AppendProperties, HeadTailAppend, ClearsAfterAppend DEF Enqueue
<1>3. Cardinality(ClearsIn(saveChain)) \in Nat
  BY <1>1, ClearsAreFinite
<1>4. Cardinality(ClearsIn(saveChain')) + generation
          <= MaxClears + (IF job = "clearing" THEN 1 ELSE 0)
  BY <1>1, <1>2, <1>3 DEF IInv, ChainIsSound
<1> QED  BY <1>2, <1>4 DEF IInv, ChainIsSound

LEMMA ChainHeadEnds ==
    ASSUME IInv, job # "none", saveChain' = Tail(saveChain), job' = "none",
           generation' = generation
    PROVE  saveChain' \in Seq(Entry) /\ ChainIsSound'
<1>1. /\ saveChain \in Seq(Entry) /\ generation \in Nat /\ MaxClears \in Nat
      /\ saveChain # <<>>
  BY OrchestratorAssumption DEF IInv, TypeOK, Entry, ChainIsSound
<1>2. /\ saveChain' \in Seq(Entry)
      /\ Cardinality(ClearsIn(saveChain')) + (IF Head(saveChain) = Clear THEN 1 ELSE 0)
            <= Cardinality(ClearsIn(saveChain))
  BY <1>1, HeadTailProperties, ClearsAfterTail
<1>3. Cardinality(ClearsIn(saveChain)) \in Nat /\ Cardinality(ClearsIn(saveChain')) \in Nat
  BY <1>1, <1>2, ClearsAreFinite
<1>4. Cardinality(ClearsIn(saveChain')) + generation <= MaxClears
  BY <1>1, <1>2, <1>3 DEF IInv, ChainIsSound
<1> QED  BY <1>1, <1>2, <1>4 DEF ChainIsSound

\* ... or its head starts.
LEMMA ChainClearStarts ==
    ASSUME IInv, ClearStarts
    PROVE  /\ ChainIsSound' /\ saveChain' \in Seq(Entry)
           /\ generation' \in 1 .. MaxClears
<1>1. /\ saveChain \in Seq(Entry) /\ generation \in Nat /\ MaxClears \in Nat
  BY OrchestratorAssumption DEF IInv, TypeOK, Entry
<1>2. /\ saveChain # <<>> /\ Head(saveChain) = Clear /\ job = "none"
      /\ saveChain' = saveChain /\ generation' = generation + 1 /\ job' = "clearing"
  BY DEF ClearStarts
<1>3. Tail(saveChain) \in Seq(Entry)
  BY <1>1, <1>2, HeadTailProperties
<1>4. /\ Cardinality(ClearsIn(saveChain)) \in Nat
      /\ Cardinality(ClearsIn(Tail(saveChain))) \in Nat
  BY <1>1, <1>3, ClearsAreFinite
<1>5. Cardinality(ClearsIn(Tail(saveChain))) + 1 <= Cardinality(ClearsIn(saveChain))
  BY <1>1, <1>2, ClearsAfterTail
<1>6. Cardinality(ClearsIn(saveChain)) + generation <= MaxClears
  BY <1>1, <1>2, <1>4 DEF IInv, ChainIsSound
<1>7. generation' \in 1 .. MaxClears
  BY <1>1, <1>2, <1>4, <1>5, <1>6
<1>8. Cardinality(ClearsIn(saveChain')) + generation' <= MaxClears + 1
  BY <1>1, <1>2, <1>4, <1>6
<1> QED  BY <1>1, <1>2, <1>7, <1>8 DEF ChainIsSound

-----------------------------------------------------------------------------
\* The steps of a call that save nothing, and the stop signal.
LEMMA QuietSteps ==
    ASSUME IInv,
           \/ \E c \in Calls :
                 \/ CallStep(c) \/ StepRefused(c) \/ StepReplayed(c)
                 \/ StepDispatched(c) \/ DispatchWaited(c) \/ StepFails(c)
           \/ Halt
    PROVE  IInv'
<1>1. UNCHANGED <<storeVars, checkpoints, spendVars, chainVars, generation, cleared,
                  records, crashes>>
  BY DEF CallStep, StepRefused, StepReplayed, StepDispatched, DispatchWaited, StepFails, Halt,
         runVars
<1> DEFINE Effect ==
      /\ stage' \in [Calls -> Stages] /\ halted' \in BOOLEAN
      /\ callGen' \in [Calls -> 0 .. MaxClears]
      /\ \A c \in Calls : /\ stage'[c] = "idle" => stage[c] = "idle" /\ callGen'[c] = callGen[c]
                          /\ stage[c] # "idle" => callGen'[c] = callGen[c]
      /\ \/ UNCHANGED loadVars
         \/ loading = "no" /\ loading' = "pending" /\ loadGen' = generation
<1>2. Effect
  <2> USE DEF IInv, TypeOK, Stages
  <2>1. ASSUME NEW c \in Calls, CallStep(c) PROVE Effect
    <3>1. /\ stage' = [stage EXCEPT ![c] = "loading"]
          /\ callGen' = [callGen EXCEPT ![c] = generation]
          /\ stage[c] = "idle" /\ halted' = halted
      BY <2>1 DEF CallStep, To, runVars
    <3>2. \/ UNCHANGED loadVars
          \/ loading = "no" /\ loading' = "pending" /\ loadGen' = generation
      BY <2>1 DEF CallStep, EnsureLoading
    <3> QED  BY <3>1, <3>2
  <2>2. ASSUME NEW c \in Calls, StepRefused(c) \/ StepReplayed(c) \/ StepDispatched(c) PROVE Effect
    BY <2>2 DEF StepRefused, StepReplayed, StepDispatched, To, runVars, LoadedFor
  <2>3. ASSUME NEW c \in Calls, DispatchWaited(c) \/ StepFails(c) PROVE Effect
    BY <2>3 DEF DispatchWaited, StepFails, To, runVars
  <2>4. CASE Halt
    BY <2>4 DEF Halt
  <2> QED  BY <2>1, <2>2, <2>3, <2>4
<1>3. TypeOK'
  BY <1>1, <1>2, OrchestratorAssumption
  DEF IInv, TypeOK, storeVars, spendVars, chainVars, loadVars, NoLoad
<1>4. ChainIsSound'
  BY <1>1 DEF IInv, ChainIsSound, chainVars
<1>5. LoadIsSound'
  BY <1>1, <1>2, OrchestratorAssumption DEF IInv, TypeOK, LoadIsSound, chainVars, loadVars, NoLoad
<1>6. KnowsTheStore' /\ CapIsNoticed' /\ SpendRestoredOnce'
  BY <1>1, <1>2
  DEF IInv, KnowsTheStore, Knows, CapIsNoticed, SpendRestoredOnce, storeVars, spendVars,
      chainVars, loadVars
<1>7. \A c \in Calls : callGen[c] > 0 => callGen'[c] = callGen[c]
  BY <1>2 DEF IInv, LateSteps
<1>8. LateSteps' /\ ClearedRunStaysCleared'
  BY <1>1, <1>2, <1>7
  DEF IInv, LateSteps, MadeLate, ClearedRunStaysCleared, storeVars, chainVars
<1> QED  BY <1>3, <1>4, <1>5, <1>6, <1>8 DEF IInv

\* A step that is noted, with its spend or without: DispatchReused, StepResolves.
LEMMA StepSaving ==
    ASSUME IInv, NEW c \in Calls, stage[c] \in {"dispatching", "waiting"}, StepSaves(c),
           UNCHANGED <<storeVars, callGen, loadVars, job, runVars>>,
           \/ UNCHANGED spendVars
           \/ AddSpend(Cost[TaskOf[c]])
    PROVE  IInv'
<1> USE OrchestratorAssumption
<1>1. /\ stage' = [stage EXCEPT ![c] = "saving"]
      /\ checkpoints' = [checkpoints EXCEPT ![callGen[c]][StepOf[c]] = TaskOf[c]]
      /\ Enqueue(c)
  BY DEF StepSaves, To
<1>2. TaskOf[c] \in Tasks /\ TaskOf[c] # NoTask /\ StepOf[c] \in Steps /\ Cost[TaskOf[c]] \in Nat
  OBVIOUS
<1>3. totals \in Nat /\ charged \in Nat
  BY DEF IInv, TypeOK
<1>4. PICK n \in Nat : totals' = totals + n /\ charged' = charged + n
  BY <1>2, <1>3 DEF spendVars, AddSpend
<1>41. stop' \in BOOLEAN /\ CapIsNoticed'
  BY DEF spendVars, AddSpend, IInv, TypeOK, CapIsNoticed
<1>5. saveChain' \in Seq(Entry) /\ ChainIsSound'
  <2>1. c \in Entry /\ c # Clear
    BY DEF Entry, Clear
  <2> QED  BY <1>1, <2>1, ChainAppends DEF runVars
<1>6. checkpoints' \in [0 .. MaxClears -> [Steps -> Tasks \cup {NoTask}]]
  BY <1>1, <1>2 DEF IInv, TypeOK
<1>7. \A g \in 0 .. MaxClears, s \in Steps :
         \/ checkpoints'[g][s] = checkpoints[g][s]
         \/ g = callGen[c] /\ s = StepOf[c] /\ checkpoints'[g][s] = TaskOf[c]
  BY <1>1, <1>2 DEF IInv, TypeOK
<1>8. TypeOK'
  <2>1. /\ stage' \in [Calls -> Stages]
        /\ {stop, cleared, halted, wiped}' \subseteq BOOLEAN
    BY <1>1, <1>41 DEF IInv, TypeOK, Stages, runVars, storeVars
  <2>2. totals' \in Nat /\ charged' \in Nat
    BY <1>3, <1>4
  <2> QED
    BY <1>5, <1>6, <2>1, <2>2 DEF IInv, TypeOK, Entry, storeVars, loadVars, runVars
<1>9. LoadIsSound'
  BY DEF IInv, LoadIsSound, loadVars, runVars
<1>10. KnowsTheStore'
  <2>1. ASSUME NEW record, record.spend \in Nat, Knows(record)
        PROVE  /\ record.spend <= totals'
               /\ \A s \in Steps : record.steps[s] # NoTask => checkpoints'[0][s] # NoTask
    BY <1>2, <1>3, <1>4, <1>7, <2>1 DEF Knows
  <2>2. stored.spend \in Nat /\ saving.spend \in Nat
    BY DEF IInv, TypeOK, Records
  <2>3. /\ stored' = stored /\ saving' = saving /\ cleared' = cleared /\ loading' = loading
        /\ job' = job
    BY DEF storeVars, runVars, loadVars
  <2> QED  BY <2>1, <2>2, <2>3 DEF IInv, KnowsTheStore, Knows
<1>11. SpendRestoredOnce'
  <2>1. stored' = stored /\ loading' = loading /\ stored.spend \in Nat
    BY DEF storeVars, loadVars, IInv, TypeOK, Records
  <2> QED  BY <1>3, <1>4, <2>1 DEF IInv, SpendRestoredOnce
<1>12. LateSteps'
  <2>1. \A d \in Calls : stage'[d] = "idle" => stage[d] = "idle"
    BY <1>1 DEF IInv, TypeOK
  <2>2. ASSUME NEW g \in 1 .. MaxClears PROVE MadeLate(checkpoints[g])'
    <3> SUFFICES ASSUME NEW s \in Steps, checkpoints'[g][s] # NoTask
                 PROVE  \E d \in Calls : /\ callGen'[d] > 0 /\ StepOf[d] = s
                                         /\ TaskOf[d] = checkpoints'[g][s]
      BY DEF MadeLate
    <3>1. CASE checkpoints'[g][s] = checkpoints[g][s]
      BY <3>1 DEF IInv, LateSteps, MadeLate
    <3>2. CASE g = callGen[c] /\ s = StepOf[c] /\ checkpoints'[g][s] = TaskOf[c]
      BY <3>2
    <3>3. g \in 0 .. MaxClears
      OBVIOUS
    <3> QED  BY <1>7, <3>1, <3>2, <3>3
  <2> QED  BY <2>1, <2>2 DEF IInv, LateSteps, MadeLate, storeVars, runVars
<1>13. ClearedRunStaysCleared'
  BY DEF IInv, ClearedRunStaysCleared, storeVars
<1> QED  BY <1>41, <1>5, <1>8, <1>9, <1>10, <1>11, <1>12, <1>13 DEF IInv

\* recordSpend and clear, which queue a save or a clear of their own.
LEMMA CallerSteps ==
    ASSUME IInv, RecordSpend \/ CallClear
    PROVE  IInv'
<1> USE OrchestratorAssumption
<1>1. totals \in Nat /\ charged \in Nat
  BY DEF IInv, TypeOK
<1>2. PICK n \in Nat : totals' = totals + n /\ charged' = charged + n
  BY <1>1 DEF RecordSpend, AddSpend, CallClear, spendVars
<1>21. stop' \in BOOLEAN /\ CapIsNoticed'
  BY DEF RecordSpend, AddSpend, CallClear, spendVars, IInv, TypeOK, CapIsNoticed
<1>3. UNCHANGED <<storeVars, callVars, checkpoints, loadVars, job, generation, cleared,
                  halted, crashes>>
  BY DEF RecordSpend, CallClear, runVars
<1>4. saveChain' \in Seq(Entry) /\ ChainIsSound'
  <2>1. Background # Clear /\ Background \in Entry /\ Clear \in Entry
    BY DEF Background, Clear, Entry
  <2>2. CASE RecordSpend
    BY <1>3, <2>1, <2>2, ChainAppends DEF RecordSpend
  <2>3. CASE CallClear
    BY <1>3, <2>1, <2>3, ChainAppends DEF CallClear
  <2> QED  BY <2>2, <2>3
<1>5. TypeOK'
  <2>1. records' \in 0 .. MaxRecords
    BY DEF RecordSpend, CallClear, runVars, IInv, TypeOK
  <2>2. {stop, cleared, halted, wiped}' \subseteq BOOLEAN
    BY <1>21, <1>3 DEF IInv, TypeOK, storeVars
  <2>3. totals' \in Nat /\ charged' \in Nat
    BY <1>1, <1>2
  <2> QED
    BY <1>3, <1>4, <2>1, <2>2, <2>3 DEF IInv, TypeOK, Entry, storeVars, callVars, loadVars
<1>6. LoadIsSound'
  BY <1>3 DEF IInv, LoadIsSound, loadVars
<1>7. KnowsTheStore'
  <2>1. stored.spend \in Nat /\ saving.spend \in Nat
    BY DEF IInv, TypeOK, Records
  <2> QED  BY <1>1, <1>2, <1>3, <2>1 DEF IInv, KnowsTheStore, Knows, storeVars, loadVars
<1>8. SpendRestoredOnce'
  <2>1. stored' = stored /\ loading' = loading /\ stored.spend \in Nat
    BY <1>3 DEF storeVars, loadVars, IInv, TypeOK, Records
  <2> QED  BY <1>1, <1>2, <2>1 DEF IInv, SpendRestoredOnce
<1>9. LateSteps' /\ ClearedRunStaysCleared'
  BY <1>3 DEF IInv, LateSteps, MadeLate, ClearedRunStaysCleared, storeVars, callVars
<1> QED  BY <1>21, <1>4, <1>5, <1>6, <1>7, <1>8, <1>9 DEF IInv

\* store.load answers.  The load that is applied is the first instance's, or the
\* retry of a failed one: no clear has happened.
LEMMA LoadAnswers ==
    ASSUME IInv, LoadSucceeds \/ LoadFails
    PROVE  IInv'
<1> USE OrchestratorAssumption
<1>1. NoLoad \in Nat /\ loadGen # NoLoad /\ loadGen' = NoLoad /\ MaxClears \in Nat
      /\ NoLoad = MaxClears + 1 /\ generation \in 0 .. MaxClears
  BY DEF LoadSucceeds, LoadFails, NoLoad, IInv, TypeOK
<1>2. loadGen = generation => /\ loading = "pending" /\ ~cleared /\ generation = 0
                              /\ job \notin {"saving", "clearing"}
  BY DEF IInv, LoadIsSound
<1>3. CASE LoadSucceeds /\ loadGen = generation
  <2>1. /\ loading' = "done" /\ checkpoints' = [checkpoints EXCEPT ![0] = stored.steps]
        /\ totals' = totals + stored.spend
        /\ UNCHANGED <<storeVars, callVars, chainVars, runVars, charged>>
    BY <1>2, <1>3 DEF LoadSucceeds
  <2>2. stop' \in BOOLEAN /\ CapIsNoticed'
    BY <1>3 DEF LoadSucceeds, CapIsNoticed
  <2>3. /\ stored.spend \in Nat /\ stored.steps \in [Steps -> Tasks \cup {NoTask}]
        /\ totals \in Nat /\ charged = totals + stored.spend
    BY <1>2, <1>3 DEF IInv, TypeOK, Records, SpendRestoredOnce
  <2>4. /\ checkpoints'[0] = stored.steps
        /\ \A g \in 1 .. MaxClears : checkpoints'[g] = checkpoints[g]
        /\ checkpoints' \in [0 .. MaxClears -> [Steps -> Tasks \cup {NoTask}]]
    BY <1>1, <2>1, <2>3 DEF IInv, TypeOK
  <2>5. TypeOK'
    <3>1. totals' \in Nat
      BY <2>1, <2>3
    <3>2. {stop, cleared, halted, wiped}' \subseteq BOOLEAN
      BY <2>1, <2>2 DEF IInv, TypeOK, storeVars, runVars
    <3>3. loadGen' \in 0 .. NoLoad
      BY <1>1
    <3> QED
      BY <2>1, <2>4, <3>1, <3>2, <3>3
      DEF IInv, TypeOK, storeVars, callVars, chainVars, runVars
  <2>6. LoadIsSound' /\ ChainIsSound'
    BY <1>1, <1>2, <1>3, <2>1 DEF IInv, LoadIsSound, ChainIsSound, chainVars, runVars
  <2>7. KnowsTheStore' /\ SpendRestoredOnce'
    BY <1>2, <1>3, <2>1, <2>3, <2>4
    DEF KnowsTheStore, Knows, SpendRestoredOnce, storeVars, chainVars
  <2>8. LateSteps' /\ ClearedRunStaysCleared'
    BY <2>1, <2>4
    DEF IInv, LateSteps, MadeLate, ClearedRunStaysCleared, storeVars, callVars, chainVars,
        runVars
  <2> QED  BY <2>2, <2>5, <2>6, <2>7, <2>8 DEF IInv
<1>4. CASE LoadFails /\ loadGen = generation
  <2>1. /\ loading' = "no"
        /\ \A c \in Calls : stage'[c] = stage[c] \/ stage'[c] = "rejected"
        /\ stage' \in [Calls -> Stages]
        /\ UNCHANGED <<storeVars, callGen, checkpoints, spendVars, runVars>>
    BY <1>4 DEF LoadFails, IInv, TypeOK, Stages
  <2>2. /\ saveChain' \in Seq(Entry) /\ ChainIsSound'
        /\ job' \in {"none", "loading", "saving", "clearing"}
        /\ job' \notin {"saving", "clearing"}
    <3>1. CASE job = "loading"
      <4>1. job' = "none" /\ saveChain' = Tail(saveChain) /\ generation' = generation
        BY <1>4, <3>1 DEF LoadFails, runVars
      <4> QED  BY <3>1, <4>1, ChainHeadEnds
    <3>2. CASE job # "loading"
      <4>1. UNCHANGED chainVars /\ generation' = generation
        BY <1>4, <3>2 DEF LoadFails, runVars
      <4> QED  BY <1>2, <1>4, <4>1 DEF chainVars, IInv, TypeOK, ChainIsSound, Entry
    <3> QED  BY <3>1, <3>2
  <2>3. TypeOK'
    BY <1>1, <2>1, <2>2 DEF IInv, TypeOK, Entry, storeVars, spendVars, runVars
  <2>4. LoadIsSound'
    BY <1>1, <1>2, <1>4, <2>1, <2>2 DEF LoadIsSound, runVars, IInv
  <2>5. KnowsTheStore' /\ CapIsNoticed' /\ SpendRestoredOnce'
    BY <1>2, <1>4, <2>1, <2>2
    DEF IInv, KnowsTheStore, CapIsNoticed, SpendRestoredOnce, storeVars, spendVars
  <2>6. LateSteps' /\ ClearedRunStaysCleared'
    BY <2>1, <2>2
    DEF IInv, LateSteps, MadeLate, ClearedRunStaysCleared, storeVars, runVars
  <2> QED  BY <2>2, <2>3, <2>4, <2>5, <2>6 DEF IInv
<1>5. CASE loadGen # generation
  <2>1. UNCHANGED <<storeVars, callVars, checkpoints, spendVars, chainVars, runVars, loading>>
    BY <1>5 DEF LoadSucceeds, LoadFails, callVars, spendVars
  <2>2. TypeOK' /\ LoadIsSound'
    BY <1>1, <2>1
    DEF IInv, TypeOK, LoadIsSound, storeVars, callVars, spendVars, chainVars, runVars
  <2>3. ChainIsSound' /\ KnowsTheStore' /\ CapIsNoticed' /\ SpendRestoredOnce'
    BY <2>1
    DEF IInv, ChainIsSound, KnowsTheStore, Knows, CapIsNoticed, SpendRestoredOnce,
        storeVars, spendVars, chainVars, runVars
  <2>4. LateSteps' /\ ClearedRunStaysCleared'
    BY <2>1
    DEF IInv, LateSteps, MadeLate, ClearedRunStaysCleared, storeVars, callVars, chainVars,
        runVars
  <2> QED  BY <2>2, <2>3, <2>4 DEF IInv
<1> QED  BY <1>3, <1>4, <1>5

\* A save waits for the load, or starts with a snapshot of this instance.
LEMMA SaveBegins ==
    ASSUME IInv, SaveAwaitsLoad \/ SaveStarts
    PROVE  IInv'
<1> USE OrchestratorAssumption
<1>1. CASE SaveAwaitsLoad
  <2>1. /\ job = "none" /\ job' = "loading" /\ saveChain # <<>> /\ Head(saveChain) # Clear
        /\ UNCHANGED <<storeVars, callVars, checkpoints, spendVars, saveChain, runVars>>
    BY <1>1 DEF SaveAwaitsLoad, NextIsSave
  <2>2. \/ UNCHANGED loadVars
        \/ loading = "no" /\ loading' = "pending" /\ loadGen' = generation
    BY <1>1 DEF SaveAwaitsLoad, EnsureLoading
  <2>3. TypeOK'
    BY <2>1, <2>2 DEF IInv, TypeOK, NoLoad, storeVars, callVars, spendVars, runVars, loadVars
  <2>4. LoadIsSound' /\ ChainIsSound'
    BY <2>1, <2>2 DEF IInv, LoadIsSound, ChainIsSound, TypeOK, runVars, loadVars
  <2>5. KnowsTheStore' /\ CapIsNoticed' /\ SpendRestoredOnce'
    BY <2>1, <2>2
    DEF IInv, KnowsTheStore, Knows, CapIsNoticed, SpendRestoredOnce, storeVars, spendVars,
        runVars, loadVars
  <2>6. LateSteps' /\ ClearedRunStaysCleared'
    BY <2>1
    DEF IInv, LateSteps, MadeLate, ClearedRunStaysCleared, storeVars, callVars, runVars
  <2> QED  BY <2>3, <2>4, <2>5, <2>6 DEF IInv
<1>2. CASE SaveStarts
  <2>1. /\ job = "loading" /\ loading = "done" /\ job' = "saving"
        /\ saving' = [present |-> TRUE, steps |-> checkpoints[generation], spend |-> totals]
        /\ ~(cleared /\ checkpoints[generation] = Empty)
        /\ UNCHANGED <<stored, wiped, callVars, checkpoints, spendVars, loadVars, saveChain,
                      runVars>>
    BY <1>2 DEF SaveStarts, Snapshot, checkpoint
  <2>2. TypeOK'
    BY <2>1 DEF IInv, TypeOK, Records, callVars, spendVars, runVars, loadVars
  <2>3. LoadIsSound' /\ ChainIsSound'
    BY <2>1 DEF IInv, LoadIsSound, ChainIsSound, runVars, loadVars
  <2>4. KnowsTheStore'
    <3>1. ~cleared => generation = 0
      BY DEF IInv, LoadIsSound
    <3>2. totals \in Nat
      BY DEF IInv, TypeOK
    <3> QED
      BY <2>1, <3>1, <3>2 DEF IInv, KnowsTheStore, Knows, spendVars, runVars, loadVars
  <2>5. CapIsNoticed' /\ SpendRestoredOnce'
    BY <2>1 DEF IInv, CapIsNoticed, SpendRestoredOnce, spendVars, loadVars
  <2>6. LateSteps' /\ ClearedRunStaysCleared'
    <3>1. cleared => generation \in 1 .. MaxClears
      BY DEF IInv, TypeOK, LoadIsSound
    <3> QED
      BY <2>1, <3>1
      DEF IInv, LateSteps, MadeLate, ClearedRunStaysCleared, callVars, runVars
  <2> QED  BY <2>2, <2>3, <2>4, <2>5, <2>6 DEF IInv
<1> QED  BY <1>1, <1>2

\* The head of the chain ends: a save skipped, done or failed, a clear done or failed.
LEMMA HeadsEnd ==
    ASSUME IInv,
           SaveSkipped \/ SaveSucceeds \/ SaveFails \/ ClearSucceeds \/ ClearFails
    PROVE  IInv'
<1> USE OrchestratorAssumption
<1>1. /\ job # "none" /\ loading = "done" /\ job' = "none" /\ saveChain' = Tail(saveChain)
      /\ UNCHANGED <<saving, callGen, checkpoints, spendVars, loadVars, runVars>>
  BY DEF SaveSkipped, SaveSucceeds, SaveFails, ClearSucceeds, ClearFails, HeadEnds, storeVars,
         IInv, LoadIsSound
<1>2. /\ stage' \in [Calls -> Stages]
      /\ \A c \in Calls : stage'[c] = "idle" => stage[c] = "idle"
  BY DEF SaveSkipped, SaveSucceeds, SaveFails, ClearSucceeds, ClearFails, HeadEnds, IInv, TypeOK,
         Stages
<1>3. \/ UNCHANGED <<stored, wiped>>
      \/ job = "saving" /\ stored' = saving /\ wiped' = wiped
      \/ job = "clearing" /\ stored' = NoRecord /\ wiped' = TRUE
  BY DEF SaveSkipped, SaveSucceeds, SaveFails, ClearSucceeds, ClearFails, storeVars
<1>4. saveChain' \in Seq(Entry) /\ ChainIsSound'
  BY <1>1, ChainHeadEnds DEF runVars
<1>5. NoRecord \in Records
  BY DEF NoRecord, Records, Empty
<1>6. TypeOK'
  BY <1>1, <1>2, <1>3, <1>4, <1>5 DEF IInv, TypeOK, Entry, spendVars, loadVars, runVars
<1>7. LoadIsSound' /\ CapIsNoticed' /\ SpendRestoredOnce'
  BY <1>1 DEF IInv, LoadIsSound, CapIsNoticed, SpendRestoredOnce, spendVars, loadVars, runVars
<1>8. KnowsTheStore'
  <2>1. job = "clearing" => cleared
    BY DEF IInv, LateSteps
  <2> QED
    BY <1>1, <1>3, <2>1 DEF IInv, KnowsTheStore, Knows, spendVars, loadVars, runVars
<1>9. LateSteps'
  BY <1>1, <1>2, <1>3 DEF IInv, LateSteps, MadeLate, runVars
<1>10. ClearedRunStaysCleared'
  <2>1. CASE job = "saving" /\ stored' = saving /\ wiped' = wiped
    BY <1>1, <2>1 DEF IInv, LateSteps, MadeLate, ClearedRunStaysCleared
  <2>2. CASE job = "clearing" /\ stored' = NoRecord /\ wiped' = TRUE
    BY <2>2 DEF ClearedRunStaysCleared, NoRecord
  <2>3. CASE UNCHANGED <<stored, wiped>>
    BY <1>1, <2>3 DEF IInv, ClearedRunStaysCleared
  <2> QED  BY <1>3, <2>1, <2>2, <2>3
<1> QED  BY <1>4, <1>6, <1>7, <1>8, <1>9, <1>10 DEF IInv

\* A clear starts a new generation, with an empty checkpoint of its own.
LEMMA ClearBegins ==
    ASSUME IInv, ClearStarts
    PROVE  IInv'
<1> USE OrchestratorAssumption
<1>1. /\ job = "none" /\ job' = "clearing" /\ generation' = generation + 1
      /\ cleared' = TRUE /\ totals' = 0 /\ charged' = 0 /\ stop' = FALSE /\ loading' = "done"
      /\ UNCHANGED <<storeVars, callVars, checkpoints, loadGen, saveChain, halted, records,
                    crashes>>
  BY DEF ClearStarts
<1>2. ChainIsSound' /\ saveChain' \in Seq(Entry) /\ generation' \in 1 .. MaxClears
  BY ChainClearStarts
<1>3. MaxClears \in Nat /\ NoLoad = MaxClears + 1 /\ generation \in Nat /\ Cap \in Nat \ {0}
  BY DEF NoLoad, IInv, TypeOK
<1>4. TypeOK'
  <2>1. {stop, cleared, halted, wiped}' \subseteq BOOLEAN
    BY <1>1 DEF IInv, TypeOK, storeVars
  <2>2. /\ stage' \in [Calls -> Stages] /\ callGen' \in [Calls -> 0 .. MaxClears]
        /\ stored' \in Records /\ saving' \in Records
        /\ checkpoints' \in [0 .. MaxClears -> [Steps -> Tasks \cup {NoTask}]]
    BY <1>1 DEF IInv, TypeOK, storeVars, callVars
  <2>3. /\ loadGen' \in 0 .. NoLoad /\ generation' \in 0 .. MaxClears
        /\ totals' \in Nat /\ charged' \in Nat
        /\ records' \in 0 .. MaxRecords /\ crashes' \in 0 .. MaxCrashes
    BY <1>1, <1>2, <1>3 DEF IInv, TypeOK
  <2> QED  BY <1>1, <1>2, <2>1, <2>2, <2>3 DEF TypeOK, Entry
<1>5. LoadIsSound'
  <2>1. loadGen \in Nat
    BY <1>3 DEF IInv, TypeOK
  <2> QED  BY <1>1, <1>2, <1>3, <2>1 DEF IInv, LoadIsSound
<1>6. KnowsTheStore' /\ CapIsNoticed' /\ SpendRestoredOnce'
  BY <1>1, <1>3 DEF KnowsTheStore, CapIsNoticed, SpendRestoredOnce
<1>7. LateSteps' /\ ClearedRunStaysCleared'
  BY <1>1 DEF IInv, LateSteps, MadeLate, ClearedRunStaysCleared, storeVars, callVars
<1> QED  BY <1>2, <1>4, <1>5, <1>6, <1>7 DEF IInv

\* A fresh instance knows nothing, and owes what the store says.
LEMMA CrashStarts ==
    ASSUME IInv, Crash
    PROVE  IInv'
<1> USE OrchestratorAssumption
<1>1. NoRecord \in Records
  BY DEF NoRecord, Records, Empty
<1>2. stored' \in Records /\ charged' = stored'.spend /\ crashes' \in 0 .. MaxCrashes
  BY <1>1 DEF Crash, IInv, TypeOK
<1>3. stored'.spend \in Nat
  BY <1>2 DEF Records
<1>4. saveChain' = <<>> /\ saveChain' \in Seq(Entry)
  BY DEF Crash, FreshInstance
<1>5. Cardinality(ClearsIn(saveChain')) = 0
  <2>1. ClearsIn(saveChain') = {}
    BY <1>4 DEF ClearsIn
  <2> QED  BY <2>1, FS_EmptySet
<1>6. TypeOK'
  <2>1. {stop, cleared, halted, wiped}' \subseteq BOOLEAN
    BY DEF Crash, FreshInstance
  <2>2. checkpoints' \in [0 .. MaxClears -> [Steps -> Tasks \cup {NoTask}]]
    BY DEF Crash, FreshInstance, Empty
  <2>3. /\ loadGen' \in 0 .. NoLoad /\ records' \in 0 .. MaxRecords
        /\ generation' \in 0 .. MaxClears /\ totals' \in Nat /\ charged' \in Nat
    BY <1>2, <1>3 DEF Crash, FreshInstance, NoLoad
  <2>4. /\ stage' \in [Calls -> Stages] /\ callGen' \in [Calls -> 0 .. MaxClears]
        /\ saving' \in Records
        /\ loading' \in {"no", "pending", "done"}
        /\ job' \in {"none", "loading", "saving", "clearing"}
    BY <1>1 DEF Crash, FreshInstance, Stages
  <2> QED
    BY <1>2, <1>4, <2>1, <2>2, <2>3, <2>4 DEF TypeOK, Entry
<1>7. ChainIsSound'
  BY <1>5 DEF Crash, FreshInstance, ChainIsSound
<1>8. LoadIsSound' /\ KnowsTheStore' /\ CapIsNoticed'
  BY DEF Crash, FreshInstance, LoadIsSound, NoLoad, KnowsTheStore, CapIsNoticed
<1>9. SpendRestoredOnce'
  BY <1>2, <1>3 DEF Crash, FreshInstance, SpendRestoredOnce
<1>10. LateSteps' /\ ClearedRunStaysCleared'
  BY DEF Crash, FreshInstance, LateSteps, MadeLate, Empty, ClearedRunStaysCleared
<1> QED  BY <1>6, <1>7, <1>8, <1>9, <1>10 DEF IInv

-----------------------------------------------------------------------------
LEMMA StepSteps ==
    ASSUME IInv, NEW c \in Calls, DispatchReused(c) \/ StepResolves(c)
    PROVE  IInv'
BY StepSaving DEF DispatchReused, StepResolves

LEMMA IInvStep ==
    IInv /\ [Next]_vars => IInv'
<1> SUFFICES ASSUME IInv, [Next]_vars PROVE IInv'
  OBVIOUS
<1>1. CASE UNCHANGED vars
  BY <1>1
  DEF vars, storeVars, callVars, spendVars, loadVars, chainVars, runVars, IInv, TypeOK,
      ChainIsSound, LoadIsSound, KnowsTheStore, Knows, CapIsNoticed, SpendRestoredOnce,
      LateSteps, MadeLate, ClearedRunStaysCleared
<1>2. CASE Next
  BY <1>2, QuietSteps, StepSteps, CallerSteps, LoadAnswers, SaveBegins, HeadsEnd, ClearBegins,
     CrashStarts
  DEF Next, CallStepOn, StoreStep
<1> QED  BY <1>1, <1>2

LEMMA IInvAlways ==
    Spec => []IInv
BY IInvInit, IInvStep, PTL DEF Spec

\* Only one step dispatches, and not before it looked at the checkpoint and the cap.
LEMMA DispatchLooks ==
    ASSUME IInv, [Next]_vars, NEW c \in Calls, Dispatches(c)
    PROVE  /\ callGen[c] = generation /\ loading = "done" /\ ~stop
           /\ checkpoints[generation][StepOf[c]] = NoTask
<1>1. stage[c] = "loading" /\ stage'[c] = "dispatching" /\ stage \in [Calls -> Stages]
  BY DEF Dispatches, IInv, TypeOK
<1>2. StepDispatched(c)
  <2>1. ASSUME NEW d \in Calls,
               \/ CallStep(d) \/ StepRefused(d) \/ StepReplayed(d) \/ DispatchReused(d)
               \/ DispatchWaited(d) \/ StepFails(d) \/ StepResolves(d)
        PROVE  FALSE
    BY <1>1, <2>1
    DEF CallStep, StepRefused, StepReplayed, DispatchReused, DispatchWaited, StepFails,
        StepResolves, StepSaves, To
  <2>2. ASSUME NEW d \in Calls, StepDispatched(d) PROVE d = c
    BY <1>1, <2>2 DEF StepDispatched, To
  <2>3. CASE RecordSpend \/ CallClear \/ Halt
    BY <1>1, <2>3 DEF RecordSpend, CallClear, Halt, callVars
  <2>4. CASE StoreStep
    BY <1>1, <2>4
    DEF StoreStep, LoadSucceeds, LoadFails, SaveAwaitsLoad, SaveSkipped, SaveStarts,
        SaveSucceeds, SaveFails, ClearStarts, ClearSucceeds, ClearFails, HeadEnds, callVars
  <2>5. CASE Crash
    BY <1>1, <2>5 DEF Crash, FreshInstance
  <2>6. CASE UNCHANGED vars
    BY <1>1, <2>6 DEF vars, callVars
  <2> QED  BY <2>1, <2>2, <2>3, <2>4, <2>5, <2>6 DEF Next, CallStepOn
<1> QED  BY <1>2 DEF StepDispatched, LoadedFor, checkpoint

-----------------------------------------------------------------------------
(* The spend covers the steps.                                             *)

Units(tasks) == UNION {{t} \X (1 .. Cost[t]) : t \in tasks}

LEMMA UnitsAreFinite ==
    ASSUME NEW A \in SUBSET Tasks, IsFiniteSet(A)
    PROVE  IsFiniteSet(Units(A)) /\ CostOfTasks(A) = Cardinality(Units(A))
           /\ CostOfTasks(A) \in Nat
<1> DEFINE h == [t \in A |-> {t} \X (1 .. Cost[t])]
           P == {{t} \X (1 .. Cost[t]) : t \in A}
<1>1. h \in Surjection(A, P)
  <2>1. h \in [A -> P] /\ \A p \in P : \E t \in A : h[t] = p
    OBVIOUS
  <2> QED  BY <2>1 DEF Surjection
<1>2. ASSUME NEW n \in Nat, NEW t PROVE IsFiniteSet({t} \X (1 .. n))
  <2>1. IsFiniteSet(1 .. n)
    BY FS_Interval
  <2>2. IsFiniteSet({t})
    BY FS_Singleton
  <2> QED  BY <2>1, <2>2, FS_Product
<1>3. ASSUME NEW p \in P PROVE IsFiniteSet(p)
  <2>1. PICK t \in A : p = {t} \X (1 .. Cost[t])
    OBVIOUS
  <2>2. Cost[t] \in Nat
    BY OrchestratorAssumption
  <2> QED  BY <1>2, <2>1, <2>2
<1> HIDE DEF h
<1>4. IsFiniteSet(P)
  BY <1>1, FS_Surjection
<1>5. IsFiniteSet(UNION P)
  BY <1>3, <1>4, FS_UNION
<1> QED  BY <1>5, FS_CardinalityType DEF Units, CostOfTasks

\* Fewer tasks cost no more, and one more no more than its cost.
LEMMA FewerCostNoMore ==
    ASSUME NEW A \in SUBSET Tasks, IsFiniteSet(A), NEW B \in SUBSET A
    PROVE  CostOfTasks(B) <= CostOfTasks(A)
<1>1. IsFiniteSet(B)
  BY FS_Subset
<1>2. Units(B) \subseteq Units(A)
  BY DEF Units
<1> QED  BY <1>1, <1>2, UnitsAreFinite, FS_Subset

LEMMA OneMoreCosts ==
    ASSUME NEW A \in SUBSET Tasks, IsFiniteSet(A), NEW t \in Tasks
    PROVE  CostOfTasks(A \cup {t}) <= CostOfTasks(A) + Cost[t]
<1> DEFINE own == {t} \X (1 .. Cost[t])
<1>1. Cost[t] \in Nat
  BY OrchestratorAssumption
<1>2. IsFiniteSet(own) /\ Cardinality(own) = Cost[t]
  <2>1. IsFiniteSet(1 .. Cost[t]) /\ Cardinality(1 .. Cost[t]) = Cost[t]
    BY <1>1, FS_Interval
  <2>2. IsFiniteSet({t}) /\ Cardinality({t}) = 1
    BY FS_Singleton
  <2>3. Cardinality(own) = 1 * Cardinality(1 .. Cost[t]) /\ IsFiniteSet(own)
    BY <2>1, <2>2, FS_Product
  <2> QED  BY <1>1, <2>1, <2>3
<1>3. Units(A \cup {t}) = Units(A) \cup own
  BY DEF Units
<1> HIDE DEF own
<1>4. IsFiniteSet(A \cup {t})
  BY FS_AddElement
<1>5. /\ IsFiniteSet(Units(A)) /\ Cardinality(Units(A)) \in Nat
      /\ CostOfTasks(A) = Cardinality(Units(A))
      /\ CostOfTasks(A \cup {t}) = Cardinality(Units(A \cup {t}))
  BY <1>4, UnitsAreFinite
<1>6. Cardinality(Units(A) \cap own) \in Nat
  BY <1>2, FS_Subset, FS_CardinalityType
<1>7. Cardinality(Units(A) \cup own) =
          Cardinality(Units(A)) + Cardinality(own) - Cardinality(Units(A) \cap own)
  BY <1>2, <1>5, FS_Union
<1>8. PICK a \in Nat, b \in Nat, both \in Nat :
         a = Cardinality(Units(A)) /\ b = Cost[t] /\ both = Cardinality(Units(A) \cap own)
  BY <1>1, <1>5, <1>6
<1>9. CostOfTasks(A \cup {t}) = a + b - both /\ CostOfTasks(A) = a
  BY <1>2, <1>3, <1>5, <1>7, <1>8
<1>10. a + b - both <= a + b
  OBVIOUS
<1> QED  BY <1>8, <1>9, <1>10

LEMMA TasksAreFinite ==
    ASSUME NEW steps \in [Steps -> Tasks \cup {NoTask}]
    PROVE  TasksIn(steps) \in SUBSET Tasks /\ IsFiniteSet(TasksIn(steps))
<1> DEFINE T == {steps[s] : s \in Steps}
<1>1. IsFiniteSet(T)
  <2>1. steps \in Surjection(Steps, T)
    BY DEF Surjection
  <2> QED  BY <2>1, OrchestratorAssumption, FS_Surjection
<1> QED  BY <1>1, FS_Subset DEF TasksIn

Covers(record) == record.spend >= CostOfTasks(TasksIn(record.steps))

\* No record with a step has less spend than its steps cost: the one stored, the one
\* being stored, and the one this instance would store next.  Before the load, and
\* after a clear, its checkpoint is empty.
Paid ==
    /\ Covers(stored)
    /\ job = "saving" => Covers(saving)
    /\ totals >= CostOfTasks(TasksIn(checkpoints[generation]))
    /\ loading # "done" => checkpoints[generation] = Empty
    /\ \A g \in 0 .. MaxClears : g > generation => checkpoints[g] = Empty
    /\ \A c \in Calls :
          /\ callGen[c] <= generation
          /\ stage[c] \in {"dispatching", "waiting"} /\ callGen[c] = generation =>
                loading = "done"

LEMMA NothingCostsNothing == CostOfTasks(TasksIn(Empty)) = 0 /\ Covers(NoRecord)
<1>1. TasksIn(Empty) = {}
  BY DEF TasksIn, Empty
<1>2. CostOfTasks({}) = 0
  <2>1. UNION {{t} \X (1 .. Cost[t]) : t \in {}} = {}
    OBVIOUS
  <2> QED  BY <2>1, FS_EmptySet DEF CostOfTasks
<1> QED  BY <1>1, <1>2 DEF Covers, NoRecord

LEMMA PaidInit == Init => Paid
<1> SUFFICES ASSUME Init PROVE Paid
  OBVIOUS
<1> QED  BY NothingCostsNothing, OrchestratorAssumption DEF Init, Paid

\* A step that is noted: its task was paid for with this step, or with another one of
\* the same checkpoint.
LEMMA NotedIsPaid ==
    ASSUME IInv, Paid, NEW c \in Calls, DispatchReused(c) \/ StepResolves(c)
    PROVE  Paid'
<1> USE OrchestratorAssumption
<1> DEFINE gen == callGen[c]
           task == TaskOf[c]
           before == TasksIn(checkpoints[generation])
           after == TasksIn(checkpoints'[generation])
<1>1. /\ stage[c] \in {"dispatching", "waiting"} /\ stage' = [stage EXCEPT ![c] = "saving"]
      /\ checkpoints' = [checkpoints EXCEPT ![gen][StepOf[c]] = task]
      /\ UNCHANGED <<stored, saving, callGen, loading, job, generation>>
  BY DEF DispatchReused, StepResolves, StepSaves, To, storeVars, loadVars, runVars
<1>2. /\ gen \in 0 .. MaxClears /\ generation \in 0 .. MaxClears /\ gen <= generation
      /\ task \in Tasks /\ StepOf[c] \in Steps /\ Cost[task] \in Nat /\ totals \in Nat
      /\ checkpoints \in [0 .. MaxClears -> [Steps -> Tasks \cup {NoTask}]]
      /\ checkpoints' \in [0 .. MaxClears -> [Steps -> Tasks \cup {NoTask}]]
      /\ stage \in [Calls -> Stages]
  BY <1>1 DEF IInv, TypeOK, Paid
<1>3. \A g \in 0 .. MaxClears : g # gen => checkpoints'[g] = checkpoints[g]
  BY <1>1, <1>2
<1>4. totals' >= CostOfTasks(after)
  <2>1. /\ before \in SUBSET Tasks /\ IsFiniteSet(before) /\ CostOfTasks(before) \in Nat
        /\ after \in SUBSET Tasks /\ IsFiniteSet(after) /\ CostOfTasks(after) \in Nat
    BY <1>2, TasksAreFinite, UnitsAreFinite
  <2>2. totals >= CostOfTasks(before)
    BY DEF Paid
  <2>3. after \subseteq before \cup {task}
    <3>1. \A s \in Steps : checkpoints'[generation][s] \in {checkpoints[generation][s], task}
      BY <1>1, <1>2
    <3> QED  BY <3>1 DEF TasksIn
  <2>4. CASE StepResolves(c)
    <3>1. totals' = totals + Cost[task]
      BY <2>4 DEF StepResolves, AddSpend
    <3>2. CostOfTasks(before \cup {task}) <= CostOfTasks(before) + Cost[task]
      BY <1>2, <2>1, OneMoreCosts
    <3>3. /\ IsFiniteSet(before \cup {task}) /\ before \cup {task} \in SUBSET Tasks
      BY <1>2, <2>1, FS_AddElement
    <3>4. /\ CostOfTasks(after) <= CostOfTasks(before \cup {task})
          /\ CostOfTasks(before \cup {task}) \in Nat
      BY <2>3, <3>3, FewerCostNoMore, UnitsAreFinite
    <3> HIDE DEF before, after, task
    <3> QED  BY <1>2, <2>1, <2>2, <3>1, <3>2, <3>4
  <2>5. CASE DispatchReused(c)
    <3>1. totals' = totals /\ task \in TasksIn(checkpoints[gen])
      BY <2>5 DEF DispatchReused, spendVars
    <3>2. after \subseteq before
      BY <1>2, <1>3, <2>3, <3>1
    <3>3. CostOfTasks(after) <= CostOfTasks(before)
      BY <2>1, <3>2, FewerCostNoMore
    <3> HIDE DEF before, after, task
    <3> QED  BY <1>2, <2>1, <2>2, <3>1, <3>3
  <2> QED  BY <2>4, <2>5
<1>5. loading = "done" \/ gen # generation
  BY <1>1 DEF Paid
<1>6. /\ loading # "done" => checkpoints'[generation] = Empty
      /\ \A g \in 0 .. MaxClears : g > generation => checkpoints'[g] = Empty
  BY <1>2, <1>3, <1>5 DEF Paid
<1>7. \A d \in Calls : stage'[d] \in {"dispatching", "waiting"} =>
                       stage[d] \in {"dispatching", "waiting"}
  BY <1>1, <1>2
<1> HIDE DEF gen, task, before
<1> QED  BY <1>1, <1>4, <1>6, <1>7 DEF Paid, Covers

\* The other steps of calls, and what their callers do.
LEMMA CallsArePaid ==
    ASSUME IInv, Paid,
           \/ \E c \in Calls :
                 \/ CallStep(c) \/ StepRefused(c) \/ StepReplayed(c)
                 \/ StepDispatched(c) \/ DispatchWaited(c) \/ StepFails(c)
           \/ RecordSpend \/ CallClear \/ Halt
    PROVE  Paid'
<1> USE OrchestratorAssumption
<1>1. UNCHANGED <<stored, saving, checkpoints, job, generation>>
  BY DEF CallStep, StepRefused, StepReplayed, StepDispatched, DispatchWaited, StepFails,
         RecordSpend, CallClear, Halt, storeVars, chainVars, runVars
<1>2. totals' >= totals /\ totals \in Nat
  <2>1. totals \in Nat
    BY DEF IInv, TypeOK
  <2> QED
    BY <2>1 DEF CallStep, StepRefused, StepReplayed, StepDispatched, DispatchWaited, StepFails,
         RecordSpend, CallClear, Halt, spendVars, AddSpend
<1>3. (loading = "done" => loading' = "done") /\ (loading # "done" => loading' # "done")
  BY DEF CallStep, StepRefused, StepReplayed, StepDispatched, DispatchWaited, StepFails,
         RecordSpend, CallClear, Halt, loadVars, EnsureLoading
<1>4. ASSUME NEW d \in Calls
      PROVE  /\ callGen'[d] <= generation
             /\ stage'[d] \in {"dispatching", "waiting"} /\ callGen'[d] = generation =>
                   loading = "done"
  <2>0. /\ stage \in [Calls -> Stages] /\ callGen \in [Calls -> 0 .. MaxClears]
        /\ generation \in 0 .. MaxClears
    BY DEF IInv, TypeOK
  <2>1. callGen'[d] \in {callGen[d], generation}
    BY <2>0 DEF CallStep, StepRefused, StepReplayed, StepDispatched, DispatchWaited, StepFails,
         RecordSpend, CallClear, Halt, callVars
  <2>2. \/ stage'[d] \notin {"dispatching", "waiting"}
        \/ callGen'[d] = callGen[d] /\ stage[d] \in {"dispatching", "waiting"}
        \/ callGen'[d] = callGen[d] /\ LoadedFor(d)
    <3>1. ASSUME NEW c \in Calls, CallStep(c) PROVE <2>2!1 \/ <2>2!2
      BY <2>0, <3>1 DEF CallStep, To
    <3>2. ASSUME NEW c \in Calls, StepRefused(c) \/ StepReplayed(c) \/ StepDispatched(c)
          PROVE  <2>2!1 \/ <2>2!2 \/ <2>2!3
      BY <2>0, <3>2 DEF StepRefused, StepReplayed, StepDispatched, To
    <3>3. ASSUME NEW c \in Calls, DispatchWaited(c) \/ StepFails(c) PROVE <2>2!1 \/ <2>2!2
      BY <2>0, <3>3 DEF DispatchWaited, StepFails, To
    <3>4. CASE RecordSpend \/ CallClear \/ Halt
      BY <2>0, <3>4 DEF RecordSpend, CallClear, Halt, callVars
    <3> QED  BY <3>1, <3>2, <3>3, <3>4
  <2> QED  BY <2>0, <2>1, <2>2 DEF Paid, LoadedFor
<1>5. CostOfTasks(TasksIn(checkpoints[generation])) \in Nat
  BY TasksAreFinite, UnitsAreFinite DEF IInv, TypeOK
<1>6. totals' >= CostOfTasks(TasksIn(checkpoints[generation]))
  <2>1. PICK n \in Nat, t \in Nat : n = CostOfTasks(TasksIn(checkpoints[generation])) /\ t = totals
    BY <1>2, <1>5
  <2>2. t >= n /\ totals' >= t
    BY <1>2, <2>1 DEF Paid
  <2>3. totals' \in Nat
    BY DEF CallStep, StepRefused, StepReplayed, StepDispatched, DispatchWaited, StepFails,
           RecordSpend, CallClear, Halt, spendVars, AddSpend, IInv, TypeOK
  <2>4. totals' >= n
    BY <2>2, <2>3
  <2> QED  BY <2>1, <2>4
<1>7. Covers(stored)' /\ (job = "saving" => Covers(saving))'
  BY <1>1 DEF Paid, Covers
<1>8. /\ (loading # "done" => checkpoints[generation] = Empty)'
      /\ (\A g \in 0 .. MaxClears : g > generation => checkpoints[g] = Empty)'
  BY <1>1, <1>3 DEF Paid
<1> QED  BY <1>1, <1>3, <1>4, <1>6, <1>7, <1>8 DEF Paid

\* store.load answers: the record that becomes the checkpoint brings its own spend.
LEMMA LoadsArePaid ==
    ASSUME IInv, Paid, LoadSucceeds \/ LoadFails
    PROVE  Paid'
<1> USE OrchestratorAssumption
<1>1. /\ UNCHANGED <<stored, saving, callGen, generation>>
      /\ stage \in [Calls -> Stages] /\ generation \in 0 .. MaxClears
      /\ checkpoints \in [0 .. MaxClears -> [Steps -> Tasks \cup {NoTask}]]
      /\ totals \in Nat /\ stored \in Records
  BY DEF LoadSucceeds, LoadFails, storeVars, callVars, runVars, IInv, TypeOK
<1>2. \A c \in Calls : stage'[c] \in {"dispatching", "waiting"} =>
                       stage[c] \in {"dispatching", "waiting"}
  BY <1>1 DEF LoadSucceeds, LoadFails, callVars, chainVars
<1>3. /\ job' = "saving" => job = "saving"
      /\ loading = "done" => loading' = "done" \/ loadGen = generation
  BY DEF LoadSucceeds, LoadFails, chainVars
<1>4. loading = "done" => loadGen # generation
  BY DEF IInv, LoadIsSound
<1>5. CASE LoadSucceeds /\ loadGen = generation
  <2>1. /\ loading' = "done" /\ totals' = totals + stored.spend
        /\ checkpoints' = [checkpoints EXCEPT ![generation] = stored.steps]
    BY <1>5 DEF LoadSucceeds
  <2>2. stored.spend \in Nat /\ stored.steps \in [Steps -> Tasks \cup {NoTask}]
    BY <1>1 DEF Records
  <2>3. checkpoints'[generation] = stored.steps
    BY <1>1, <2>1
  <2>4. PICK n \in Nat : n = CostOfTasks(TasksIn(stored.steps))
    BY <2>2, TasksAreFinite, UnitsAreFinite
  <2>5. stored.spend >= n
    BY <2>4 DEF Paid, Covers
  <2>6. totals' >= n
    BY <1>1, <2>1, <2>2, <2>5
  <2>7. totals' >= CostOfTasks(TasksIn(checkpoints'[generation']))
    BY <1>1, <2>3, <2>4, <2>6
  <2>8. \A g \in 0 .. MaxClears : g > generation' => checkpoints'[g] = Empty
    BY <1>1, <2>1 DEF Paid
  <2> QED  BY <1>1, <1>2, <1>3, <2>1, <2>7, <2>8 DEF Paid, Covers
<1>6. CASE ~(LoadSucceeds /\ loadGen = generation)
  <2>1. UNCHANGED <<totals, checkpoints>>
    BY <1>6 DEF LoadSucceeds, LoadFails, spendVars
  <2>2. loading' # "done" => loading # "done"
    BY <1>3, <1>4
  <2>3. loading # "done" => checkpoints'[generation'] = Empty
    BY <1>1, <2>1 DEF Paid
  <2> QED  BY <1>1, <1>2, <1>3, <1>4, <2>1, <2>2, <2>3 DEF Paid, Covers
<1> QED  BY <1>5, <1>6

\* The chain of saves: what is saved is what this instance has, and what is stored is
\* what was saved, or nothing.
LEMMA SavesArePaid ==
    ASSUME IInv, Paid,
           \/ SaveAwaitsLoad \/ SaveSkipped \/ SaveStarts \/ SaveSucceeds \/ SaveFails
           \/ ClearSucceeds \/ ClearFails
    PROVE  Paid'
<1> USE OrchestratorAssumption
<1>1. UNCHANGED <<callGen, checkpoints, totals, generation>>
  BY DEF SaveAwaitsLoad, SaveSkipped, SaveStarts, SaveSucceeds, SaveFails, ClearSucceeds,
         ClearFails, callVars, spendVars, runVars
<1>2. \A c \in Calls : stage'[c] \in {"dispatching", "waiting"} => stage'[c] = stage[c]
  BY DEF SaveAwaitsLoad, SaveSkipped, SaveStarts, SaveSucceeds, SaveFails, ClearSucceeds,
         ClearFails, HeadEnds, callVars
<1>3. loading' = "done" <=> loading = "done"
  BY DEF SaveAwaitsLoad, SaveSkipped, SaveStarts, SaveSucceeds, SaveFails, ClearSucceeds,
         ClearFails, EnsureLoading, loadVars
<1>4. Covers(stored)'
  <2>1. \/ stored' = stored
        \/ stored' = NoRecord
        \/ job = "saving" /\ stored' = saving
    BY DEF SaveAwaitsLoad, SaveSkipped, SaveStarts, SaveSucceeds, SaveFails, ClearSucceeds,
           ClearFails, storeVars
  <2>2. Covers(stored')
    BY <2>1, NothingCostsNothing DEF Paid
  <2> QED  BY <2>2 DEF Covers
<1>5. (job = "saving" => Covers(saving))'
  <2>1. \/ job' # "saving"
        \/ saving' = [present |-> TRUE, steps |-> checkpoints[generation], spend |-> totals]
    BY DEF SaveAwaitsLoad, SaveSkipped, SaveStarts, SaveSucceeds, SaveFails, ClearSucceeds,
           ClearFails, HeadEnds, Snapshot, checkpoint
  <2> QED  BY <2>1 DEF Paid, Covers
<1>6. totals' >= CostOfTasks(TasksIn(checkpoints'[generation']))
  BY <1>1 DEF Paid
<1>7. loading' # "done" => checkpoints'[generation'] = Empty
  BY <1>1, <1>3 DEF Paid
<1> QED  BY <1>1, <1>2, <1>3, <1>4, <1>5, <1>6, <1>7 DEF Paid

\* A clear goes on with an empty checkpoint, a crash too.
LEMMA RestartsArePaid ==
    ASSUME IInv, Paid, ClearStarts \/ Crash
    PROVE  Paid'
<1> USE OrchestratorAssumption
<1>1. generation \in 0 .. MaxClears
  BY DEF IInv, TypeOK
<1>2. CASE ClearStarts
  <2>1. /\ UNCHANGED <<stored, saving, stage, callGen, checkpoints>> /\ job' = "clearing"
        /\ generation' = generation + 1 /\ totals' = 0 /\ loading' = "done"
    BY <1>2 DEF ClearStarts, storeVars, callVars
  <2>2. generation' \in 1 .. MaxClears
    BY <1>2, ChainClearStarts
  <2>3. checkpoints'[generation'] = Empty
    BY <1>1, <2>1, <2>2 DEF Paid
  <2>4. CostOfTasks(TasksIn(checkpoints'[generation'])) = 0
    BY <2>3, NothingCostsNothing
  <2>5. \A g \in 0 .. MaxClears : g > generation' => checkpoints'[g] = Empty
    BY <1>1, <2>1 DEF Paid
  <2>6. \A c \in Calls : callGen'[c] <= generation'
    BY <1>1, <2>1 DEF Paid, IInv, TypeOK
  <2> QED  BY <2>1, <2>4, <2>5, <2>6 DEF Paid, Covers
<1>3. CASE Crash
  <2>1. \/ stored' = stored
        \/ job = "saving" /\ stored' = saving
        \/ stored' = NoRecord
    BY <1>3 DEF Crash
  <2>2. Covers(stored')
    BY <2>1, NothingCostsNothing DEF Paid
  <2>3. /\ job' = "none" /\ totals' = 0 /\ generation' = 0
        /\ checkpoints' = [g \in 0 .. MaxClears |-> Empty]
        /\ callGen' = [c \in Calls |-> 0] /\ stage' = [c \in Calls |-> "idle"]
    BY <1>3 DEF Crash, FreshInstance
  <2>4. checkpoints'[generation'] = Empty
    BY <2>3
  <2>5. CostOfTasks(TasksIn(checkpoints'[generation'])) = 0
    BY <2>4, NothingCostsNothing
  <2> QED  BY <2>2, <2>3, <2>4, <2>5 DEF Paid, Covers
<1> QED  BY <1>2, <1>3

LEMMA PaidStep ==
    ASSUME IInv, Paid, [Next]_vars
    PROVE  Paid'
<1>1. CASE UNCHANGED vars
  <2>1. UNCHANGED <<stored, saving, stage, callGen, checkpoints, totals, generation, job,
                    loading>>
    BY <1>1 DEF vars, storeVars, callVars, spendVars, loadVars, chainVars, runVars
  <2>2. totals' >= CostOfTasks(TasksIn(checkpoints'[generation']))
    BY <2>1 DEF Paid
  <2> QED  BY <2>1, <2>2 DEF Paid, Covers
<1>2. CASE Next
  BY <1>2, NotedIsPaid, CallsArePaid, LoadsArePaid, SavesArePaid, RestartsArePaid
  DEF Next, CallStepOn, StoreStep
<1> QED  BY <1>1, <1>2

-----------------------------------------------------------------------------
(* Of steps that share a task id, one is charged.                          *)

\* A step that is noted adds no task to a checkpoint but its own, and only to the
\* checkpoint it holds.
LEMMA NotedTask ==
    ASSUME IInv, NEW c \in Calls, StepSaves(c), NEW g \in 0 .. MaxClears
    PROVE  TasksIn(checkpoints'[g]) \subseteq
               TasksIn(checkpoints[g]) \cup (IF g = callGen[c] THEN {TaskOf[c]} ELSE {})
<1>1. /\ checkpoints' = [checkpoints EXCEPT ![callGen[c]][StepOf[c]] = TaskOf[c]]
      /\ checkpoints \in [0 .. MaxClears -> [Steps -> Tasks \cup {NoTask}]]
      /\ callGen[c] \in 0 .. MaxClears
  BY DEF StepSaves, IInv, TypeOK
<1>2. \A s \in Steps : \/ checkpoints'[g][s] = checkpoints[g][s]
                       \/ g = callGen[c] /\ checkpoints'[g][s] = TaskOf[c]
  BY <1>1
<1> QED  BY <1>2 DEF TasksIn

LEMMA OncePaidByCalls ==
    ASSUME IInv, NoTaskPaidTwice, NEW c \in Calls, CallStep(c) \/ CallStepOn(c)
    PROVE  NoTaskPaidTwice'
<1>0. stage \in [Calls -> Stages] /\ callGen \in [Calls -> 0 .. MaxClears]
  BY DEF IInv, TypeOK
<1>1. CASE CallStep(c) \/ StepRefused(c) \/ StepReplayed(c) \/ StepDispatched(c) \/ StepFails(c)
  <2>1. /\ checkpoints' = checkpoints
        /\ \A o \in Calls : stage'[o] = "waiting" => stage[o] = "waiting" /\ callGen'[o] = callGen[o]
    BY <1>0, <1>1
    DEF CallStep, StepRefused, StepReplayed, StepDispatched, StepFails, To
  <2> QED  BY <2>1 DEF NoTaskPaidTwice
<1>2. CASE DispatchWaited(c)
  <2>1. /\ checkpoints' = checkpoints /\ callGen' = callGen
        /\ TaskOf[c] \notin TasksIn(checkpoints[callGen[c]])
        /\ stage'[c] = "waiting" =>
              \A o \in Calls : stage[o] = "waiting" => TaskOf[o] # TaskOf[c]
        /\ \A o \in Calls \ {c} : stage'[o] = stage[o]
    BY <1>0, <1>2 DEF DispatchWaited, To
  <2> QED  BY <2>1 DEF NoTaskPaidTwice
<1>3. CASE DispatchReused(c) \/ StepResolves(c)
  <2>1. /\ StepSaves(c) /\ callGen' = callGen
        /\ stage'[c] # "waiting" /\ \A o \in Calls \ {c} : stage'[o] = stage[o]
    BY <1>0, <1>3 DEF DispatchReused, StepResolves, StepSaves, To
  <2>2. ASSUME NEW o \in Calls, stage'[o] = "waiting"
        PROVE  TaskOf[o] \notin TasksIn(checkpoints'[callGen[o]])
    <3>1. o # c /\ stage[o] = "waiting" /\ callGen[o] \in 0 .. MaxClears
      BY <1>0, <2>1, <2>2
    <3>2. TaskOf[o] \notin TasksIn(checkpoints[callGen[o]])
      BY <3>1 DEF NoTaskPaidTwice
    <3>3. callGen[o] = callGen[c] => TaskOf[o] # TaskOf[c]
      BY <1>3, <3>1, <3>2 DEF DispatchReused, StepResolves, NoTaskPaidTwice
    <3> QED  BY <2>1, <3>1, <3>2, <3>3, NotedTask
  <2> QED  BY <2>1, <2>2 DEF NoTaskPaidTwice
<1> QED  BY <1>1, <1>2, <1>3 DEF CallStepOn

\* A load that is applied meets no wait of its generation: they begin when it is done.
LEMMA OncePaidByTheRest ==
    ASSUME IInv, Paid, NoTaskPaidTwice,
           RecordSpend \/ CallClear \/ Halt \/ StoreStep \/ Crash \/ UNCHANGED vars
    PROVE  NoTaskPaidTwice'
<1>0. stage \in [Calls -> Stages] /\ callGen \in [Calls -> 0 .. MaxClears]
      /\ checkpoints \in [0 .. MaxClears -> [Steps -> Tasks \cup {NoTask}]]
  BY DEF IInv, TypeOK
<1>1. CASE LoadSucceeds
  <2>1. /\ stage' = stage /\ callGen' = callGen
        /\ \A g \in 0 .. MaxClears : g # generation => checkpoints'[g] = checkpoints[g]
        /\ loadGen # generation => checkpoints' = checkpoints
    BY <1>0, <1>1 DEF LoadSucceeds, callVars
  <2>2. ASSUME NEW c \in Calls, stage[c] = "waiting"
        PROVE  checkpoints'[callGen[c]] = checkpoints[callGen[c]]
    <3>1. callGen[c] = generation => loadGen # generation
      BY <2>2 DEF Paid, IInv, LoadIsSound
    <3>2. CASE callGen[c] = generation
      BY <2>1, <3>1, <3>2
    <3>3. CASE callGen[c] # generation
      <4>1. callGen[c] \in 0 .. MaxClears
        BY <1>0
      <4> QED  BY <2>1, <3>3, <4>1
    <3> QED  BY <3>2, <3>3
  <2> QED  BY <2>1, <2>2 DEF NoTaskPaidTwice
<1>2. CASE Crash
  BY <1>2 DEF Crash, FreshInstance, NoTaskPaidTwice
<1>3. CASE \/ RecordSpend \/ CallClear \/ Halt \/ LoadFails \/ SaveAwaitsLoad \/ SaveSkipped
           \/ SaveStarts \/ SaveSucceeds \/ SaveFails \/ ClearStarts \/ ClearSucceeds
           \/ ClearFails \/ UNCHANGED vars
  <2>1. /\ checkpoints' = checkpoints /\ callGen' = callGen
        /\ \A o \in Calls : stage'[o] = "waiting" => stage[o] = "waiting"
    BY <1>0, <1>3
    DEF RecordSpend, CallClear, Halt, LoadFails, SaveAwaitsLoad, SaveSkipped, SaveStarts,
        SaveSucceeds, SaveFails, ClearStarts, ClearSucceeds, ClearFails, HeadEnds, callVars, vars
  <2> QED  BY <2>1 DEF NoTaskPaidTwice
<1> QED  BY <1>1, <1>2, <1>3 DEF StoreStep

LEMMA OncePaidStep ==
    ASSUME IInv, Paid, NoTaskPaidTwice, [Next]_vars
    PROVE  NoTaskPaidTwice'
BY OncePaidByCalls, OncePaidByTheRest DEF Next

-----------------------------------------------------------------------------
\* The orchestrator, its store and its chain of saves keep their types, and no
\* instance starts more generations than clear() was called.
THEOREM OrchestratorTypeCorrect ==
    Spec => []TypeOK
<1>1. IInv => TypeOK
  BY DEF IInv
<1> QED  BY <1>1, IInvAlways, PTL

\* Whatever saves, loads, late steps and recorded spends a clear() overtakes, what is
\* stored after it was called after it.
THEOREM ClearIsFinal ==
    Spec => []ClearedRunStaysCleared
<1>1. IInv => ClearedRunStaysCleared
  BY DEF IInv
<1> QED  BY <1>1, IInvAlways, PTL

\* The spend saved with a record covers every step saved in it, and the saved spend is
\* added to this.totals by one load (runStep adds before it notes, memoize, load): no
\* crash, failed save or clear makes a step free or counts one twice, and no two steps
\* whose dispatches resolve with one task id both wait for its result and pay it.
THEOREM SpendStaysExact ==
    Spec => []SpendIsExact
<1>1. IInv /\ Paid /\ NoTaskPaidTwice => SpendIsExact
  BY DEF IInv, Paid, Covers, SpendIsExact, SpendCoversSteps
<1>2. Init => NoTaskPaidTwice
  BY DEF Init, NoTaskPaidTwice
<1>3. Spec => [](IInv /\ Paid /\ NoTaskPaidTwice)
  BY <1>2, IInvInit, IInvStep, PaidInit, PaidStep, OncePaidStep, PTL DEF Spec
<1> QED  BY <1>1, <1>3, PTL

\* runStep does not dispatch a step the store holds, in any instance, unless the run
\* was cleared.
THEOREM NotPaidAgain ==
    Spec => SavedStepNotPaidAgain
<1>1. IInv /\ [Next]_vars => (\A c \in Calls : Dispatches(c) =>
                                cleared \/ stored.steps[StepOf[c]] = NoTask)
  <2> SUFFICES ASSUME IInv, [Next]_vars, NEW c \in Calls, Dispatches(c), ~cleared
               PROVE  stored.steps[StepOf[c]] = NoTask
    OBVIOUS
  <2>1. loading = "done" /\ checkpoints[generation][StepOf[c]] = NoTask
    BY DispatchLooks
  <2>2. generation = 0 /\ StepOf[c] \in Steps
    BY OrchestratorAssumption DEF IInv, LoadIsSound
  <2> QED  BY <2>1, <2>2 DEF IInv, KnowsTheStore, Knows
<1> QED  BY <1>1, IInvAlways, PTL DEF Spec, SavedStepNotPaidAgain

\* runStep does not dispatch once the saved spend is at the cap, in any instance,
\* unless the run was cleared.
THEOREM CapIsKept ==
    Spec => CapSurvivesRestart
<1>1. IInv /\ [Next]_vars => (\A c \in Calls : Dispatches(c) => cleared \/ stored.spend < Cap)
  <2> SUFFICES ASSUME IInv, [Next]_vars, NEW c \in Calls, Dispatches(c), ~cleared
               PROVE  stored.spend < Cap
    OBVIOUS
  <2>1. loading = "done"
    BY DispatchLooks
  <2>2. ~(totals >= Cap)
    BY DispatchLooks DEF IInv, CapIsNoticed
  <2>3. stored.spend <= totals
    BY <2>1 DEF IInv, KnowsTheStore, Knows
  <2>4. stored.spend \in Nat /\ totals \in Nat /\ Cap \in Nat
    BY OrchestratorAssumption DEF IInv, TypeOK, Records
  <2> QED  BY <2>2, <2>3, <2>4
<1> QED  BY <1>1, IInvAlways, PTL DEF Spec, CapSurvivesRestart
=============================================================================
