------------------------- MODULE MCWorkflowOrchestrator -------------------------
(* Small instances of WorkflowOrchestrator.                                      *)
EXTENDS WorkflowOrchestrator

\* Two steps side by side and a second call of the first one (a retry, or a
\* duplicate made while the first is under way), whose dispatch resolves with the
\* task id of the other step.
MCThreeCalls == {"c1", "c2", "c3"}
MCTwoSteps   == [c1 |-> "s1", c2 |-> "s2", c3 |-> "s1"]
MCTasks      == [c1 |-> "t1", c2 |-> "t2", c3 |-> "t2"]

\* Two steps whose dispatches resolve with the same task id.
MCTwoCalls  == {"c1", "c2"}
MCStepEach  == [c1 |-> "s1", c2 |-> "s2"]
MCOneTask   == [c1 |-> "t1", c2 |-> "t1"]

MCCost == [t1 |-> 1, t2 |-> 1]
=============================================================================
