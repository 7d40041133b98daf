--------------------------- MODULE MCCompletionRouter ---------------------------
(* Small instances of CompletionRouter.                                        *)
EXTENDS CompletionRouter

\* Two calls for one task, one after the other or both at once, without a signal;
\* and a fan-in of two tasks under the stop signal.
MCFourCalls == 1 .. 4
MCTaskOf    == <<"t1", "t1", "t2", "t3">>
MCSignalOf  == <<"none", "none", "stop", "stop">>

\* An orchestrator that waits for the same task twice, with its one stop signal.
MCTwoCalls     == 1 .. 2
MCSameTask     == <<"t1", "t1">>
MCOneStopSignal == <<"stop", "stop">>
=============================================================================
