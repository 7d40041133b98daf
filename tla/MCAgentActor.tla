----------------------------- MODULE MCAgentActor -----------------------------
(* Small instances of AgentActor.  Stop 1 covers the first task only, stop 2  *)
(* the second one too; the third, where there is one, is sent after both.     *)
EXTENDS AgentActor

MCTwoTasks   == {1, 2}
MCThreeTasks == {1, 2, 3}

\* The third delivery is for another agent that shares the queue.
MCSharedQueue == {1, 2}

MCSentAtOfTwo   == <<1, 2>>
MCSentAtOfThree == <<1, 2, 3>>
=============================================================================
