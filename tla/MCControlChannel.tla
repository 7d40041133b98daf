---------------------------- MODULE MCControlChannel ----------------------------
(* Small instances of ControlChannel: two tasks, the first sent before both     *)
(* stops and the second between them.                                           *)
EXTENDS ControlChannel

MCTasks  == {1, 2}
MCSentAt == <<1, 3>>
=============================================================================
