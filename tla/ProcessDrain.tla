---------------------------- MODULE ProcessDrain ----------------------------
(***************************************************************************)
(* The shutdown of a process: a worker drains all its nodes together, once,  *)
(* then flushes telemetry and exits (process-drain.ts); the gateway runs its *)
(* one sequence, the flush its last step, for every signal it gets           *)
(* (main/gateway.ts).  A sequence runs its steps in order against one        *)
(* deadline (gracefulShutdown); a step may throw or never end, and after the *)
(* deadline the sequence goes on beside the exit.                            *)
(***************************************************************************)
EXTENDS Naturals, FiniteSets

CONSTANTS
    Sequence,    \* the nodes of a worker; the shutdowns a gateway may begin
    StepCount,   \* steps of a sequence
    MaxSignals   \* bound: SIGTERM and SIGINT received

Step == 1 .. StepCount

VARIABLES
    kind,        \* "worker" or "gateway"
    telemetry,   \* whether the telemetry SDK runs, with a SIGTERM listener of its own
    listening,   \* nodes registered; for a gateway, whether its listeners are on
    process,     \* "up", "draining", "flushing" or "gone"
    exitCode,
    signals,     \* signals received
    run,         \* sequence -> its step, its result, whether a step has thrown
    hang         \* sequence -> the step of it that never ends, or 0

drainVars == <<kind, telemetry, listening, process, exitCode, signals, run, hang>>

TypeOK ==
    /\ listening \subseteq Sequence
    /\ process \in {"up", "draining", "flushing", "gone"}
    /\ exitCode \in {"none", "clean", "unclean", "killed"}
    /\ run \in [Sequence -> [at : 0 .. StepCount + 1, failed : BOOLEAN,
                             result : {"none", "clean", "unclean"}]]
    /\ process \in {"up", "draining", "flushing"} <=> exitCode = "none"

Init ==
    /\ kind \in {"worker", "gateway"}
    /\ telemetry \in BOOLEAN
    /\ listening = {}
    /\ process = "up"
    /\ exitCode = "none"
    /\ signals = 0
    /\ run = [s \in Sequence |-> [at |-> 0, failed |-> FALSE, result |-> "none"]]
    /\ hang \in [Sequence -> {0, 1, StepCount}]

-----------------------------------------------------------------------------
\* registerNodeDrain; a node may still be starting when the drain has begun, and
\* is then not part of it.
Register(s) ==
    /\ process # "gone"
    /\ s \notin listening
    /\ kind = "gateway" => listening = {}
    /\ listening' = listening \cup {s}
    /\ UNCHANGED <<kind, telemetry, process, exitCode, signals, run, hang>>

Begin(S) == run' = [s \in Sequence |-> IF s \in S THEN [run[s] EXCEPT !.at = 1] ELSE run[s]]

Exit(code) == process' = "gone" /\ exitCode' = code

\* A signal before anything listens is fatal, but for a SIGTERM the listener of the
\* telemetry SDK takes, which only flushes.  drainProcess begins once; the gateway's
\* shutdown begins again with every signal.
Signal ==
    /\ signals < MaxSignals
    /\ process # "gone"
    /\ signals' = signals + 1
    /\ IF listening = {}
       THEN /\ Exit("killed") \/ (telemetry /\ UNCHANGED <<process, exitCode>>)
            /\ UNCHANGED run
       ELSE /\ process' = IF process = "up" THEN "draining" ELSE process
            /\ UNCHANGED exitCode
            /\ IF kind = "worker"
               THEN IF process = "up" THEN Begin(listening) ELSE UNCHANGED run
               ELSE Begin({CHOOSE s \in Sequence : run[s].at = 0})
    /\ UNCHANGED <<kind, telemetry, listening, hang>>

Runs(s) == process # "gone" /\ run[s].at \in Step

\* A gateway exits with its first result; a worker waits for every node.
Resolve(s, result) ==
    /\ run' = [run EXCEPT ![s] = result]
    /\ IF kind = "gateway" /\ result.result # "none"
       THEN Exit(result.result)
       ELSE UNCHANGED <<process, exitCode>>
    /\ UNCHANGED <<kind, telemetry, listening, signals, hang>>

Result(failed) == IF failed THEN "unclean" ELSE "clean"

\* A step ends or throws; the next one begins, also after the deadline.
StepEnds(s, throws) ==
    /\ Runs(s)
    /\ run[s].at # hang[s]
    /\ LET failed == run[s].failed \/ throws
       IN  Resolve(s, [at |-> run[s].at + 1, failed |-> failed,
                       result |-> IF run[s].at = StepCount /\ run[s].result = "none"
                                  THEN Result(failed) ELSE run[s].result])

\* Mutant: the deadline is only looked at between two steps.
Deadline_BetweenSteps(s) ==
    /\ Runs(s) /\ run[s].result = "none"
    /\ run[s].at # hang[s]
    /\ Resolve(s, [run[s] EXCEPT !.result = "unclean"])

\* The shared deadline: the sequence is reported as timed out, whatever runs.
Deadline(s) ==
    /\ Runs(s) /\ run[s].result = "none"
    /\ Resolve(s, [run[s] EXCEPT !.result = "unclean"])

\* Mutant: the first node that is done lets the process go on.
NodesDrained_First ==
    /\ kind = "worker" /\ process = "draining"
    /\ \E s \in Sequence : run[s].result # "none"
    /\ process' = "flushing"
    /\ UNCHANGED <<kind, telemetry, listening, exitCode, signals, run, hang>>

\* drainProcess after Promise.all: the flush, bounded by its own timeout.
NodesDrained ==
    /\ kind = "worker" /\ process = "draining"
    /\ \A s \in Sequence : run[s].at > 0 => run[s].result # "none"
    /\ process' = "flushing"
    /\ UNCHANGED <<kind, telemetry, listening, exitCode, signals, run, hang>>

FlushEnds ==
    /\ process = "flushing"
    /\ Exit(IF \E s \in Sequence : run[s].at > 0 /\ run[s].result # "clean"
            THEN "unclean" ELSE "clean")
    /\ UNCHANGED <<kind, telemetry, listening, signals, run, hang>>

Next ==
    \/ \E s \in Sequence :
          Register(s) \/ StepEnds(s, TRUE) \/ StepEnds(s, FALSE) \/ Deadline(s)
    \/ Signal \/ NodesDrained \/ FlushEnds

\* The timers fire and the continuation of the drain runs; steps may hang.
DrainGoesOn == NodesDrained \/ FlushEnds \/ \E s \in Sequence : Deadline(s)

Spec == Init /\ [][Next]_drainVars /\ WF_drainVars(DrainGoesOn)

-----------------------------------------------------------------------------
(* Properties.                                                             *)

\* A drain that has begun ends the process, whichever steps throw or hang.
DrainExits == process = "draining" ~> process = "gone"

\* The exit tells the truth and cuts nobody off: every node whose drain began
\* has ended all its steps or has used its deadline up, and a clean exit means
\* every one of them ended every step without an error.  (A second signal to a
\* gateway begins a second sequence beside the first and may cut it off; only
\* the sequence it exits with counts there.)
ExitIsHonest ==
    /\ kind = "worker" /\ exitCode \in {"clean", "unclean"} =>
          \A s \in Sequence : run[s].at > 0 => run[s].result # "none"
    /\ exitCode = "clean" =>
          LET done == {s \in Sequence : run[s].at > StepCount /\ ~run[s].failed}
          IN  IF kind = "worker" THEN {s \in Sequence : run[s].at > 0} \subseteq done
              ELSE done # {}

=============================================================================
