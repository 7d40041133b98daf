-------------------------- MODULE SlidingWindowBreaker --------------------------
(* src/src/infrastructure/security/sliding-window-breaker.ts with its clock:   *)
(* the timestamps of the failures, pruned lazily by each call, and the flag.   *)
(* It implements BreakerWindow, the breaker AgentActor is modelled against.    *)
EXTENDS Naturals, FiniteSets

CONSTANTS
    Threshold,      \* failures in the window that open the breaker, from 1
    WindowMs,       \* length of the window
    MaxTime,        \* bound: the clock stops here
    MaxFailures     \* bound: failures recorded in a run

VARIABLES
    now,        \* Date.now()
    failures,   \* the timestamps kept, as <<number of the failure, Date.now()>>
    opened,     \* the flag
    recorded    \* failures recorded so far, which numbers them

vars == <<now, failures, opened, recorded>>

-----------------------------------------------------------------------------
\* A failure exactly WindowMs old has left the window.  The cut-off is
\* now - WindowMs, which is below every timestamp while the clock is young.
InWindow(ts) == ts + WindowMs > now

Pruned(fs) == {f \in fs : InWindow(f[2])}

Init ==
    /\ now = 0
    /\ failures = {}
    /\ opened = FALSE
    /\ recorded = 0

\* Mutant: failures that left the window still count towards the threshold.
RecordFailureUnpruned ==
    /\ recorded < MaxFailures
    /\ now + WindowMs <= MaxTime
    /\ recorded' = recorded + 1
    /\ failures' = failures \cup {<<recorded, now>>}
    /\ opened' = (opened \/ Cardinality(failures') >= Threshold)
    /\ UNCHANGED now

RecordFailure ==
    /\ recorded < MaxFailures
    /\ now + WindowMs <= MaxTime     \* bound: the window can still pass
    /\ recorded' = recorded + 1
    /\ failures' = Pruned(failures \cup {<<recorded, now>>})
    /\ opened' = (opened \/ Cardinality(failures') >= Threshold)
    /\ UNCHANGED now

\* recordSuccess() and isOpen(), whose answer is opened'.
Refresh ==
    /\ failures' = Pruned(failures)
    /\ opened' = (opened /\ Cardinality(failures') >= Threshold)
    /\ UNCHANGED <<now, recorded>>

Tick ==
    /\ now < MaxTime
    /\ now' = now + 1
    /\ UNCHANGED <<failures, opened, recorded>>

Next == RecordFailure \/ Refresh \/ Tick

Spec == Init /\ [][Next]_vars

-----------------------------------------------------------------------------
\* The failures inside the window, and the refinement they are the count of: a
\* breaker opens at the threshold and closes only when fewer are left in the window.
InWindowCount == Cardinality(Pruned(failures))
WindowBreaker == INSTANCE BreakerWindow WITH failures <- InWindowCount
ImplementsWindow == WindowBreaker!Window

\* sliding-window-breaker.ts:10-11: "Once open, it remains open until the window
\* duration passes without new failures", so not while a failure is in the window.
StaysOpenForTheWindow == [][opened /\ Pruned(failures) # {} => opened']_vars
=============================================================================
