----------------------------- MODULE A2AExecutor -----------------------------
(***************************************************************************)
(* KaibanAgentExecutor, the bridge from an A2A task to an agent's mailbox: *)
(* execute() takes the task's in-flight entry, saves submitted, publishes, *)
(* waits for the router and saves the end; cancelTask() aborts the entry it  *)
(* finds and saves canceled.  Other calls run at every await.  One task id: *)
(* ids do not interact.                                                    *)
(*                                                                         *)
(* A save (RedisTaskStore) takes effect when it is issued, as the commands *)
(* of one connection do; its answer comes later, and may be an error whether *)
(* or not it was applied.                                                   *)
(***************************************************************************)
EXTENDS Naturals, FiniteSets

CONSTANTS
    Request,   \* execute() calls for the task id: message/send, sent again
    Cancel,    \* cancelTask() calls
    Nobody     \* not a request

VARIABLES
    at,        \* call -> where it is
    inFlight,  \* the request that holds the entry, or Nobody
    aborted,   \* requests whose AbortController was aborted
    cut,       \* those of them aborted before their result or failure
    stored,    \* the state tasks/get answers
    lost,      \* calls whose last save was not applied
    reported,  \* Task events published with an end, as <<call, state>>
    finals,    \* final status updates published, as <<call, state>>
    dispatched \* requests whose task was published to the mailbox

a2aVars == <<at, inFlight, aborted, cut, stored, lost, reported, finals, dispatched>>

Before  == {"submitting", "publishing", "waiting"}
Running == Before \cup {"completing", "failing"}
End     == {"completed", "failed", "rejected", "canceled"}

TypeOK ==
    /\ at \in [Request \cup Cancel -> Running \cup {"new", "rejecting", "canceling", "over"}]
    /\ inFlight \in Request \cup {Nobody}
    /\ cut \subseteq aborted /\ aborted \subseteq Request
    /\ stored \in End \cup {"none", "submitted"}
    /\ lost \subseteq Request \cup Cancel
    /\ reported \subseteq (Request \cup Cancel) \X End /\ finals \subseteq reported
    /\ dispatched \subseteq Request

Init ==
    /\ at = [c \in Request \cup Cancel |-> "new"]
    /\ inFlight = Nobody
    /\ aborted = {} /\ cut = {}
    /\ stored = "none" /\ lost = {}
    /\ reported = {} /\ finals = {}
    /\ dispatched = {}

-----------------------------------------------------------------------------
Go(c, place) == at' = [at EXCEPT ![c] = place]

\* emitTask: in one turn the Task event is published, then its save is issued.
Save(c, state) ==
    /\ reported' = IF state \in End THEN reported \cup {<<c, state>>} ELSE reported
    /\ \/ stored' = state /\ lost' = lost \ {c}
       \/ stored' = stored /\ lost' = lost \cup {c}

\* A call for a task in flight only ends its event stream; an invalid one is
\* rejected; else the entry is taken in the same turn.
Execute(r) ==
    /\ at[r] = "new"
    /\ \/ /\ inFlight # Nobody
          /\ Go(r, "over")
          /\ UNCHANGED <<inFlight, stored, lost, reported>>
       \/ /\ inFlight = Nobody
          /\ Go(r, "rejecting")
          /\ Save(r, "rejected")
          /\ UNCHANGED inFlight
       \/ /\ inFlight = Nobody
          /\ Go(r, "submitting")
          /\ Save(r, "submitted")
          /\ inFlight' = r
    /\ UNCHANGED <<aborted, cut, finals, dispatched>>

\* Saved: working is published and the task goes to the mailbox.
Dispatch(r) ==
    /\ at[r] = "submitting" /\ r \notin lost
    /\ Go(r, "publishing")
    /\ dispatched' \in {dispatched, dispatched \cup {r}}
    /\ UNCHANGED <<inFlight, aborted, cut, stored, lost, reported, finals>>

Wait(r) ==
    /\ at[r] = "publishing" /\ r \in dispatched
    /\ Go(r, "waiting")
    /\ UNCHANGED <<inFlight, aborted, cut, stored, lost, reported, finals, dispatched>>

\* The router's answer; an aborted wait rejects.
Result(r) ==
    /\ at[r] = "waiting" /\ r \notin aborted
    /\ Go(r, "completing")
    /\ Save(r, "completed")
    /\ UNCHANGED <<inFlight, aborted, cut, finals, dispatched>>

\* The end of execute(): finally drops the entry.
Leave(r, published) ==
    /\ Go(r, "over")
    /\ inFlight' = Nobody
    /\ finals' = finals \cup published

\* Mutant: the catch does not ask whether a cancel ends the task.
Catch_IgnoresAbort(r) ==
    /\ at[r] \in Before \cup {"completing"}
    /\ Go(r, "failing") /\ Save(r, "failed")
    /\ UNCHANGED <<inFlight, aborted, cut, finals, dispatched>>

\* A save, the publish or the wait throws: failed, unless a cancel ends the task.
\* A completed task whose save throws goes this way too.
Catch(r) ==
    /\ at[r] \in Before \cup {"completing"}
    /\ IF r \in aborted
       THEN Leave(r, {}) /\ UNCHANGED <<stored, lost, reported>>
       ELSE Go(r, "failing") /\ Save(r, "failed") /\ UNCHANGED <<inFlight, finals>>
    /\ UNCHANGED <<aborted, cut, dispatched>>

\* The save of the end is answered; after an error execute() throws.
Finish(r) ==
    /\ at[r] \in {"completing", "failing"}
    /\ LET end == IF at[r] = "completing" THEN "completed" ELSE "failed"
       IN  \/ r \notin lost /\ Leave(r, {<<r, end>>})
           \/ at[r] = "failing" /\ Leave(r, {})
    /\ UNCHANGED <<aborted, cut, stored, lost, reported, dispatched>>

Rejected(r) ==
    /\ at[r] = "rejecting"
    /\ Go(r, "over")
    /\ \/ r \notin lost /\ finals' = finals \cup {<<r, "rejected">>}
       \/ UNCHANGED finals
    /\ UNCHANGED <<inFlight, aborted, cut, stored, lost, reported, dispatched>>

\* cancelTask: the wait is aborted, and canceled is saved with or without one.
CancelTask(k) ==
    /\ at[k] = "new"
    /\ Go(k, "canceling")
    /\ Save(k, "canceled")
    /\ aborted' = aborted \cup ({inFlight} \ {Nobody})
    /\ cut' = cut \cup {r \in {inFlight} \ {Nobody} : at[r] \in Before}
    /\ UNCHANGED <<inFlight, finals, dispatched>>

Canceled(k) ==
    /\ at[k] = "canceling"
    /\ Go(k, "over")
    /\ \/ k \notin lost /\ finals' = finals \cup {<<k, "canceled">>}
       \/ UNCHANGED finals
    /\ UNCHANGED <<inFlight, aborted, cut, stored, lost, reported, dispatched>>

Next ==
    \/ \E r \in Request :
          \/ Execute(r) \/ Dispatch(r) \/ Wait(r) \/ Result(r)
          \/ Catch(r) \/ Finish(r) \/ Rejected(r)
    \/ \E k \in Cancel : CancelTask(k) \/ Canceled(k)

Spec == Init /\ [][Next]_a2aVars

-----------------------------------------------------------------------------
(* Properties.                                                             *)

\* A task has one execution at a time, whose cancel finds it, and one end: an
\* execution cut by a cancel publishes no end of its own, neither as a Task event
\* nor as a final update, and while it unwinds tasks/get answers what the cancel
\* saved; no execution publishes two final updates.  (CancelIsTheOnlyEnd is about
\* a cancel that comes while the end of the task is being saved.)
OneEndPerTask ==
    /\ \A r \in Request : at[r] \in Running => inFlight = r
    /\ \A r \in cut, s \in End : <<r, s>> \notin reported \cup finals
    /\ inFlight \in cut /\ lost \cap Cancel = {} => stored = "canceled"
    /\ \A r \in Request, s, t \in End :
          <<r, s>> \in finals /\ <<r, t>> \in finals => s = t

\* a2a-executor.ts:128: "Cancellation emits its own terminal event; do not
\* double-emit", of every execution a cancel aborted.
CancelIsTheOnlyEnd == \A r \in aborted, s \in End : <<r, s>> \notin finals

=============================================================================
