----------------------------- MODULE Admission -----------------------------
(***************************************************************************)
(* The admission gate of a worker with governance and economics enabled:   *)
(* ActionGate.evaluate asks the policy, the kill switch (AgentRegistry) and *)
(* the cost reservation, lets the most severe verdict decide and records   *)
(* the decision.  RateCostLimiter takes points from the global scope, the  *)
(* tenant's and the agent's, one store call after another, first for the   *)
(* request rate and then for the cost, and gives them back when a later    *)
(* scope is over its limit.  Evaluations interleave at every store call.   *)
(*                                                                         *)
(* The store is rate-limiter-flexible: a consume that is refused has taken *)
(* its points all the same.  One window; allow and degrade pass alike.     *)
(***************************************************************************)
EXTENDS Integers, Sequences, FiniteSets, SequencesExt

CONSTANTS
    Evaluation,      \* gate evaluations
    Gated,           \* agents
    TenantOf,        \* evaluation -> its tenant
    AgentOf,         \* evaluation -> its agent
    UnitsOf,         \* evaluation -> its estimated cost
    RequestLimit,    \* maxRequestsPerWindow, per scope; 0 is unlimited
    CostLimit,       \* maxCostPerWindow, per tenant and agent
    CostCeiling,     \* globalCostCeiling
    InvocationLimit, \* invocationLimit of every registration; 0 is unlimited
    MaxChanges       \* bound: registrations and revocations

Global == "global"
Keys   == {Global} \cup {TenantOf[e] : e \in Evaluation} \cup {AgentOf[e] : e \in Evaluation}
Severity == [allow |-> 0, degrade |-> 1, escalate |-> 2, block |-> 3, terminate |-> 4]
Action == DOMAIN Severity

VARIABLES
    eval,         \* evaluation -> how far it is
    used,         \* <<concern, key>> -> points taken in this window
    registry,     \* agent -> its record
    changes,      \* counter of the bound
    auditLog      \* decisions recorded, as <<evaluation, action>>

admissionVars == <<eval, used, registry, changes, auditLog>>

Stage == {"new", "registry", "rate", "cost", "undo", "decide", "done"}

TypeOK ==
    /\ \A e \in Evaluation :
          /\ eval[e].stage \in Stage
          /\ eval[e].concern \in {"rate", "cost"}
          /\ eval[e].worst \in Action
          /\ eval[e].taken \in Seq(Keys)
          /\ eval[e].budget \in {"none", "allowed", "error"} \cup Keys
    /\ DOMAIN used = {"rate", "cost"} \X Keys
    /\ \A a \in Gated : registry[a].invocations \in Nat

Init ==
    /\ eval = [e \in Evaluation |->
                 [stage |-> "new", concern |-> "rate", worst |-> "allow", taken |-> <<>>,
                  budget |-> "none", policy |-> "none", asked |-> "none"]]
    /\ used = [s \in {"rate", "cost"} \X Keys |-> 0]
    /\ \E s \in {"none", "active"} :
          registry = [a \in Gated |-> [status |-> s, invocations |-> 0]]
    /\ changes = 0
    /\ auditLog = <<>>

-----------------------------------------------------------------------------
(* The registry.                                                           *)

\* register: an upsert that forgets a revocation and the count.
Register(a) ==
    /\ changes < MaxChanges
    /\ changes' = changes + 1
    /\ registry' = [registry EXCEPT ![a] = [status |-> "active", invocations |-> 0]]
    /\ UNCHANGED <<eval, used, auditLog>>

\* The kill switch; unknown agents stay unknown.
Revoke(a) ==
    /\ changes < MaxChanges
    /\ changes' = changes + 1
    /\ registry' = [registry EXCEPT ![a].status = IF @ = "none" THEN @ ELSE "revoked"]
    /\ UNCHANGED <<eval, used, auditLog>>

Expire(a) ==
    /\ registry[a].status = "active"
    /\ registry' = [registry EXCEPT ![a].status = "expired"]
    /\ UNCHANGED <<eval, used, changes, auditLog>>

\* status and toAction; an operation out of scope is a policy verdict here.
RegistryVerdict(a) ==
    LET r == registry[a]
    IN  IF r.status = "revoked" THEN "terminate"
        ELSE IF r.status \in {"none", "expired"}
                \/ (InvocationLimit > 0 /\ r.invocations >= InvocationLimit)
             THEN "block" ELSE "allow"

-----------------------------------------------------------------------------
(* The gate.                                                               *)

Worse(a, b) == IF Severity[a] < Severity[b] THEN b ELSE a

\* The first matching rule, or the default: any verdict.
AskPolicy(e, verdict) ==
    /\ eval[e].stage = "new"
    /\ eval' = [eval EXCEPT ![e].stage = "registry", ![e].worst = verdict,
                            ![e].policy = verdict]
    /\ UNCHANGED <<used, registry, changes, auditLog>>

\* Mutant: the last validator decides, not the most severe one.
AskRegistry_Overrides(e) ==
    /\ eval[e].stage = "registry"
    /\ eval' = [eval EXCEPT ![e].stage = "rate", ![e].asked = registry[AgentOf[e]].status,
                            ![e].worst = RegistryVerdict(AgentOf[e])]
    /\ UNCHANGED <<used, registry, changes, auditLog>>

AskRegistry(e) ==
    /\ eval[e].stage = "registry"
    /\ eval' = [eval EXCEPT ![e].stage = "rate", ![e].asked = registry[AgentOf[e]].status,
                            ![e].worst = Worse(@, RegistryVerdict(AgentOf[e]))]
    /\ UNCHANGED <<used, registry, changes, auditLog>>

-----------------------------------------------------------------------------
(* The budgets.                                                            *)

Limit(concern, key) ==
    IF concern = "rate" THEN RequestLimit
    ELSE IF key = Global THEN CostCeiling ELSE CostLimit

Units(e, concern) == IF concern = "rate" THEN 1 ELSE UnitsOf[e]

\* buildTargets: the limited scopes of the evaluation, in their order.
Targets(e, concern) ==
    LET Scope(k) == IF Limit(concern, k) > 0 THEN <<k>> ELSE <<>>
    IN  Scope(Global) \o Scope(TenantOf[e]) \o Scope(AgentOf[e])

Take(e, concern, key, points) ==
    used' = [used EXCEPT ![<<concern, key>>] = @ + points]

Verdict(e, action, budget) ==
    eval' = [eval EXCEPT ![e].stage = "decide", ![e].worst = Worse(@, action),
                         ![e].budget = budget]

\* Every scope of the concern gave its points: the rate is followed by the cost.
AllTaken(e) ==
    /\ eval[e].stage \in {"rate", "cost"}
    /\ Len(eval[e].taken) = Len(Targets(e, eval[e].stage))
    /\ IF eval[e].stage = "rate"
       THEN eval' = [eval EXCEPT ![e].stage = "cost", ![e].concern = "cost", ![e].taken = <<>>]
       ELSE Verdict(e, "allow", "allowed")
    /\ UNCHANGED <<used, registry, changes, auditLog>>

NextTarget(e) == Targets(e, eval[e].stage)[Len(eval[e].taken) + 1]

\* consumeOne: within the limit, or refused, which starts the compensation.
Consume(e) ==
    /\ eval[e].stage \in {"rate", "cost"}
    /\ Len(eval[e].taken) < Len(Targets(e, eval[e].stage))
    /\ LET concern == eval[e].stage
           key     == NextTarget(e)
           after   == used[<<concern, key>>] + Units(e, concern)
       IN  /\ Take(e, concern, key, Units(e, concern))
           /\ eval' = IF after <= Limit(concern, key)
                      THEN [eval EXCEPT ![e].taken = Append(@, key)]
                      ELSE [eval EXCEPT ![e].stage = "undo", ![e].budget = key]
    /\ UNCHANGED <<registry, changes, auditLog>>

\* Mutant: scopes that were never asked are given points as well.
Compensate_AllTargets(e) ==
    /\ eval[e].stage = "undo"
    /\ used' = [s \in DOMAIN used |->
                  IF s[1] = eval[e].concern
                     /\ s[2] \in ToSet(Targets(e, eval[e].concern)) \ {eval[e].budget}
                  THEN used[s] - Units(e, s[1]) ELSE used[s]]
    /\ Verdict(e, "block", eval[e].budget)
    /\ UNCHANGED <<registry, changes, auditLog>>

\* compensate: the points taken are given back one scope at a time, then the
\* reservation is refused.
Compensate(e) ==
    /\ eval[e].stage = "undo"
    /\ IF eval[e].taken = <<>>
       THEN Verdict(e, "block", eval[e].budget) /\ UNCHANGED used
       ELSE /\ Take(e, eval[e].concern, Head(eval[e].taken), -Units(e, eval[e].concern))
            /\ eval' = [eval EXCEPT ![e].taken = Tail(@)]
    /\ UNCHANGED <<registry, changes, auditLog>>

\* The store fails, a consume or a reward perhaps applied: runValidator turns the
\* error into a block; what was taken stays taken.
StoreFails(e) ==
    /\ eval[e].stage \in {"rate", "cost", "undo"}
    /\ Verdict(e, "block", "error")
    /\ \/ UNCHANGED used
       \/ /\ eval[e].stage # "undo"
          /\ Len(eval[e].taken) < Len(Targets(e, eval[e].stage))
          /\ Take(e, eval[e].stage, NextTarget(e), Units(e, eval[e].stage))
       \/ /\ eval[e].stage = "undo" /\ eval[e].taken # <<>>
          /\ Take(e, eval[e].concern, Head(eval[e].taken), -Units(e, eval[e].concern))
    /\ UNCHANGED <<registry, changes, auditLog>>

\* orderBySeverity put the worst verdict first; the decision is recorded.
Decide(e) ==
    /\ eval[e].stage = "decide"
    /\ eval' = [eval EXCEPT ![e].stage = "done"]
    /\ auditLog' = Append(auditLog, <<e, eval[e].worst>>)
    /\ UNCHANGED <<used, registry, changes>>

Passes(action) == action \in {"allow", "degrade"}

\* recordInvocation, called by the embedding program for what was admitted.
RecordInvocation(a) ==
    /\ \E e \in Evaluation :
          eval[e].stage = "done" /\ Passes(eval[e].worst) /\ AgentOf[e] = a
    /\ registry[a].status # "none" /\ registry[a].invocations < Cardinality(Evaluation)
    /\ registry' = [registry EXCEPT ![a].invocations = @ + 1]
    /\ UNCHANGED <<eval, used, changes, auditLog>>

Next ==
    \/ \E a \in Gated : Register(a) \/ Revoke(a) \/ Expire(a) \/ RecordInvocation(a)
    \/ \E e \in Evaluation :
          \/ \E v \in {"allow", "escalate"} : AskPolicy(e, v)
          \/ AskRegistry(e) \/ Consume(e) \/ AllTaken(e) \/ Compensate(e)
          \/ StoreFails(e) \/ Decide(e)

Spec == Init /\ [][Next]_admissionVars

-----------------------------------------------------------------------------
(* Properties.                                                             *)

\* The units of the evaluations S: so many pairs <<evaluation, unit>>.
Sum(S) == Cardinality(UNION {{e} \X (1 .. UnitsOf[e]) : e \in S})

InCost(k) == {e \in Evaluation : k \in ToSet(Targets(e, "cost"))}
Reserved(k) == {e \in InCost(k) : eval[e].budget = "allowed"}

\* However the evaluations of a fleet interleave, and whatever is refused,
\* given back or cut off by a failing store between their consumes, the
\* reservations that were allowed fit every budget they are charged to.
ReservationsFitTheBudget ==
    \A k \in Keys : Limit("cost", k) > 0 => Sum(Reserved(k)) <= Limit("cost", k)

\* "no partial reservation leaks": once everything is decided, and the store
\* did not fail, the points taken are those of the allowed reservations, and of
\* refused ones only in the scope that refused (which the library charges).
RefusalsAreGivenBack ==
    (\A e \in Evaluation : eval[e].stage \in {"new", "done"} /\ eval[e].budget # "error")
    => \A k \in Keys : Limit("cost", k) > 0 =>
          used[<<"cost", k>>] =
              Sum(Reserved(k))
              + Sum({e \in Evaluation : eval[e].concern = "cost" /\ eval[e].budget = k})

\* The two: what is reserved fits, and what is refused is not held.
BudgetsHold == ReservationsFitTheBudget /\ RefusalsAreGivenBack

\* An agent that passes the gate passed all of it: every validator was asked
\* and none refused or failed; each decision is in the audit log once.
GateFailsClosed ==
    /\ \A e \in Evaluation : eval[e].stage = "done" /\ Passes(eval[e].worst) =>
          Passes(eval[e].policy) /\ eval[e].asked = "active" /\ eval[e].budget = "allowed"
    /\ \A e \in Evaluation : eval[e].stage = "done" <=>
          Cardinality({i \in DOMAIN auditLog : auditLog[i] = <<e, eval[e].worst>>}) = 1

=============================================================================
