--------------------------- MODULE BudgetProofs ---------------------------
(* What holds of the action gate - it fails closed, and the reservations it    *)
(* allows fit their budgets - and of the functions that rank and price models. *)
EXTENDS MCEdges, FiniteSetTheorems, TLAPS

\* What the suite does with the gate is a behaviour of the gate.
LEMMA AdmissionRunsAlone == Spec => G!Spec
<1>1. Init => G!Init
  BY DEF Init
<1>2. [Next]_vars => [G!Next]_(G!admissionVars)
  BY DEF Next, vars, gate, G!admissionVars
<1> QED  BY <1>1, <1>2, PTL DEF Spec, G!Spec


-----------------------------------------------------------------------------
(* Admission: the gate.                                                    *)

\* Finitely many evaluations, each of one tenant and one agent; limits and costs are
\* numbers.  The scopes have a limiter each (keyPrefix), so no two share a key, and
\* none is named like a verdict.
GateSane ==
    /\ IsFiniteSet(Evaluation)
    /\ RequestLimit \in Nat /\ CostLimit \in Nat /\ CostCeiling \in Nat
    /\ InvocationLimit \in Nat
    /\ UnitsOf \in [Evaluation -> Nat] /\ AgentOf \in [Evaluation -> Gated]
    /\ \A e \in Evaluation :
          /\ TenantOf[e] # G!Global /\ AgentOf[e] # G!Global
          /\ \A f \in Evaluation : TenantOf[e] # AgentOf[f]
    /\ G!Keys \cap {"none", "allowed", "error"} = {}

\* The fields of an evaluation.
EvaluationType ==
    [stage : G!Stage, concern : {"rate", "cost"}, worst : G!Action, taken : Seq(G!Keys),
     budget : {"none", "allowed", "error"} \cup G!Keys, policy : G!Action \cup {"none"},
     asked : {"none", "active", "revoked", "expired"}]

GateTypeOK ==
    /\ eval \in [Evaluation -> EvaluationType]
    /\ used \in [{"rate", "cost"} \X G!Keys -> Int]
    /\ registry \in [Gated -> [status : {"none", "active", "revoked", "expired"},
                               invocations : Nat]]
    /\ auditLog \in Seq(Evaluation \X G!Action)

\* The worst verdict is at least as severe as every verdict heard so far.
WorstIsWorst(r) ==
    /\ r.stage # "new" => r.policy \in G!Action
    /\ r.stage # "new" /\ G!Passes(r.worst) => G!Passes(r.policy)
    /\ r.stage \notin {"new", "registry"} /\ G!Passes(r.worst) => r.asked = "active"
    /\ r.stage \in {"decide", "done"} /\ G!Passes(r.worst) => r.budget = "allowed"

\* The log holds one entry of each decided evaluation, and none of the others.
LoggedOnce ==
    \A e \in Evaluation :
        IF eval[e].stage = "done"
        THEN \E i \in DOMAIN auditLog :
                /\ auditLog[i] = <<e, eval[e].worst>>
                /\ \A j \in DOMAIN auditLog : auditLog[j][1] = e => j = i
        ELSE \A i \in DOMAIN auditLog : auditLog[i][1] # e

GateInv == GateTypeOK /\ (\A e \in Evaluation : WorstIsWorst(eval[e])) /\ LoggedOnce

-----------------------------------------------------------------------------
\* An evaluation has points of a scope; or was refused them, and charged by the store.
IsGranted(r, k) == r.concern = "cost" /\ r.budget # "error" /\ k \in G!ToSet(r.taken)
IsCharged(r, k) == r.concern = "cost" /\ r.budget = k
Granted(k) == {e \in Evaluation : IsGranted(eval[e], k)}
Charged(k) == {e \in Evaluation : IsCharged(eval[e], k)}

Injective(s) == \A i, j \in DOMAIN s : s[i] = s[j] => i = j

\* What an evaluation has taken: a first part of its scopes while it takes, some of them
\* without the one that refused while it gives back, all of them once it is allowed.
TakenInOrder(e, r) ==
    LET targets == G!Targets(e, r.concern)
    IN  /\ r.stage \in {"new", "registry"} =>
              r.taken = <<>> /\ r.budget = "none" /\ r.concern = "rate"
        /\ r.stage \in {"rate", "cost"} =>
              /\ r.concern = r.stage /\ r.budget = "none"
              /\ Len(r.taken) <= Len(targets)
              /\ \A i \in DOMAIN r.taken : r.taken[i] = targets[i]
        /\ r.stage = "undo" =>
              r.budget \in G!ToSet(targets) /\ r.budget \notin G!ToSet(r.taken)
        /\ r.stage \in {"decide", "done"} =>
              r.budget # "none" /\ (r.budget \in G!Keys => r.taken = <<>>)
        /\ r.budget = "allowed" =>
              r.stage \in {"decide", "done"} /\ r.concern = "cost" /\ r.taken = targets
        /\ r.budget = "error" => r.stage \in {"decide", "done"}
        /\ Injective(r.taken) /\ G!ToSet(r.taken) \subseteq G!ToSet(targets)

NoErrors == \A e \in Evaluation : eval[e].budget # "error"

\* The store holds at least what was granted and charged, and no more unless it failed;
\* what was granted is within the limit.
PointsAreHeld(k) ==
    LET held == G!Sum(Granted(k)) + G!Sum(Charged(k))
    IN  /\ used[<<"cost", k>>] >= held
        /\ NoErrors => used[<<"cost", k>>] = held
        /\ G!Limit("cost", k) > 0 => G!Sum(Granted(k)) <= G!Limit("cost", k)

BudgetInv ==
    /\ GateInv
    /\ \A e \in Evaluation : TakenInOrder(e, eval[e])
    /\ \A k \in G!Keys : PointsAreHeld(k)

LEMMA GateIsCounted == \A S : G!Cardinality(S) = Cardinality(S)
BY DEF G!Cardinality, Cardinality

LEMMA Verdicts ==
    /\ G!Action = {"allow", "degrade", "escalate", "block", "terminate"}
    /\ \A a, b \in G!Action :
          /\ G!Worse(a, b) \in G!Action
          /\ G!Passes(G!Worse(a, b)) => G!Passes(a) /\ G!Passes(b)
BY DEF G!Action, G!Severity, G!Worse, G!Passes

\* The scopes that take points, in their order: each once, and only limited ones.
LEMMA TargetsAreScopes ==
    ASSUME GateSane, NEW e \in Evaluation, NEW concern \in {"rate", "cost"}
    PROVE  /\ G!Targets(e, concern) \in Seq(G!Keys)
           /\ Len(G!Targets(e, concern)) <= 3
           /\ Injective(G!Targets(e, concern))
           /\ \A k \in G!ToSet(G!Targets(e, concern)) : G!Limit(concern, k) > 0
<1> DEFINE Scope(k) == IF G!Limit(concern, k) > 0 THEN <<k>> ELSE <<>>
           g == Scope(G!Global)
           t == Scope(TenantOf[e])
           a == Scope(AgentOf[e])
<1>1. G!Targets(e, concern) = (g \o t) \o a
  BY DEF G!Targets
<1>2. /\ G!Global \in G!Keys /\ TenantOf[e] \in G!Keys /\ AgentOf[e] \in G!Keys
      /\ G!Global # TenantOf[e] /\ G!Global # AgentOf[e] /\ TenantOf[e] # AgentOf[e]
  BY DEF GateSane, G!Keys
<1>3. \A k \in G!Keys : /\ Scope(k) \in Seq(G!Keys) /\ Len(Scope(k)) \in {0, 1}
                        /\ Len(Scope(k)) = 1 => Scope(k)[1] = k /\ G!Limit(concern, k) > 0
  OBVIOUS
<1> HIDE DEF Scope
<1>4. /\ g \in Seq(G!Keys) /\ t \in Seq(G!Keys) /\ a \in Seq(G!Keys)
      /\ Len(g) \in {0, 1} /\ Len(t) \in {0, 1} /\ Len(a) \in {0, 1}
      /\ Len(g) = 1 => g[1] = G!Global /\ G!Limit(concern, G!Global) > 0
      /\ Len(t) = 1 => t[1] = TenantOf[e] /\ G!Limit(concern, TenantOf[e]) > 0
      /\ Len(a) = 1 => a[1] = AgentOf[e] /\ G!Limit(concern, AgentOf[e]) > 0
  BY <1>2, <1>3
<1> HIDE DEF g, t, a
<1>5. /\ g \o t \in Seq(G!Keys) /\ Len(g \o t) = Len(g) + Len(t)
      /\ \A i \in 1 .. Len(g) + Len(t) :
            (g \o t)[i] = IF i <= Len(g) THEN g[i] ELSE t[i - Len(g)]
  BY <1>4
<1>6. /\ (g \o t) \o a \in Seq(G!Keys) /\ Len((g \o t) \o a) = Len(g \o t) + Len(a)
      /\ \A i \in 1 .. Len(g \o t) + Len(a) :
            ((g \o t) \o a)[i] = IF i <= Len(g \o t) THEN (g \o t)[i] ELSE a[i - Len(g \o t)]
  BY <1>4, <1>5
<1>7. \A i \in 1 .. Len((g \o t) \o a) :
        \/ i = 1 /\ Len(g) = 1 /\ ((g \o t) \o a)[i] = G!Global
        \/ i = Len(g) + 1 /\ Len(t) = 1 /\ ((g \o t) \o a)[i] = TenantOf[e]
        \/ i = Len(g) + Len(t) + 1 /\ Len(a) = 1 /\ ((g \o t) \o a)[i] = AgentOf[e]
  BY <1>4, <1>5, <1>6
<1>8. Injective(G!Targets(e, concern))
  <2> DEFINE s == (g \o t) \o a
  <2>1. DOMAIN s = 1 .. Len(s) /\ Len(s) \in Nat
    BY <1>6
  <2>2. \A i \in 1 .. Len(s) :
          \/ i = 1 /\ Len(g) = 1 /\ s[i] = G!Global
          \/ i = Len(g) + 1 /\ s[i] = TenantOf[e]
          \/ i = Len(g) + Len(t) + 1 /\ s[i] = AgentOf[e]
    BY <1>7
  <2> HIDE DEF s
  <2>3. ASSUME NEW i \in 1 .. Len(s), NEW j \in 1 .. Len(s), s[i] = s[j] PROVE i = j
    BY <1>2, <1>4, <2>2, <2>3
  <2>4. Injective(s)
    BY <2>1, <2>3 DEF Injective
  <2> QED  BY <1>1, <2>4 DEF s
<1>9. \A k \in G!ToSet(G!Targets(e, concern)) : G!Limit(concern, k) > 0
  BY <1>1, <1>4, <1>6, <1>7 DEF G!ToSet
<1> QED  BY <1>1, <1>4, <1>5, <1>6, <1>8, <1>9

-----------------------------------------------------------------------------
LEMMA GateStart ==
    ASSUME GateSane
    PROVE  G!Init => GateInv
<1> SUFFICES ASSUME G!Init PROVE GateInv
  OBVIOUS
<1>1. GateTypeOK
  BY Verdicts DEF G!Init, GateTypeOK, EvaluationType, G!Stage
<1>2. \A e \in Evaluation : WorstIsWorst(eval[e]) /\ eval[e].stage = "new"
  BY DEF G!Init, WorstIsWorst
<1>3. DOMAIN auditLog = {}
  BY DEF G!Init
<1> QED  BY <1>1, <1>2, <1>3 DEF GateInv, LoggedOnce

\* The next scope of an evaluation that takes, and of one that gives back.
LEMMA NextScope ==
    ASSUME GateSane, GateTypeOK, NEW e \in Evaluation
    PROVE  /\ eval[e].stage \in {"rate", "cost"}
                /\ Len(eval[e].taken) < Len(G!Targets(e, eval[e].stage)) =>
              /\ G!NextTarget(e) \in G!Keys
              /\ Append(eval[e].taken, G!NextTarget(e)) \in Seq(G!Keys)
           /\ eval[e].taken # <<>> =>
                 Head(eval[e].taken) \in G!Keys /\ Tail(eval[e].taken) \in Seq(G!Keys)
<1>1. eval[e].taken \in Seq(G!Keys)
  BY DEF GateTypeOK, EvaluationType
<1>2. ASSUME eval[e].stage \in {"rate", "cost"},
             Len(eval[e].taken) < Len(G!Targets(e, eval[e].stage))
      PROVE  G!NextTarget(e) \in G!Keys
  <2>1. G!Targets(e, eval[e].stage) \in Seq(G!Keys)
    BY <1>2, TargetsAreScopes
  <2> QED  BY <1>1, <1>2, <2>1 DEF G!NextTarget
<1> QED  BY <1>1, <1>2

\* The points taken or given back are a number.
LEMMA PointsAreNumbers ==
    ASSUME GateSane, GateTypeOK, NEW e \in Evaluation, NEW concern \in {"rate", "cost"},
           NEW key \in G!Keys
    PROVE  /\ G!Units(e, concern) \in Nat
           /\ G!Limit(concern, key) \in Nat
           /\ G!Take(e, concern, key, G!Units(e, concern)) =>
                 used' \in [{"rate", "cost"} \X G!Keys -> Int]
           /\ G!Take(e, concern, key, -G!Units(e, concern)) =>
                 used' \in [{"rate", "cost"} \X G!Keys -> Int]
<1>1. G!Units(e, concern) \in Nat /\ -G!Units(e, concern) \in Int
  BY DEF GateSane, G!Units
<1>2. G!Limit(concern, key) \in Nat
  BY DEF GateSane, G!Limit
<1>3. ASSUME NEW p \in Int, G!Take(e, concern, key, p)
      PROVE  used' \in [{"rate", "cost"} \X G!Keys -> Int]
  BY <1>3 DEF GateTypeOK, G!Take
<1> QED  BY <1>1, <1>2, <1>3

\* An evaluation that is not decided goes on.
LEMMA UndecidedGoesOn ==
    ASSUME GateSane, GateInv, NEW e \in Evaluation, NEW r \in EvaluationType,
           eval' = [eval EXCEPT ![e] = r], UNCHANGED <<registry, auditLog>>,
           eval[e].stage # "done", r.stage # "done", WorstIsWorst(r),
           used' \in [{"rate", "cost"} \X G!Keys -> Int]
    PROVE  GateInv'
<1>1. /\ eval' \in [Evaluation -> EvaluationType] /\ eval'[e] = r
      /\ \A f \in Evaluation : f # e => eval'[f] = eval[f]
  BY DEF GateInv, GateTypeOK
<1>2. GateTypeOK'
  BY <1>1 DEF GateInv, GateTypeOK
<1>3. ASSUME NEW f \in Evaluation PROVE WorstIsWorst(eval[f])'
  <2>1. WorstIsWorst(eval'[f])
    BY <1>1 DEF GateInv
  <2> QED  BY <2>1 DEF WorstIsWorst
<1>4. LoggedOnce'
  BY <1>1 DEF GateInv, LoggedOnce
<1> QED  BY <1>2, <1>3, <1>4 DEF GateInv

\* A reservation ends with its verdict.
LEMMA VerdictIsSound ==
    ASSUME GateSane, GateInv, NEW e \in Evaluation, NEW action \in {"allow", "block"},
           NEW budget \in {"none", "allowed", "error"} \cup G!Keys,
           G!Verdict(e, action, budget), UNCHANGED <<registry, auditLog>>,
           eval[e].stage \in {"rate", "cost", "undo"},
           action = "allow" => budget = "allowed",
           used' \in [{"rate", "cost"} \X G!Keys -> Int]
    PROVE  GateInv'
<1> DEFINE w == G!Worse(eval[e].worst, action)
           r == [eval[e] EXCEPT !.stage = "decide", !.worst = w, !.budget = budget]
<1>0. eval[e] \in EvaluationType /\ WorstIsWorst(eval[e]) /\ eval \in [Evaluation -> EvaluationType]
  BY DEF GateInv, GateTypeOK
<1>1. /\ w \in G!Action
      /\ G!Passes(w) => G!Passes(eval[e].worst) /\ G!Passes(action)
  BY <1>0, Verdicts DEF EvaluationType
<1>2. eval' = [eval EXCEPT ![e] = r]
  BY <1>0 DEF G!Verdict, EvaluationType
<1> HIDE DEF w
<1>3. r \in EvaluationType
  BY <1>0, <1>1 DEF EvaluationType, G!Stage
<1>4. WorstIsWorst(r)
  BY <1>0, <1>1 DEF EvaluationType, WorstIsWorst, G!Passes
<1>5. r.stage # "done"
  BY <1>0 DEF EvaluationType
<1> HIDE DEF r
<1> QED  BY <1>2, <1>3, <1>4, <1>5, UndecidedGoesOn

\* A reservation goes on to its next store call.
LEMMA ReservationGoesOn ==
    ASSUME GateSane, GateInv, NEW e \in Evaluation, NEW r \in EvaluationType,
           eval' = [eval EXCEPT ![e] = r], UNCHANGED <<registry, auditLog>>,
           eval[e].stage \in {"rate", "cost", "undo"}, r.stage \in {"rate", "cost", "undo"},
           r.worst = eval[e].worst, r.policy = eval[e].policy, r.asked = eval[e].asked,
           used' \in [{"rate", "cost"} \X G!Keys -> Int]
    PROVE  GateInv'
<1>1. WorstIsWorst(r)
  BY DEF GateInv, WorstIsWorst
<1> QED  BY <1>1, UndecidedGoesOn

\* The policy, the registry, and the reservation.
LEMMA AskingKeeps ==
    ASSUME GateSane, GateInv, NEW e \in Evaluation,
           (\E v \in {"allow", "escalate"} : G!AskPolicy(e, v)) \/ G!AskRegistry(e)
    PROVE  GateInv'
<1>0. /\ eval[e] \in EvaluationType /\ WorstIsWorst(eval[e])
      /\ eval \in [Evaluation -> EvaluationType]
      /\ used \in [{"rate", "cost"} \X G!Keys -> Int]
  BY DEF GateInv, GateTypeOK
<1>1. ASSUME NEW v \in {"allow", "escalate"}, G!AskPolicy(e, v)
      PROVE  GateInv'
  <2> DEFINE r == [eval[e] EXCEPT !.stage = "registry", !.worst = v, !.policy = v]
  <2>1. /\ eval' = [eval EXCEPT ![e] = r] /\ UNCHANGED <<used, registry, auditLog>>
        /\ eval[e].stage = "new"
    BY <1>0, <1>1 DEF G!AskPolicy, EvaluationType
  <2>2. r \in EvaluationType /\ r.stage # "done"
    <3>1. v \in G!Action
      BY Verdicts
    <3> QED  BY <1>0, <3>1 DEF EvaluationType, G!Stage
  <2>3. WorstIsWorst(r)
    BY <1>0, Verdicts DEF EvaluationType, WorstIsWorst
  <2> HIDE DEF r
  <2> QED  BY <1>0, <2>1, <2>2, <2>3, UndecidedGoesOn
<1>2. CASE G!AskRegistry(e)
  <2> DEFINE v == G!RegistryVerdict(AgentOf[e])
             w == G!Worse(eval[e].worst, v)
             r == [eval[e] EXCEPT !.stage = "rate", !.asked = registry[AgentOf[e]].status,
                                  !.worst = w]
  <2>1. registry[AgentOf[e]] \in [status : {"none", "active", "revoked", "expired"},
                                 invocations : Nat]
    BY DEF GateSane, GateInv, GateTypeOK
  <2>2. v \in G!Action /\ (G!Passes(v) => registry[AgentOf[e]].status = "active")
    BY <2>1, Verdicts DEF G!RegistryVerdict, G!Passes
  <2>3. w \in G!Action /\ (G!Passes(w) => G!Passes(eval[e].worst) /\ G!Passes(v))
    BY <1>0, <2>2, Verdicts DEF EvaluationType
  <2>4. /\ eval' = [eval EXCEPT ![e] = r] /\ UNCHANGED <<used, registry, auditLog>>
        /\ eval[e].stage = "registry"
    BY <1>0, <1>2 DEF G!AskRegistry, EvaluationType
  <2> HIDE DEF v, w
  <2>5. r \in EvaluationType /\ r.stage # "done"
    BY <1>0, <2>1, <2>3 DEF EvaluationType, G!Stage
  <2>6. WorstIsWorst(r)
    BY <1>0, <2>2, <2>3, <2>4 DEF EvaluationType, WorstIsWorst
  <2> HIDE DEF r
  <2> QED  BY <1>0, <2>4, <2>5, <2>6, UndecidedGoesOn
<1> QED  BY <1>1, <1>2

LEMMA ReservingKeeps ==
    ASSUME GateSane, GateInv, NEW e \in Evaluation,
           G!Consume(e) \/ G!AllTaken(e) \/ G!Compensate(e) \/ G!StoreFails(e)
    PROVE  GateInv'
<1>0. /\ eval[e] \in EvaluationType /\ GateTypeOK
      /\ eval \in [Evaluation -> EvaluationType]
      /\ used \in [{"rate", "cost"} \X G!Keys -> Int]
  BY DEF GateInv, GateTypeOK
<1>1. CASE G!Consume(e)
  <2> DEFINE key == G!NextTarget(e)
             r == [eval[e] EXCEPT !.taken = Append(@, key)]
             q == [eval[e] EXCEPT !.stage = "undo", !.budget = key]
  <2>1. /\ eval[e].stage \in {"rate", "cost"} /\ UNCHANGED <<registry, auditLog>>
        /\ key \in G!Keys /\ Append(eval[e].taken, key) \in Seq(G!Keys)
    BY <1>0, <1>1, NextScope DEF G!Consume
  <2>2. used' \in [{"rate", "cost"} \X G!Keys -> Int]
    BY <1>0, <1>1, <2>1, PointsAreNumbers DEF G!Consume
  <2>3. eval' = [eval EXCEPT ![e] = r] \/ eval' = [eval EXCEPT ![e] = q]
    BY <1>0, <1>1 DEF G!Consume, EvaluationType
  <2> HIDE DEF key
  <2>4. /\ r \in EvaluationType /\ r.stage = eval[e].stage /\ r.worst = eval[e].worst
        /\ r.policy = eval[e].policy /\ r.asked = eval[e].asked
    BY <1>0, <2>1 DEF EvaluationType
  <2>5. /\ q \in EvaluationType /\ q.stage = "undo" /\ q.worst = eval[e].worst
        /\ q.policy = eval[e].policy /\ q.asked = eval[e].asked
    BY <1>0, <2>1 DEF EvaluationType, G!Stage
  <2> HIDE DEF r, q
  <2> QED  BY <2>1, <2>2, <2>3, <2>4, <2>5, ReservationGoesOn
<1>2. CASE G!AllTaken(e) /\ eval[e].stage = "rate"
  <2> DEFINE r == [eval[e] EXCEPT !.stage = "cost", !.concern = "cost", !.taken = <<>>]
  <2>1. eval' = [eval EXCEPT ![e] = r] /\ UNCHANGED <<used, registry, auditLog>>
    BY <1>0, <1>2 DEF G!AllTaken, EvaluationType
  <2>2. /\ r \in EvaluationType /\ r.stage = "cost" /\ r.worst = eval[e].worst
        /\ r.policy = eval[e].policy /\ r.asked = eval[e].asked
    <3>1. <<>> \in Seq(G!Keys)
      OBVIOUS
    <3> QED  BY <1>0, <3>1 DEF EvaluationType, G!Stage
  <2> HIDE DEF r
  <2> QED  BY <1>0, <1>2, <2>1, <2>2, ReservationGoesOn
<1>3. CASE G!AllTaken(e) /\ eval[e].stage # "rate"
  BY <1>0, <1>3, VerdictIsSound DEF G!AllTaken
<1>4. CASE G!Compensate(e) /\ eval[e].taken = <<>>
  <2>1. eval[e].budget \in {"none", "allowed", "error"} \cup G!Keys
    BY <1>0 DEF EvaluationType
  <2> QED  BY <1>0, <1>4, <2>1, VerdictIsSound DEF G!Compensate
<1>5. CASE G!Compensate(e) /\ eval[e].taken # <<>>
  <2> DEFINE r == [eval[e] EXCEPT !.taken = Tail(@)]
  <2>1. /\ eval' = [eval EXCEPT ![e] = r] /\ UNCHANGED <<registry, auditLog>>
        /\ eval[e].stage = "undo"
    BY <1>0, <1>5 DEF G!Compensate, EvaluationType
  <2>2. used' \in [{"rate", "cost"} \X G!Keys -> Int]
    BY <1>0, <1>5, NextScope, PointsAreNumbers DEF G!Compensate, EvaluationType
  <2>3. /\ r \in EvaluationType /\ r.stage = "undo" /\ r.worst = eval[e].worst
        /\ r.policy = eval[e].policy /\ r.asked = eval[e].asked
    BY <1>0, <1>5, <2>1, NextScope DEF EvaluationType, G!Stage
  <2> HIDE DEF r
  <2> QED  BY <2>1, <2>2, <2>3, ReservationGoesOn
<1>6. CASE G!StoreFails(e)
  <2>1. used' \in [{"rate", "cost"} \X G!Keys -> Int]
    <3>1. CASE UNCHANGED used
      BY <1>0, <3>1
    <3>2. CASE /\ eval[e].stage \in {"rate", "cost"}
               /\ Len(eval[e].taken) < Len(G!Targets(e, eval[e].stage))
               /\ G!Take(e, eval[e].stage, G!NextTarget(e), G!Units(e, eval[e].stage))
      BY <1>0, <3>2, NextScope, PointsAreNumbers
    <3>3. CASE /\ eval[e].taken # <<>>
               /\ G!Take(e, eval[e].concern, Head(eval[e].taken),
                         -G!Units(e, eval[e].concern))
      BY <1>0, <3>3, NextScope, PointsAreNumbers DEF EvaluationType
    <3> QED  BY <1>6, <3>1, <3>2, <3>3 DEF G!StoreFails
  <2> QED  BY <1>6, <2>1, VerdictIsSound DEF G!StoreFails
<1> QED  BY <1>1, <1>2, <1>3, <1>4, <1>5, <1>6

\* The decision is recorded.
LEMMA DecideKeeps ==
    ASSUME GateSane, GateInv, NEW e \in Evaluation, G!Decide(e)
    PROVE  GateInv'
<1> DEFINE r == [eval[e] EXCEPT !.stage = "done"]
<1>0. /\ eval[e] \in EvaluationType /\ WorstIsWorst(eval[e]) /\ GateTypeOK
      /\ eval \in [Evaluation -> EvaluationType]
      /\ auditLog \in Seq(Evaluation \X G!Action) /\ eval[e].stage = "decide"
  BY DEF GateInv, GateTypeOK, G!Decide
<1>1. /\ eval' = [eval EXCEPT ![e] = r] /\ UNCHANGED <<used, registry>>
      /\ auditLog' = Append(auditLog, <<e, eval[e].worst>>)
  BY <1>0 DEF G!Decide
<1>2. /\ r \in EvaluationType /\ r.stage = "done" /\ r.worst = eval[e].worst
      /\ WorstIsWorst(r)
  BY <1>0 DEF EvaluationType, WorstIsWorst, G!Stage
<1> HIDE DEF r
<1>3. /\ eval' \in [Evaluation -> EvaluationType] /\ eval'[e] = r
      /\ \A f \in Evaluation : f # e => eval'[f] = eval[f]
  BY <1>0, <1>1, <1>2
<1>4. <<e, eval[e].worst>> \in Evaluation \X G!Action
  BY <1>0 DEF EvaluationType
<1>5. GateTypeOK'
  BY <1>0, <1>1, <1>3, <1>4 DEF GateTypeOK
<1>6. ASSUME NEW f \in Evaluation PROVE WorstIsWorst(eval[f])'
  <2>1. WorstIsWorst(eval'[f])
    BY <1>2, <1>3 DEF GateInv
  <2> QED  BY <2>1 DEF WorstIsWorst
<1>7. /\ DOMAIN auditLog = 1 .. Len(auditLog) /\ Len(auditLog) \in Nat
      /\ DOMAIN auditLog' = 1 .. Len(auditLog) + 1
      /\ auditLog'[Len(auditLog) + 1] = <<e, eval[e].worst>>
      /\ \A i \in DOMAIN auditLog : auditLog'[i] = auditLog[i]
  BY <1>0, <1>1, <1>4
<1>8. \A i \in DOMAIN auditLog : auditLog[i][1] # e
  BY <1>0 DEF GateInv, LoggedOnce
<1>9. ASSUME NEW f \in Evaluation
      PROVE  IF eval'[f].stage = "done"
             THEN \E i \in DOMAIN auditLog' :
                     /\ auditLog'[i] = <<f, eval'[f].worst>>
                     /\ \A j \in DOMAIN auditLog' : auditLog'[j][1] = f => j = i
             ELSE \A i \in DOMAIN auditLog' : auditLog'[i][1] # f
  <2>1. CASE f = e
    BY <1>2, <1>3, <1>7, <1>8, <2>1
  <2>2. CASE f # e
    <3>1. \A i \in DOMAIN auditLog' : i = Len(auditLog) + 1 \/ i \in DOMAIN auditLog
      BY <1>7
    <3>2. eval'[f] = eval[f] /\ auditLog'[Len(auditLog) + 1][1] # f
      BY <1>3, <1>7, <2>2
    <3>3. CASE eval[f].stage = "done"
      <4>1. PICK i \in DOMAIN auditLog :
                /\ auditLog[i] = <<f, eval[f].worst>>
                /\ \A j \in DOMAIN auditLog : auditLog[j][1] = f => j = i
        BY <3>3 DEF GateInv, LoggedOnce
      <4>2. i \in DOMAIN auditLog' /\ auditLog'[i] = <<f, eval[f].worst>>
        BY <1>7, <4>1
      <4>3. \A j \in DOMAIN auditLog' : auditLog'[j][1] = f => j = i
        BY <1>7, <3>1, <3>2, <4>1
      <4> QED  BY <3>2, <3>3, <4>2, <4>3
    <3>4. CASE eval[f].stage # "done"
      <4>1. \A i \in DOMAIN auditLog : auditLog[i][1] # f
        BY <3>4 DEF GateInv, LoggedOnce
      <4> QED  BY <1>7, <3>1, <3>2, <3>4, <4>1
    <3> QED  BY <3>3, <3>4
  <2> QED  BY <2>1, <2>2
<1> QED  BY <1>5, <1>6, <1>9 DEF GateInv, LoggedOnce

LEMMA GateStep ==
    ASSUME GateSane, GateInv, [G!Next]_(G!admissionVars)
    PROVE  GateInv'
<1>1. ASSUME NEW a \in Gated,
             G!Register(a) \/ G!Revoke(a) \/ G!Expire(a) \/ G!RecordInvocation(a)
      PROVE  GateInv'
  <2>1. UNCHANGED <<eval, used, auditLog>>
    BY <1>1 DEF G!Register, G!Revoke, G!Expire, G!RecordInvocation
  <2>2. /\ registry \in [Gated -> [status : {"none", "active", "revoked", "expired"},
                                   invocations : Nat]]
        /\ registry[a] \in [status : {"none", "active", "revoked", "expired"},
                            invocations : Nat]
    BY DEF GateInv, GateTypeOK
  <2>3. registry' \in [Gated -> [status : {"none", "active", "revoked", "expired"},
                                 invocations : Nat]]
    <3>1. registry[a].invocations + 1 \in Nat
      BY <2>2
    <3> QED
      BY <1>1, <2>2, <3>1 DEF G!Register, G!Revoke, G!Expire, G!RecordInvocation
  <2> QED  BY <2>1, <2>3 DEF GateInv, GateTypeOK, LoggedOnce, WorstIsWorst
<1>2. CASE UNCHANGED G!admissionVars
  BY <1>2 DEF G!admissionVars, GateInv, GateTypeOK, LoggedOnce, WorstIsWorst
<1> QED  BY <1>1, <1>2, AskingKeeps, ReservingKeeps, DecideKeeps DEF G!Next

LEMMA GateInvHolds ==
    ASSUME GateSane
    PROVE  G!Spec => []GateInv
BY GateStart, GateStep, PTL DEF G!Spec

\* ActionGate.evaluate fails closed: what it lets pass, every validator was asked and
\* let pass; and each decision is in the audit log once.
THEOREM GateStaysClosed ==
    ASSUME GateSane
    PROVE  Spec => []GateFailsClosed
<1>1. GateInv => GateFailsClosed
  <2> SUFFICES ASSUME GateInv PROVE GateFailsClosed
    OBVIOUS
  <2>1. ASSUME NEW e \in Evaluation, eval[e].stage = "done", G!Passes(eval[e].worst)
        PROVE  /\ G!Passes(eval[e].policy) /\ eval[e].asked = "active"
               /\ eval[e].budget = "allowed"
    BY <2>1 DEF GateInv, WorstIsWorst
  <2>2. ASSUME NEW e \in Evaluation
        PROVE  eval[e].stage = "done" <=>
                 Cardinality({i \in DOMAIN auditLog : auditLog[i] = <<e, eval[e].worst>>}) = 1
    <3> DEFINE entries == {i \in DOMAIN auditLog : auditLog[i] = <<e, eval[e].worst>>}
    <3>1. CASE eval[e].stage = "done"
      <4>1. \E i \in entries : entries = {i}
        BY <3>1 DEF GateInv, LoggedOnce
      <4>2. Cardinality(entries) = 1
        BY <4>1, FS_Singleton
      <4> QED  BY <3>1, <4>2
    <3>2. CASE eval[e].stage # "done"
      <4>1. entries = {}
        BY <3>2 DEF GateInv, LoggedOnce
      <4>2. Cardinality(entries) = 0
        BY <4>1, FS_EmptySet
      <4> QED  BY <3>2, <4>2
    <3> QED  BY <3>1, <3>2
  <2> QED  BY <2>1, <2>2, GateIsCounted DEF GateFailsClosed, G!GateFailsClosed
<1> QED  BY <1>1, GateInvHolds, AdmissionRunsAlone, PTL


-----------------------------------------------------------------------------
(* Admission: the budgets.                                                 *)

LEMMA Counting ==
    ASSUME NEW n \in Nat
    PROVE  IsFiniteSet(1 .. n) /\ Cardinality(1 .. n) = n
<1>1. 1 \in Int /\ n \in Int
  OBVIOUS
<1>2. IsFiniteSet(1 .. n) /\ Cardinality(1 .. n) = IF 1 > n THEN 0 ELSE n - 1 + 1
  BY <1>1, FS_Interval
<1> QED  BY <1>2

LEMMA PointsAreFinite ==
    ASSUME GateSane, NEW S \in SUBSET Evaluation
    PROVE  IsFiniteSet(UNION {{e} \X (1 .. UnitsOf[e]) : e \in S})
<1> DEFINE f == [e \in S |-> {e} \X (1 .. UnitsOf[e])]
           pieces == {{e} \X (1 .. UnitsOf[e]) : e \in S}
<1>1. IsFiniteSet(S)
  BY FS_Subset DEF GateSane
<1>2. f \in Surjection(S, pieces)
  BY DEF Surjection
<1>3. IsFiniteSet(pieces)
  BY <1>1, <1>2, FS_Surjection
<1>4. ASSUME NEW e \in S PROVE IsFiniteSet({e} \X (1 .. UnitsOf[e]))
  <2>1. UnitsOf[e] \in Nat
    BY DEF GateSane
  <2>2. IsFiniteSet(1 .. UnitsOf[e]) /\ IsFiniteSet({e})
    BY <2>1, Counting, FS_Singleton
  <2> QED  BY <2>2, FS_Product
<1>5. \A P \in pieces : IsFiniteSet(P)
  BY <1>4
<1> HIDE DEF pieces
<1>6. IsFiniteSet(UNION pieces)
  BY <1>3, <1>5, FS_UNION
<1> QED  BY <1>6 DEF pieces

\* What a sum of costs is: a number, that grows by the cost of one more evaluation.
LEMMA SumOfCosts ==
    ASSUME GateSane, NEW S \in SUBSET Evaluation
    PROVE  /\ G!Sum(S) \in Nat
           /\ \A R \in SUBSET S : G!Sum(R) <= G!Sum(S)
           /\ \A e \in Evaluation \ S : G!Sum(S \cup {e}) = G!Sum(S) + UnitsOf[e]
<1> DEFINE Points(R) == UNION {{e} \X (1 .. UnitsOf[e]) : e \in R}
<1>1. \A R \in SUBSET Evaluation : IsFiniteSet(Points(R)) /\ G!Sum(R) = Cardinality(Points(R))
  BY PointsAreFinite, GateIsCounted DEF G!Sum
<1>2. ASSUME NEW R \in SUBSET S PROVE G!Sum(R) <= G!Sum(S)
  <2>1. Points(R) \subseteq Points(S)
    OBVIOUS
  <2> HIDE DEF Points
  <2> QED  BY <1>1, <2>1, FS_Subset
<1>3. ASSUME NEW e \in Evaluation \ S PROVE G!Sum(S \cup {e}) = G!Sum(S) + UnitsOf[e]
  <2> DEFINE new == {e} \X (1 .. UnitsOf[e])
  <2>1. Points(S \cup {e}) = Points(S) \cup new /\ Points(S) \cap new = {}
    OBVIOUS
  <2>2. UnitsOf[e] \in Nat
    BY DEF GateSane
  <2>3. IsFiniteSet(new) /\ Cardinality(new) = UnitsOf[e]
    <3>1. /\ IsFiniteSet(1 .. UnitsOf[e]) /\ IsFiniteSet({e})
          /\ Cardinality(1 .. UnitsOf[e]) = UnitsOf[e] /\ Cardinality({e}) = 1
      BY <2>2, Counting, FS_Singleton
    <3>2. IsFiniteSet(new) /\ Cardinality(new) = Cardinality({e}) * Cardinality(1 .. UnitsOf[e])
      BY <3>1, FS_Product
    <3>3. 1 * UnitsOf[e] = UnitsOf[e]
      BY <2>2
    <3> QED  BY <3>1, <3>2, <3>3
  <2> HIDE DEF Points, new
  <2>4. S \in SUBSET Evaluation /\ S \cup {e} \in SUBSET Evaluation
    OBVIOUS
  <2>5. Cardinality(Points(S) \cup new) =
            Cardinality(Points(S)) + Cardinality(new) - Cardinality(Points(S) \cap new)
    BY <1>1, <2>3, <2>4, FS_Union
  <2>6. Cardinality(Points(S) \cap new) = 0 /\ Cardinality(Points(S)) \in Nat
    BY <1>1, <2>1, <2>4, FS_EmptySet, FS_CardinalityType
  <2>7. Cardinality(Points(S) \cup new) = Cardinality(Points(S)) + UnitsOf[e]
    BY <2>2, <2>3, <2>5, <2>6
  <2> QED  BY <1>1, <2>1, <2>4, <2>7
<1>4. G!Sum(S) \in Nat
  BY <1>1, FS_CardinalityType
<1> QED  BY <1>2, <1>3, <1>4

-----------------------------------------------------------------------------
(* Sequences of distinct scopes.                                           *)

LEMMA AppendNext ==
    ASSUME NEW t \in Seq(G!Keys), NEW s \in Seq(G!Keys), Len(s) < Len(t), Injective(t),
           \A i \in DOMAIN s : s[i] = t[i],
           NEW x, x = t[Len(s) + 1]
    PROVE  /\ Len(Append(s, x)) <= Len(t)
           /\ \A i \in DOMAIN Append(s, x) : Append(s, x)[i] = t[i]
           /\ G!ToSet(Append(s, x)) = G!ToSet(s) \cup {x}
           /\ x \notin G!ToSet(s) /\ x \in G!ToSet(t)
           /\ Injective(Append(s, x)) /\ G!ToSet(Append(s, x)) \subseteq G!ToSet(t)
<1> DEFINE u == Append(s, x)
<1>1. /\ x \in G!Keys /\ u \in Seq(G!Keys) /\ Len(u) = Len(s) + 1 /\ u[Len(s) + 1] = x
      /\ \A i \in 1 .. Len(s) : u[i] = s[i]
      /\ DOMAIN s = 1 .. Len(s) /\ DOMAIN t = 1 .. Len(t) /\ DOMAIN u = 1 .. Len(s) + 1
      /\ Len(s) \in Nat /\ Len(t) \in Nat
  OBVIOUS
<1> HIDE DEF u
<1>2. \A i \in DOMAIN u : u[i] = t[i]
  BY <1>1
<1>3. DOMAIN u \subseteq DOMAIN t /\ DOMAIN u = DOMAIN s \cup {Len(s) + 1}
  BY <1>1
<1>4. G!ToSet(u) = G!ToSet(s) \cup {x}
  BY <1>1, <1>3 DEF G!ToSet
<1>5. x \notin G!ToSet(s)
  <2> SUFFICES ASSUME NEW i \in DOMAIN s, s[i] = x PROVE FALSE
    BY DEF G!ToSet
  <2>1. t[i] = t[Len(s) + 1] /\ i \in DOMAIN t /\ Len(s) + 1 \in DOMAIN t /\ i # Len(s) + 1
    BY <1>1
  <2> QED  BY <2>1 DEF Injective
<1>6. x \in G!ToSet(t)
  BY <1>1 DEF G!ToSet
<1>7. Injective(u) /\ G!ToSet(u) \subseteq G!ToSet(t)
  BY <1>2, <1>3 DEF Injective, G!ToSet
<1>8. Len(u) <= Len(t)
  BY <1>1
<1> QED  BY <1>2, <1>4, <1>5, <1>6, <1>7, <1>8 DEF u

LEMMA TailOfInjective ==
    ASSUME NEW s \in Seq(G!Keys), s # <<>>, Injective(s)
    PROVE  /\ G!ToSet(Tail(s)) = G!ToSet(s) \ {Head(s)}
           /\ Head(s) \in G!ToSet(s) /\ Injective(Tail(s))
<1>1. /\ Len(s) \in Nat /\ Len(s) >= 1 /\ DOMAIN s = 1 .. Len(s) /\ Head(s) = s[1]
      /\ Tail(s) \in Seq(G!Keys) /\ Len(Tail(s)) = Len(s) - 1
      /\ DOMAIN Tail(s) = 1 .. Len(s) - 1
      /\ \A i \in 1 .. Len(s) - 1 : Tail(s)[i] = s[i + 1]
  OBVIOUS
<1>2. Injective(Tail(s))
  <2> SUFFICES ASSUME NEW i \in DOMAIN Tail(s), NEW j \in DOMAIN Tail(s),
                      Tail(s)[i] = Tail(s)[j]
               PROVE  i = j
    BY DEF Injective
  <2>1. i + 1 \in DOMAIN s /\ j + 1 \in DOMAIN s /\ s[i + 1] = s[j + 1]
    BY <1>1
  <2>2. i + 1 = j + 1
    BY <2>1 DEF Injective
  <2> QED  BY <1>1, <2>2
<1>3. Head(s) \in G!ToSet(s)
  BY <1>1 DEF G!ToSet
<1>4. ASSUME NEW x \in G!ToSet(Tail(s)) PROVE x \in G!ToSet(s) \ {Head(s)}
  <2>1. PICK i \in 1 .. Len(s) - 1 : x = s[i + 1]
    BY <1>1 DEF G!ToSet
  <2>2. i + 1 \in DOMAIN s /\ 1 \in DOMAIN s /\ i + 1 # 1
    BY <1>1
  <2> QED  BY <1>1, <2>1, <2>2 DEF Injective, G!ToSet
<1>5. ASSUME NEW x \in G!ToSet(s) \ {Head(s)} PROVE x \in G!ToSet(Tail(s))
  <2>1. PICK i \in 1 .. Len(s) : x = s[i] /\ i # 1
    BY <1>1 DEF G!ToSet
  <2>2. i - 1 \in DOMAIN Tail(s) /\ Tail(s)[i - 1] = x
    BY <1>1, <2>1
  <2> QED  BY <2>2 DEF G!ToSet
<1> QED  BY <1>2, <1>3, <1>4, <1>5

LEMMA WholePrefix ==
    ASSUME NEW t \in Seq(G!Keys), NEW s \in Seq(G!Keys), Len(s) = Len(t),
           \A i \in DOMAIN s : s[i] = t[i]
    PROVE  s = t
OBVIOUS

LEMMA EmptySequence == /\ G!ToSet(<<>>) = {} /\ Injective(<<>>)
BY DEF G!ToSet, Injective

-----------------------------------------------------------------------------
\* One evaluation changes: who is granted and charged what.
LEMMA OneIsGranted ==
    ASSUME GateSane, BudgetInv, NEW e \in Evaluation, NEW r \in EvaluationType,
           eval' = [eval EXCEPT ![e] = r], NEW k
    PROVE  /\ Granted(k)' = IF IsGranted(r, k) THEN Granted(k) \cup {e} ELSE Granted(k) \ {e}
           /\ Charged(k)' = IF IsCharged(r, k) THEN Charged(k) \cup {e} ELSE Charged(k) \ {e}
<1>1. eval'[e] = r /\ \A f \in Evaluation : f # e => eval'[f] = eval[f]
  BY DEF BudgetInv, GateInv, GateTypeOK
<1>2. /\ Granted(k)' = {f \in Evaluation : IsGranted(eval'[f], k)}
      /\ Charged(k)' = {f \in Evaluation : IsCharged(eval'[f], k)}
  BY DEF Granted, Charged, IsGranted, IsCharged
<1> QED  BY <1>1, <1>2 DEF Granted, Charged

\* Nothing changes for a scope.
LEMMA ScopeUntouched ==
    ASSUME GateSane, BudgetInv, NEW k \in G!Keys,
           Granted(k)' = Granted(k), Charged(k)' = Charged(k),
           used'[<<"cost", k>>] = used[<<"cost", k>>], NoErrors' => NoErrors
    PROVE  PointsAreHeld(k)'
<1>1. PointsAreHeld(k)
  BY DEF BudgetInv
<1>2. G!Sum(Granted(k))' = G!Sum(Granted(k)) /\ G!Sum(Charged(k))' = G!Sum(Charged(k))
  BY DEF G!Sum
<1>3. G!Limit("cost", k)' = G!Limit("cost", k)
  BY DEF G!Limit
<1> QED  BY <1>1, <1>2, <1>3 DEF PointsAreHeld

\* An evaluation goes on, with what it was granted and charged.
LEMMA EvaluationGoesOn ==
    ASSUME GateSane, BudgetInv, GateInv', NEW e \in Evaluation, NEW r \in EvaluationType,
           eval' = [eval EXCEPT ![e] = r], TakenInOrder(e, r),
           \A k \in G!Keys : PointsAreHeld(k)'
    PROVE  BudgetInv'
<1>1. eval'[e] = r /\ \A f \in Evaluation : f # e => eval'[f] = eval[f]
  BY DEF BudgetInv, GateInv, GateTypeOK
<1>2. ASSUME NEW f \in Evaluation PROVE TakenInOrder(f, eval[f])'
  <2>1. TakenInOrder(f, eval'[f])
    BY <1>1 DEF BudgetInv
  <2> QED  BY <2>1 DEF TakenInOrder, G!Targets, G!Limit
<1> QED  BY <1>2 DEF BudgetInv

LEMMA QuietStep ==
    ASSUME GateSane, BudgetInv, GateInv', NEW e \in Evaluation, NEW r \in EvaluationType,
           eval' = [eval EXCEPT ![e] = r], TakenInOrder(e, r),
           \A k \in G!Keys : /\ IsGranted(r, k) <=> IsGranted(eval[e], k)
                             /\ IsCharged(r, k) <=> IsCharged(eval[e], k)
                             /\ used'[<<"cost", k>>] = used[<<"cost", k>>],
           eval[e].budget # "error"
    PROVE  BudgetInv'
<1>1. NoErrors' => NoErrors
  BY DEF NoErrors, BudgetInv, GateInv, GateTypeOK
<1>2. ASSUME NEW k \in G!Keys PROVE PointsAreHeld(k)'
  <2>1. Granted(k)' = Granted(k) /\ Charged(k)' = Charged(k)
    BY OneIsGranted DEF Granted, Charged
  <2> QED  BY <1>1, <2>1, ScopeUntouched
<1> QED  BY <1>2, EvaluationGoesOn

LEMMA BudgetStart ==
    ASSUME GateSane
    PROVE  G!Init => BudgetInv
<1> SUFFICES ASSUME G!Init PROVE BudgetInv
  OBVIOUS
<1>1. GateInv
  BY GateStart
<1>2. \A e \in Evaluation :
        /\ eval[e].stage = "new" /\ eval[e].concern = "rate" /\ eval[e].taken = <<>>
        /\ eval[e].budget = "none"
  BY DEF G!Init
<1>3. ASSUME NEW e \in Evaluation PROVE TakenInOrder(e, eval[e])
  BY <1>2, EmptySequence DEF TakenInOrder
<1>4. ASSUME NEW k \in G!Keys PROVE PointsAreHeld(k)
  <2>1. Granted(k) = {} /\ Charged(k) = {}
    BY <1>2 DEF Granted, Charged, IsGranted, IsCharged
  <2>2. UNION {{e} \X (1 .. UnitsOf[e]) : e \in {}} = {}
    OBVIOUS
  <2>3. G!Sum({}) = 0
    BY <2>2, GateIsCounted, FS_EmptySet DEF G!Sum
  <2>4. used[<<"cost", k>>] = 0 /\ G!Limit("cost", k) \in Nat
    BY DEF G!Init, G!Limit, GateSane
  <2> QED  BY <2>1, <2>3, <2>4 DEF PointsAreHeld
<1> QED  BY <1>1, <1>3, <1>4 DEF BudgetInv

\* The facts a step of an evaluation starts from.
LEMMA EvaluationFacts ==
    ASSUME GateSane, BudgetInv, NEW e \in Evaluation
    PROVE  /\ eval[e] \in EvaluationType /\ TakenInOrder(e, eval[e])
           /\ eval \in [Evaluation -> EvaluationType] /\ GateTypeOK
           /\ used \in [{"rate", "cost"} \X G!Keys -> Int]
           /\ eval[e].taken \in Seq(G!Keys) /\ eval[e].concern \in {"rate", "cost"}
           /\ G!Keys \cap {"none", "allowed", "error"} = {}
           /\ G!Targets(e, eval[e].concern) \in Seq(G!Keys)
           /\ Injective(G!Targets(e, eval[e].concern))
           /\ UnitsOf[e] \in Nat
<1>1. /\ eval[e] \in EvaluationType /\ TakenInOrder(e, eval[e])
      /\ eval \in [Evaluation -> EvaluationType] /\ GateTypeOK
      /\ used \in [{"rate", "cost"} \X G!Keys -> Int]
  BY DEF BudgetInv, GateInv, GateTypeOK
<1>2. eval[e].taken \in Seq(G!Keys) /\ eval[e].concern \in {"rate", "cost"}
  BY <1>1 DEF EvaluationType
<1>3. /\ G!Targets(e, eval[e].concern) \in Seq(G!Keys)
      /\ Injective(G!Targets(e, eval[e].concern))
  BY <1>2, TargetsAreScopes
<1> QED  BY <1>1, <1>2, <1>3 DEF GateSane

\* Steps that only ask, decide or move on.
LEMMA AskingHolds ==
    ASSUME GateSane, BudgetInv, GateInv', NEW e \in Evaluation,
           \/ \E v \in {"allow", "escalate"} : G!AskPolicy(e, v)
           \/ G!AskRegistry(e) \/ G!Decide(e)
    PROVE  BudgetInv'
<1>1. PICK r \in EvaluationType :
        /\ eval' = [eval EXCEPT ![e] = r]
        /\ \/ eval[e].stage = "new" /\ r.stage = "registry"
           \/ eval[e].stage = "registry" /\ r.stage = "rate"
           \/ eval[e].stage = "decide" /\ r.stage = "done"
        /\ r.concern = eval[e].concern /\ r.taken = eval[e].taken
        /\ r.budget = eval[e].budget
  <2>1. eval'[e] \in EvaluationType /\ eval[e] \in EvaluationType
    BY DEF BudgetInv, GateInv, GateTypeOK
  <2>2. eval \in [Evaluation -> EvaluationType]
    BY DEF BudgetInv, GateInv, GateTypeOK
  <2>3. ASSUME NEW v \in {"allow", "escalate"}, G!AskPolicy(e, v)
        PROVE  /\ eval' = [eval EXCEPT ![e] = eval'[e]]
               /\ eval[e].stage = "new" /\ eval'[e].stage = "registry"
               /\ eval'[e].concern = eval[e].concern /\ eval'[e].taken = eval[e].taken
               /\ eval'[e].budget = eval[e].budget
    BY <2>1, <2>2, <2>3 DEF G!AskPolicy, EvaluationType
  <2>4. CASE G!AskRegistry(e)
    <3>1. /\ eval' = [eval EXCEPT ![e] = eval'[e]]
          /\ eval[e].stage = "registry" /\ eval'[e].stage = "rate"
          /\ eval'[e].concern = eval[e].concern /\ eval'[e].taken = eval[e].taken
          /\ eval'[e].budget = eval[e].budget
      BY <2>1, <2>2, <2>4 DEF G!AskRegistry, EvaluationType
    <3> QED  BY <2>1, <3>1
  <2>5. CASE G!Decide(e)
    <3>1. /\ eval' = [eval EXCEPT ![e] = eval'[e]]
          /\ eval[e].stage = "decide" /\ eval'[e].stage = "done"
          /\ eval'[e].concern = eval[e].concern /\ eval'[e].taken = eval[e].taken
          /\ eval'[e].budget = eval[e].budget
      BY <2>1, <2>2, <2>5 DEF G!Decide, EvaluationType
    <3> QED  BY <2>1, <3>1
  <2> QED  BY <2>1, <2>3, <2>4, <2>5
<1>2. TakenInOrder(e, eval[e])
  BY EvaluationFacts
<1>3. TakenInOrder(e, r)
  <2>1. eval[e].stage = "registry" => /\ r.taken = <<>> /\ r.concern = "rate"
                                      /\ r.budget = "none"
    BY <1>1, <1>2 DEF TakenInOrder
  <2>2. Len(<<>>) = 0 /\ DOMAIN <<>> = {} /\ \A s \in Seq(G!Keys) : 0 <= Len(s)
    OBVIOUS
  <2>3. G!Targets(e, "rate") \in Seq(G!Keys)
    BY TargetsAreScopes
  <2> QED  BY <1>1, <1>2, <2>1, <2>2, <2>3 DEF TakenInOrder
<1>4. used' = used
  BY DEF G!AskPolicy, G!AskRegistry, G!Decide
<1>5. CASE eval[e].budget # "error"
  BY <1>1, <1>3, <1>4, <1>5, QuietStep DEF IsGranted, IsCharged
<1>6. CASE eval[e].budget = "error"
  <2>1. \A k \in G!Keys : Granted(k)' = Granted(k) /\ Charged(k)' = Charged(k)
    BY <1>1, OneIsGranted DEF Granted, Charged, IsGranted, IsCharged
  <2>2. NoErrors' => NoErrors
    BY <1>1, <1>6 DEF NoErrors, BudgetInv, GateInv, GateTypeOK
  <2>3. \A k \in G!Keys : PointsAreHeld(k)'
    BY <1>4, <2>1, <2>2, ScopeUntouched
  <2> QED  BY <1>1, <1>3, <2>3, EvaluationGoesOn
<1> QED  BY <1>5, <1>6

\* All scopes gave their points.
LEMMA AllTakenHolds ==
    ASSUME GateSane, BudgetInv, GateInv', NEW e \in Evaluation, G!AllTaken(e)
    PROVE  BudgetInv'
<1>0. /\ eval[e] \in EvaluationType /\ TakenInOrder(e, eval[e])
      /\ eval \in [Evaluation -> EvaluationType]
      /\ eval[e].taken \in Seq(G!Keys) /\ eval[e].concern \in {"rate", "cost"}
      /\ G!Keys \cap {"none", "allowed", "error"} = {}
      /\ G!Targets(e, eval[e].concern) \in Seq(G!Keys)
  BY EvaluationFacts
<1>1. /\ eval[e].stage \in {"rate", "cost"} /\ eval[e].concern = eval[e].stage
      /\ eval[e].budget = "none" /\ used' = used
      /\ Len(eval[e].taken) = Len(G!Targets(e, eval[e].concern))
  BY <1>0 DEF G!AllTaken, TakenInOrder
<1>2. CASE eval[e].stage = "rate"
  <2> DEFINE r == [eval[e] EXCEPT !.stage = "cost", !.concern = "cost", !.taken = <<>>]
  <2>1. eval' = [eval EXCEPT ![e] = r]
    BY <1>0, <1>2 DEF G!AllTaken, EvaluationType
  <2>2. /\ r.stage = "cost" /\ r.concern = "cost" /\ r.taken = <<>> /\ r.budget = "none"
    BY <1>0, <1>1 DEF EvaluationType
  <2>3. r \in EvaluationType
    <3>1. <<>> \in Seq(G!Keys)
      OBVIOUS
    <3> QED  BY <1>0, <3>1 DEF EvaluationType, G!Stage
  <2> HIDE DEF r
  <2>4. G!Targets(e, "cost") \in Seq(G!Keys)
    BY TargetsAreScopes
  <2>5. TakenInOrder(e, r)
    BY <2>2, <2>4, EmptySequence DEF TakenInOrder
  <2>6. \A k \in G!Keys : /\ IsGranted(r, k) <=> IsGranted(eval[e], k)
                          /\ IsCharged(r, k) <=> IsCharged(eval[e], k)
    BY <1>0, <1>1, <1>2, <2>2, EmptySequence DEF IsGranted, IsCharged
  <2> QED  BY <1>1, <2>1, <2>3, <2>5, <2>6, QuietStep
<1>3. CASE eval[e].stage = "cost"
  <2> DEFINE w == G!Worse(eval[e].worst, "allow")
             r == [eval[e] EXCEPT !.stage = "decide", !.worst = w, !.budget = "allowed"]
  <2>1. eval' = [eval EXCEPT ![e] = r]
    BY <1>0, <1>3 DEF G!AllTaken, G!Verdict, EvaluationType
  <2>2. eval'[e] = r /\ r \in EvaluationType
    BY <1>0, <2>1 DEF GateInv, GateTypeOK
  <2>3. /\ r.stage = "decide" /\ r.concern = "cost" /\ r.taken = eval[e].taken
        /\ r.budget = "allowed"
    BY <1>0, <1>1, <1>3 DEF EvaluationType
  <2> HIDE DEF r
  <2>4. eval[e].taken = G!Targets(e, "cost")
    <3>1. \A i \in DOMAIN eval[e].taken : eval[e].taken[i] = G!Targets(e, "cost")[i]
      BY <1>0, <1>1, <1>3 DEF TakenInOrder
    <3> QED  BY <1>0, <1>1, <1>3, <3>1, WholePrefix
  <2>5. TakenInOrder(e, r)
    BY <1>0, <1>1, <1>3, <2>3, <2>4 DEF TakenInOrder
  <2>6. \A k \in G!Keys : /\ IsGranted(r, k) <=> IsGranted(eval[e], k)
                          /\ IsCharged(r, k) <=> IsCharged(eval[e], k)
    BY <1>0, <1>1, <1>3, <2>3 DEF IsGranted, IsCharged
  <2> QED  BY <1>1, <2>1, <2>2, <2>5, <2>6, QuietStep
<1> QED  BY <1>1, <1>2, <1>3

\* A scope is asked for its points.
LEMMA ConsumeHolds ==
    ASSUME GateSane, BudgetInv, GateInv', NEW e \in Evaluation, G!Consume(e)
    PROVE  BudgetInv'
<1> DEFINE key == G!NextTarget(e)
           targets == G!Targets(e, eval[e].concern)
           u == G!Units(e, eval[e].concern)
           accepted == [eval[e] EXCEPT !.taken = Append(@, key)]
           refused == [eval[e] EXCEPT !.stage = "undo", !.budget = key]
<1>0. /\ eval[e] \in EvaluationType /\ TakenInOrder(e, eval[e])
      /\ eval \in [Evaluation -> EvaluationType]
      /\ used \in [{"rate", "cost"} \X G!Keys -> Int]
      /\ eval[e].taken \in Seq(G!Keys) /\ eval[e].concern \in {"rate", "cost"}
      /\ G!Keys \cap {"none", "allowed", "error"} = {}
      /\ targets \in Seq(G!Keys) /\ Injective(targets) /\ UnitsOf[e] \in Nat
  BY EvaluationFacts
<1>1. /\ eval[e].stage \in {"rate", "cost"} /\ eval[e].concern = eval[e].stage
      /\ eval[e].budget = "none" /\ Len(eval[e].taken) < Len(targets)
      /\ \A i \in DOMAIN eval[e].taken : eval[e].taken[i] = targets[i]
      /\ key = targets[Len(eval[e].taken) + 1]
      /\ Injective(eval[e].taken) /\ G!ToSet(eval[e].taken) \subseteq G!ToSet(targets)
  BY <1>0 DEF G!Consume, TakenInOrder, G!NextTarget
<1>3. key \in G!Keys /\ key \notin {"none", "allowed", "error"}
  <2>1. Len(eval[e].taken) + 1 \in 1 .. Len(targets)
    BY <1>0, <1>1
  <2> QED  BY <1>0, <1>1, <2>1
<1>4. used' = [used EXCEPT ![<<eval[e].concern, key>>] = @ + u]
  BY <1>1 DEF G!Consume, G!Take
<1>5. u \in Nat /\ (eval[e].concern = "cost" => u = UnitsOf[e])
  BY <1>0 DEF G!Units
<1>6. \/ /\ eval' = [eval EXCEPT ![e] = accepted]
         /\ used[<<eval[e].concern, key>>] + u <= G!Limit(eval[e].concern, key)
      \/ eval' = [eval EXCEPT ![e] = refused]
  BY <1>0, <1>1 DEF G!Consume, EvaluationType
<1>7. /\ accepted.stage = eval[e].stage /\ accepted.concern = eval[e].concern
      /\ accepted.budget = "none" /\ accepted.taken = Append(eval[e].taken, key)
      /\ refused.stage = "undo" /\ refused.concern = eval[e].concern
      /\ refused.budget = key /\ refused.taken = eval[e].taken
  BY <1>0, <1>1 DEF EvaluationType
<1> HIDE DEF accepted, refused, key, targets, u
<1>2. /\ Len(Append(eval[e].taken, key)) <= Len(targets)
      /\ \A i \in DOMAIN Append(eval[e].taken, key) :
            Append(eval[e].taken, key)[i] = targets[i]
      /\ G!ToSet(Append(eval[e].taken, key)) = G!ToSet(eval[e].taken) \cup {key}
      /\ key \notin G!ToSet(eval[e].taken) /\ key \in G!ToSet(targets)
      /\ Injective(Append(eval[e].taken, key))
      /\ G!ToSet(Append(eval[e].taken, key)) \subseteq G!ToSet(targets)
  <2> DEFINE s == eval[e].taken
  <2>1. /\ s \in Seq(G!Keys) /\ targets \in Seq(G!Keys) /\ Len(s) < Len(targets)
        /\ Injective(targets) /\ (\A i \in DOMAIN s : s[i] = targets[i])
        /\ key = targets[Len(s) + 1]
    BY <1>0, <1>1
  <2> HIDE DEF s
  <2>2. /\ Len(Append(s, key)) <= Len(targets)
        /\ \A i \in DOMAIN Append(s, key) : Append(s, key)[i] = targets[i]
        /\ G!ToSet(Append(s, key)) = G!ToSet(s) \cup {key}
        /\ key \notin G!ToSet(s) /\ key \in G!ToSet(targets)
        /\ Injective(Append(s, key)) /\ G!ToSet(Append(s, key)) \subseteq G!ToSet(targets)
    BY <2>1, AppendNext
  <2> QED  BY <2>2 DEF s
<1>8. TakenInOrder(e, accepted)
  BY <1>0, <1>1, <1>2, <1>7 DEF TakenInOrder, targets
<1>9. TakenInOrder(e, refused)
  BY <1>0, <1>1, <1>2, <1>3, <1>7 DEF TakenInOrder, targets
<1>10. \A k \in G!Keys : k # key \/ eval[e].concern = "rate" =>
          used'[<<"cost", k>>] = used[<<"cost", k>>]
  BY <1>0, <1>4
<1>11. ASSUME NEW r \in {accepted, refused}, eval' = [eval EXCEPT ![e] = r],
              eval[e].concern = "rate"
       PROVE  BudgetInv'
  <2>1. r \in EvaluationType
    BY <1>0, <1>11 DEF GateInv, GateTypeOK
  <2>2. TakenInOrder(e, r) /\ r.concern = "rate"
    BY <1>7, <1>8, <1>9, <1>11
  <2>3. eval[e].budget # "error"
    BY <1>1
  <2> QED
    BY <1>10, <1>11, <2>1, <2>2, <2>3, QuietStep DEF IsGranted, IsCharged
<1>12. ASSUME eval' = [eval EXCEPT ![e] = accepted], eval[e].concern = "cost",
              used[<<"cost", key>>] + u <= G!Limit("cost", key)
       PROVE  BudgetInv'
  <2>1. accepted \in EvaluationType
    BY <1>0, <1>12 DEF GateInv, GateTypeOK
  <2>2. \A k : /\ IsCharged(accepted, k) => k = "none"
               /\ IsCharged(eval[e], k) => k = "none"
               /\ IsGranted(accepted, k) <=> k \in G!ToSet(eval[e].taken) \cup {key}
               /\ IsGranted(eval[e], k) <=> k \in G!ToSet(eval[e].taken)
    BY <1>1, <1>2, <1>7, <1>12 DEF IsGranted, IsCharged
  <2>3. NoErrors' => NoErrors
    BY <1>0, <1>1, <1>12 DEF NoErrors
  <2>4. ASSUME NEW k \in G!Keys, k # key PROVE PointsAreHeld(k)'
    <3>1. Granted(k)' = Granted(k) /\ Charged(k)' = Charged(k)
      BY <1>0, <1>12, <2>1, <2>2, <2>4, OneIsGranted DEF Granted, Charged
    <3> QED  BY <1>10, <2>3, <2>4, <3>1, ScopeUntouched
  <2>5. ASSUME NEW k \in G!Keys, k = key PROVE PointsAreHeld(k)'
    <3>1. /\ Granted(k)' = Granted(k) \cup {e} /\ Charged(k)' = Charged(k)
          /\ e \notin Granted(k)
      BY <2>5, <1>0, <1>2, <1>3, <1>12, <2>1, <2>2, OneIsGranted DEF Granted, Charged
    <3>2. Granted(k) \in SUBSET Evaluation /\ Charged(k) \in SUBSET Evaluation
      BY DEF Granted, Charged
    <3>3. G!Sum(Granted(k) \cup {e}) = G!Sum(Granted(k)) + u
      BY <2>5, <1>5, <1>12, <3>1, <3>2, SumOfCosts
    <3>4. G!Sum(Granted(k)) \in Nat /\ G!Sum(Charged(k)) \in Nat
      BY <2>5, <3>2, SumOfCosts
    <3>5. G!Sum(Granted(k))' = G!Sum(Granted(k)) + u /\ G!Sum(Charged(k))' = G!Sum(Charged(k))
      BY <2>5, <3>1, <3>3 DEF G!Sum
    <3>6. used'[<<"cost", k>>] = used[<<"cost", k>>] + u /\ used[<<"cost", k>>] \in Int
      BY <2>5, <1>0, <1>3, <1>4, <1>12
    <3>7. PointsAreHeld(k) /\ G!Limit("cost", k) \in Nat
      BY <2>5, <1>3 DEF BudgetInv, GateSane, G!Limit
    <3>8. G!Limit("cost", k)' = G!Limit("cost", k)
      BY DEF G!Limit
    <3> QED  BY <2>5, <1>5, <1>12, <2>3, <3>4, <3>5, <3>6, <3>7, <3>8 DEF PointsAreHeld
  <2> QED  BY <1>8, <1>12, <2>1, <2>4, <2>5, EvaluationGoesOn
<1>13. ASSUME eval' = [eval EXCEPT ![e] = refused], eval[e].concern = "cost"
       PROVE  BudgetInv'
  <2>1. refused \in EvaluationType
    BY <1>0, <1>13 DEF GateInv, GateTypeOK
  <2>2. \A k \in G!Keys : /\ IsCharged(refused, k) <=> k = key
                          /\ ~IsCharged(eval[e], k)
                          /\ IsGranted(refused, k) <=> IsGranted(eval[e], k)
    BY <1>0, <1>1, <1>3, <1>7, <1>13 DEF IsGranted, IsCharged
  <2>3. NoErrors' => NoErrors
    BY <1>0, <1>1, <1>13 DEF NoErrors
  <2>4. ASSUME NEW k \in G!Keys, k # key PROVE PointsAreHeld(k)'
    <3>1. Granted(k)' = Granted(k) /\ Charged(k)' = Charged(k)
      BY <1>0, <1>13, <2>1, <2>2, <2>4, OneIsGranted DEF Granted, Charged
    <3> QED  BY <1>10, <2>3, <2>4, <3>1, ScopeUntouched
  <2>5. ASSUME NEW k \in G!Keys, k = key PROVE PointsAreHeld(k)'
    <3>1. /\ Charged(k)' = Charged(k) \cup {e} /\ Granted(k)' = Granted(k)
          /\ e \notin Charged(k)
      BY <2>5, <1>0, <1>3, <1>13, <2>1, <2>2, OneIsGranted DEF Granted, Charged
    <3>2. Granted(k) \in SUBSET Evaluation /\ Charged(k) \in SUBSET Evaluation
      BY DEF Granted, Charged
    <3>3. G!Sum(Charged(k) \cup {e}) = G!Sum(Charged(k)) + u
      BY <2>5, <1>5, <1>13, <3>1, <3>2, SumOfCosts
    <3>4. G!Sum(Granted(k)) \in Nat /\ G!Sum(Charged(k)) \in Nat
      BY <2>5, <3>2, SumOfCosts
    <3>5. G!Sum(Charged(k))' = G!Sum(Charged(k)) + u /\ G!Sum(Granted(k))' = G!Sum(Granted(k))
      BY <2>5, <3>1, <3>3 DEF G!Sum
    <3>6. used'[<<"cost", k>>] = used[<<"cost", k>>] + u /\ used[<<"cost", k>>] \in Int
      BY <2>5, <1>0, <1>3, <1>4, <1>13
    <3>7. PointsAreHeld(k) /\ G!Limit("cost", k)' = G!Limit("cost", k)
      BY <2>5, <1>3 DEF BudgetInv, G!Limit
    <3> QED  BY <2>5, <1>5, <2>3, <3>4, <3>5, <3>6, <3>7 DEF PointsAreHeld
  <2> QED  BY <1>9, <1>13, <2>1, <2>4, <2>5, EvaluationGoesOn
<1> QED  BY <1>0, <1>6, <1>11, <1>12, <1>13

\* One evaluation less in a sum.
LEMMA SumWithout ==
    ASSUME GateSane, NEW S \in SUBSET Evaluation, NEW e \in Evaluation
    PROVE  /\ G!Sum(S \ {e}) \in Nat /\ G!Sum(S) \in Nat
           /\ G!Sum(S \ {e}) <= G!Sum(S)
           /\ e \in S => G!Sum(S) = G!Sum(S \ {e}) + UnitsOf[e]
<1>1. /\ S \ {e} \in SUBSET Evaluation /\ S \ {e} \in SUBSET S
      /\ e \in Evaluation \ (S \ {e})
  OBVIOUS
<1>2. e \in S => (S \ {e}) \cup {e} = S
  OBVIOUS
<1>3. G!Sum((S \ {e}) \cup {e}) = G!Sum(S \ {e}) + UnitsOf[e]
  BY <1>1, SumOfCosts
<1> QED  BY <1>1, <1>2, <1>3, SumOfCosts

\* What was taken is given back, one scope at a time.
LEMMA CompensateHolds ==
    ASSUME GateSane, BudgetInv, GateInv', NEW e \in Evaluation, G!Compensate(e)
    PROVE  BudgetInv'
<1> DEFINE key == Head(eval[e].taken)
           u == G!Units(e, eval[e].concern)
<1>0. /\ eval[e] \in EvaluationType /\ TakenInOrder(e, eval[e])
      /\ eval \in [Evaluation -> EvaluationType]
      /\ used \in [{"rate", "cost"} \X G!Keys -> Int]
      /\ eval[e].taken \in Seq(G!Keys) /\ eval[e].concern \in {"rate", "cost"}
      /\ G!Keys \cap {"none", "allowed", "error"} = {}
      /\ G!Targets(e, eval[e].concern) \in Seq(G!Keys) /\ UnitsOf[e] \in Nat
  BY EvaluationFacts
<1>1. /\ eval[e].stage = "undo"
      /\ eval[e].budget \in G!ToSet(G!Targets(e, eval[e].concern))
      /\ eval[e].budget \notin G!ToSet(eval[e].taken)
      /\ Injective(eval[e].taken)
      /\ G!ToSet(eval[e].taken) \subseteq G!ToSet(G!Targets(e, eval[e].concern))
  BY <1>0 DEF G!Compensate, TakenInOrder
<1>2. eval[e].budget \in G!Keys /\ eval[e].budget \notin {"none", "allowed", "error"}
  BY <1>0, <1>1 DEF G!ToSet
<1>3. CASE eval[e].taken = <<>>
  <2> DEFINE r == [eval[e] EXCEPT !.stage = "decide", !.worst = G!Worse(@, "block")]
  <2>1. eval' = [eval EXCEPT ![e] = r] /\ used' = used
    BY <1>0, <1>3 DEF G!Compensate, G!Verdict, EvaluationType
  <2>2. r \in EvaluationType
    <3>1. eval'[e] = r
      BY <1>0, <2>1
    <3> HIDE DEF r
    <3>2. eval'[e] \in EvaluationType
      BY DEF GateInv, GateTypeOK
    <3> QED  BY <3>1, <3>2
  <2>3. /\ r.stage = "decide" /\ r.concern = eval[e].concern /\ r.taken = eval[e].taken
        /\ r.budget = eval[e].budget
    BY <1>0 DEF EvaluationType
  <2> HIDE DEF r
  <2>4. TakenInOrder(e, r)
    BY <1>1, <1>2, <1>3, <2>3 DEF TakenInOrder
  <2> QED
    BY <1>2, <2>1, <2>2, <2>3, <2>4, QuietStep DEF IsGranted, IsCharged
<1>4. CASE eval[e].taken # <<>>
  <2> DEFINE r == [eval[e] EXCEPT !.taken = Tail(@)]
  <2>1. /\ eval' = [eval EXCEPT ![e] = r]
        /\ used' = [used EXCEPT ![<<eval[e].concern, key>>] = @ + (-u)]
    BY <1>0, <1>4 DEF G!Compensate, G!Take, EvaluationType
  <2>2. r \in EvaluationType
    <3>1. eval'[e] = r
      BY <1>0, <2>1
    <3> HIDE DEF r
    <3>2. eval'[e] \in EvaluationType
      BY DEF GateInv, GateTypeOK
    <3> QED  BY <3>1, <3>2
  <2>3. /\ r.stage = "undo" /\ r.concern = eval[e].concern /\ r.taken = Tail(eval[e].taken)
        /\ r.budget = eval[e].budget
    BY <1>0, <1>1 DEF EvaluationType
  <2>4. /\ G!ToSet(Tail(eval[e].taken)) = G!ToSet(eval[e].taken) \ {key}
        /\ key \in G!ToSet(eval[e].taken) /\ Injective(Tail(eval[e].taken))
    <3> DEFINE s == eval[e].taken
    <3>1. s \in Seq(G!Keys) /\ s # <<>> /\ Injective(s)
      BY <1>0, <1>1, <1>4
    <3> HIDE DEF s
    <3>2. /\ G!ToSet(Tail(s)) = G!ToSet(s) \ {Head(s)}
          /\ Head(s) \in G!ToSet(s) /\ Injective(Tail(s))
      BY <3>1, TailOfInjective
    <3> QED  BY <3>2 DEF s
  <2>5. u \in Nat /\ (eval[e].concern = "cost" => u = UnitsOf[e])
    BY <1>0 DEF G!Units
  <2>6. key \in G!Keys
    BY <1>0, <2>4 DEF G!ToSet
  <2> HIDE DEF r, key, u
  <2>7. TakenInOrder(e, r)
    BY <1>1, <1>2, <2>3, <2>4 DEF TakenInOrder
  <2>8. \A k \in G!Keys : k # key \/ eval[e].concern = "rate" =>
            used'[<<"cost", k>>] = used[<<"cost", k>>]
    BY <1>0, <2>1
  <2>9. NoErrors' => NoErrors
    BY <1>0, <1>2, <2>1 DEF NoErrors
  <2>10. CASE eval[e].concern = "rate"
    BY <1>2, <2>1, <2>2, <2>3, <2>7, <2>8, <2>10, QuietStep DEF IsGranted, IsCharged
  <2>11. CASE eval[e].concern = "cost"
    <3>1. \A k : /\ IsCharged(r, k) <=> IsCharged(eval[e], k)
                 /\ IsGranted(r, k) <=> k \in G!ToSet(eval[e].taken) \ {key}
                 /\ IsGranted(eval[e], k) <=> k \in G!ToSet(eval[e].taken)
      BY <1>2, <2>3, <2>4, <2>11 DEF IsGranted, IsCharged
    <3>2. ASSUME NEW k \in G!Keys, k # key PROVE PointsAreHeld(k)'
      <4>1. Granted(k)' = Granted(k) /\ Charged(k)' = Charged(k)
        BY <2>1, <2>2, <3>1, <3>2, OneIsGranted DEF Granted, Charged
      <4> QED  BY <2>8, <2>9, <3>2, <4>1, ScopeUntouched
    <3>3. ASSUME NEW k \in G!Keys, k = key PROVE PointsAreHeld(k)'
      <4>1. /\ Granted(k)' = Granted(k) \ {e} /\ Charged(k)' = Charged(k)
            /\ e \in Granted(k)
        <5>1. ~IsGranted(r, k) /\ IsGranted(eval[e], k)
          BY <2>4, <3>1, <3>3
        <5>2. e \in Granted(k) /\ (IsCharged(r, k) <=> e \in Charged(k))
          BY <3>1, <5>1 DEF Granted, Charged
        <5>3. /\ Granted(k)' = IF IsGranted(r, k) THEN Granted(k) \cup {e} ELSE Granted(k) \ {e}
              /\ Charged(k)' = IF IsCharged(r, k) THEN Charged(k) \cup {e} ELSE Charged(k) \ {e}
          BY <2>1, <2>2, OneIsGranted
        <5> QED  BY <5>1, <5>2, <5>3
      <4>2. Granted(k) \in SUBSET Evaluation /\ Charged(k) \in SUBSET Evaluation
        BY DEF Granted, Charged
      <4>3. /\ G!Sum(Granted(k)) = G!Sum(Granted(k) \ {e}) + u
            /\ G!Sum(Granted(k) \ {e}) \in Nat /\ G!Sum(Granted(k)) \in Nat
            /\ G!Sum(Charged(k)) \in Nat
        BY <2>5, <2>11, <4>1, <4>2, SumWithout
      <4>4. /\ G!Sum(Granted(k))' = G!Sum(Granted(k) \ {e})
            /\ G!Sum(Charged(k))' = G!Sum(Charged(k))
        BY <4>1 DEF G!Sum
      <4>5. used'[<<"cost", k>>] = used[<<"cost", k>>] - u /\ used[<<"cost", k>>] \in Int
        BY <1>0, <2>1, <2>5, <2>6, <2>11, <3>3
      <4>6. PointsAreHeld(k) /\ G!Limit("cost", k) \in Nat
        BY DEF BudgetInv, GateSane, G!Limit
      <4>7. G!Limit("cost", k)' = G!Limit("cost", k)
        BY DEF G!Limit
      <4> QED  BY <2>5, <2>9, <4>3, <4>4, <4>5, <4>6, <4>7 DEF PointsAreHeld
    <3> QED  BY <2>1, <2>2, <2>7, <3>2, <3>3, EvaluationGoesOn
  <2> QED  BY <1>0, <2>10, <2>11
<1> QED  BY <1>3, <1>4

\* The store fails in the middle.
LEMMA StoreFailsHolds ==
    ASSUME GateSane, BudgetInv, GateInv', NEW e \in Evaluation, G!StoreFails(e)
    PROVE  BudgetInv'
<1> DEFINE r == [eval[e] EXCEPT !.stage = "decide", !.worst = G!Worse(@, "block"),
                                !.budget = "error"]
<1>0. /\ eval[e] \in EvaluationType /\ TakenInOrder(e, eval[e])
      /\ eval \in [Evaluation -> EvaluationType] /\ GateTypeOK
      /\ used \in [{"rate", "cost"} \X G!Keys -> Int]
      /\ eval[e].taken \in Seq(G!Keys) /\ eval[e].concern \in {"rate", "cost"}
      /\ G!Keys \cap {"none", "allowed", "error"} = {} /\ UnitsOf[e] \in Nat
  BY EvaluationFacts
<1>1. eval' = [eval EXCEPT ![e] = r]
  BY <1>0 DEF G!StoreFails, G!Verdict, EvaluationType
<1>2. eval'[e] = r /\ r \in EvaluationType
  BY <1>0, <1>1 DEF GateInv, GateTypeOK
<1>3. /\ r.stage = "decide" /\ r.concern = eval[e].concern /\ r.taken = eval[e].taken
      /\ r.budget = "error"
  BY <1>0 DEF EvaluationType
<1> HIDE DEF r
<1>4. TakenInOrder(e, r)
  BY <1>0, <1>3 DEF TakenInOrder
<1>5. ~NoErrors'
  BY <1>2, <1>3 DEF NoErrors
<1>6. ASSUME NEW k \in G!Keys
      PROVE  /\ used[<<"cost", k>>] \in Int /\ used'[<<"cost", k>>] \in Int
             /\ \/ used'[<<"cost", k>>] >= used[<<"cost", k>>]
                \/ /\ used'[<<"cost", k>>] = used[<<"cost", k>>] - UnitsOf[e]
                   /\ IsGranted(eval[e], k)
  <2>0. used[<<"cost", k>>] \in Int
    BY <1>0
  <2>1. CASE UNCHANGED used
    BY <2>0, <2>1
  <2>2. CASE /\ eval[e].stage \in {"rate", "cost"}
             /\ Len(eval[e].taken) < Len(G!Targets(e, eval[e].stage))
             /\ G!Take(e, eval[e].stage, G!NextTarget(e), G!Units(e, eval[e].stage))
    <3>1. G!NextTarget(e) \in G!Keys /\ G!Units(e, eval[e].stage) \in Nat
      BY <1>0, <2>2, NextScope, PointsAreNumbers
    <3> DEFINE key == G!NextTarget(e)
               u == G!Units(e, eval[e].stage)
    <3>2. used' = [used EXCEPT ![<<eval[e].stage, key>>] = @ + u]
      BY <2>2 DEF G!Take
    <3>3. key \in G!Keys /\ u \in Nat /\ eval[e].stage \in {"rate", "cost"}
      BY <2>2, <3>1
    <3> HIDE DEF key, u
    <3>4. used'[<<"cost", k>>] \in {used[<<"cost", k>>], used[<<"cost", k>>] + u}
      BY <1>0, <3>2, <3>3
    <3> QED  BY <2>0, <3>3, <3>4
  <2>3. CASE /\ eval[e].stage = "undo" /\ eval[e].taken # <<>>
             /\ G!Take(e, eval[e].concern, Head(eval[e].taken),
                       -G!Units(e, eval[e].concern))
    <3> DEFINE s == eval[e].taken
               key == Head(s)
               u == G!Units(e, eval[e].concern)
    <3>1. u \in Nat /\ (eval[e].concern = "cost" => u = UnitsOf[e])
      BY <1>0 DEF G!Units
    <3>2. key \in G!ToSet(s) /\ key \in G!Keys
      <4>1. s \in Seq(G!Keys) /\ s # <<>>
        BY <1>0, <2>3
      <4> HIDE DEF s
      <4>2. 1 \in DOMAIN s /\ Head(s) = s[1] /\ Head(s) \in G!Keys
        BY <4>1
      <4> QED  BY <4>2 DEF G!ToSet
    <3>3. used' = [used EXCEPT ![<<eval[e].concern, key>>] = @ + (-u)]
      BY <2>3 DEF G!Take
    <3>4. eval[e].budget # "error"
      BY <1>0, <2>3 DEF TakenInOrder
    <3> HIDE DEF u, key
    <3>5. CASE eval[e].concern = "cost" /\ k = key
      BY <1>0, <2>0, <3>1, <3>2, <3>3, <3>4, <3>5 DEF IsGranted
    <3>6. CASE ~(eval[e].concern = "cost" /\ k = key)
      BY <1>0, <2>0, <3>1, <3>2, <3>3, <3>6
    <3> QED  BY <3>5, <3>6
  <2> QED  BY <2>1, <2>2, <2>3 DEF G!StoreFails
<1>7. ASSUME NEW k \in G!Keys PROVE PointsAreHeld(k)'
  <2>1. Granted(k)' = Granted(k) \ {e} /\ Charged(k)' = Charged(k) \ {e}
    <3>1. k # "error" /\ ~IsGranted(r, k) /\ ~IsCharged(r, k)
      BY <1>0, <1>3 DEF IsGranted, IsCharged
    <3>2. /\ Granted(k)' = IF IsGranted(r, k) THEN Granted(k) \cup {e} ELSE Granted(k) \ {e}
          /\ Charged(k)' = IF IsCharged(r, k) THEN Charged(k) \cup {e} ELSE Charged(k) \ {e}
      BY <1>1, <1>2, OneIsGranted
    <3> QED  BY <3>1, <3>2
  <2>2. Granted(k) \in SUBSET Evaluation /\ Charged(k) \in SUBSET Evaluation
    BY DEF Granted, Charged
  <2>3. /\ G!Sum(Granted(k)) \in Nat /\ G!Sum(Granted(k) \ {e}) \in Nat
        /\ G!Sum(Charged(k)) \in Nat /\ G!Sum(Charged(k) \ {e}) \in Nat
        /\ G!Sum(Granted(k) \ {e}) <= G!Sum(Granted(k))
        /\ G!Sum(Charged(k) \ {e}) <= G!Sum(Charged(k))
        /\ e \in Granted(k) => G!Sum(Granted(k)) = G!Sum(Granted(k) \ {e}) + UnitsOf[e]
    BY <2>2, SumWithout
  <2>4. /\ G!Sum(Granted(k))' = G!Sum(Granted(k) \ {e})
        /\ G!Sum(Charged(k))' = G!Sum(Charged(k) \ {e})
    BY <2>1 DEF G!Sum
  <2>5. PointsAreHeld(k) /\ G!Limit("cost", k) \in Nat
    BY DEF BudgetInv, GateSane, G!Limit
  <2>6. G!Limit("cost", k)' = G!Limit("cost", k)
    BY DEF G!Limit
  <2>7. IsGranted(eval[e], k) => e \in Granted(k)
    BY DEF Granted
  <2>8. /\ used[<<"cost", k>>] \in Int /\ used'[<<"cost", k>>] \in Int
        /\ \/ used'[<<"cost", k>>] >= used[<<"cost", k>>]
           \/ /\ used'[<<"cost", k>>] = used[<<"cost", k>>] - UnitsOf[e]
              /\ e \in Granted(k)
    BY <1>6, <2>7
  <2> QED  BY <1>0, <1>5, <2>3, <2>4, <2>5, <2>6, <2>8 DEF PointsAreHeld
<1> QED  BY <1>1, <1>2, <1>4, <1>7, EvaluationGoesOn

LEMMA BudgetStep ==
    ASSUME GateSane, BudgetInv, [G!Next]_(G!admissionVars)
    PROVE  BudgetInv'
<1>0. GateInv'
  BY GateStep DEF BudgetInv
<1>1. CASE UNCHANGED <<eval, used>>
  <2>1. \A e \in Evaluation : TakenInOrder(e, eval[e])'
    <3> SUFFICES ASSUME NEW e \in Evaluation PROVE TakenInOrder(e, eval[e])'
      OBVIOUS
    <3>1. TakenInOrder(e, eval'[e])
      BY <1>1 DEF BudgetInv
    <3> QED  BY <3>1 DEF TakenInOrder, G!Targets, G!Limit
  <2>2. ASSUME NEW k \in G!Keys PROVE PointsAreHeld(k)'
    <3>1. /\ Granted(k)' = Granted(k) /\ Charged(k)' = Charged(k)
          /\ NoErrors' <=> NoErrors
      BY <1>1 DEF Granted, Charged, IsGranted, IsCharged, NoErrors
    <3> QED  BY <1>1, <3>1, ScopeUntouched
  <2> QED  BY <1>0, <2>1, <2>2 DEF BudgetInv
<1>2. ASSUME NEW a \in Gated,
             G!Register(a) \/ G!Revoke(a) \/ G!Expire(a) \/ G!RecordInvocation(a)
      PROVE  BudgetInv'
  BY <1>1, <1>2 DEF G!Register, G!Revoke, G!Expire, G!RecordInvocation
<1>3. CASE UNCHANGED G!admissionVars
  BY <1>1, <1>3 DEF G!admissionVars
<1> QED
  BY <1>0, <1>2, <1>3, AskingHolds, AllTakenHolds, ConsumeHolds, CompensateHolds,
     StoreFailsHolds
  DEF G!Next

LEMMA BudgetInvHolds ==
    ASSUME GateSane
    PROVE  G!Spec => []BudgetInv
BY BudgetStart, BudgetStep, PTL DEF G!Spec

\* However the evaluations interleave and wherever the store fails, the reservations
\* RateCostLimiter allows fit the budgets they are charged to, and what it refuses it
\* has given back.
THEOREM BudgetsStayHeld ==
    ASSUME GateSane
    PROVE  Spec => []BudgetsHold
<1>1. BudgetInv => BudgetsHold
  <2> SUFFICES ASSUME BudgetInv PROVE BudgetsHold
    OBVIOUS
  <2>0. ASSUME NEW k \in G!Keys
        PROVE  /\ G!InCost(k) \subseteq Evaluation
               /\ G!Reserved(k) \subseteq Granted(k) /\ Granted(k) \in SUBSET Evaluation
    <3>1. ASSUME NEW e \in Evaluation, k \in G!ToSet(G!Targets(e, "cost")),
                 eval[e].budget = "allowed"
          PROVE  IsGranted(eval[e], k)
      BY <3>1, EvaluationFacts DEF TakenInOrder, IsGranted
    <3> QED  BY <3>1 DEF G!InCost, G!Reserved, Granted
  <2>1. ASSUME NEW k \in G!Keys, G!Limit("cost", k) > 0
        PROVE  G!Sum(G!Reserved(k)) <= G!Limit("cost", k)
    <3>1. G!Sum(G!Reserved(k)) <= G!Sum(Granted(k))
      BY <2>0, SumOfCosts
    <3>2. G!Sum(Granted(k)) <= G!Limit("cost", k)
      BY <2>1 DEF BudgetInv, PointsAreHeld
    <3>3. /\ G!Sum(Granted(k)) \in Nat /\ G!Limit("cost", k) \in Nat
          /\ G!Sum(G!Reserved(k)) \in Nat
      BY <2>0, SumOfCosts DEF GateSane, G!Limit
    <3> QED  BY <3>1, <3>2, <3>3
  <2>2. ASSUME NEW k \in G!Keys,
               \A e \in Evaluation : eval[e].stage \in {"new", "done"} /\ eval[e].budget # "error"
        PROVE  used[<<"cost", k>>] =
                 G!Sum(G!Reserved(k))
                 + G!Sum({e \in Evaluation : eval[e].concern = "cost" /\ eval[e].budget = k})
    <3>1. ASSUME NEW e \in Evaluation, IsGranted(eval[e], k)
          PROVE  eval[e].budget = "allowed" /\ k \in G!ToSet(G!Targets(e, "cost"))
      <4>1. /\ TakenInOrder(e, eval[e]) /\ eval[e] \in EvaluationType
            /\ eval[e].stage \in {"new", "done"}
        BY <2>2, EvaluationFacts
      <4>2. eval[e].taken # <<>> /\ eval[e].stage = "done"
        BY <3>1, <4>1, EmptySequence DEF IsGranted, TakenInOrder
      <4>3. eval[e].budget = "allowed"
        BY <3>1, <4>1, <4>2 DEF IsGranted, TakenInOrder, EvaluationType
      <4> QED  BY <3>1, <4>1, <4>3 DEF IsGranted, TakenInOrder
    <3>2. Granted(k) = G!Reserved(k)
      BY <2>0, <3>1 DEF Granted, G!Reserved, G!InCost
    <3>3. NoErrors
      BY <2>2 DEF NoErrors
    <3> QED  BY <3>2, <3>3 DEF BudgetInv, PointsAreHeld, Charged, IsCharged
  <2> QED
    BY <2>1, <2>2
    DEF BudgetsHold, G!BudgetsHold, G!ReservationsFitTheBudget, G!RefusalsAreGivenBack
<1> QED  BY <1>1, BudgetInvHolds, AdmissionRunsAlone, PTL

-----------------------------------------------------------------------------
(* Economics: the order of the candidates and the price of a usage.        *)

Candidates == [id : Int, capability : Int, price : Int, window : Int]

\* Whatever the pressure, preferred orders the candidates: none is preferred
\* to itself, the preference is transitive, and of two with different ids one is
\* preferred.  So pickBest's fold has at most one result, in whatever order the
\* candidates come.
THEOREM PreferenceIsOrder ==
    ASSUME NEW p \in Int
    PROVE  /\ \A a \in Candidates : ~E!Preferred(a, a, p)
           /\ \A a, b, c \in Candidates :
                 E!Preferred(a, b, p) /\ E!Preferred(b, c, p) => E!Preferred(a, c, p)
           /\ \A a, b \in Candidates :
                 a.id # b.id => E!Preferred(a, b, p) \/ E!Preferred(b, a, p)
<1>1. ASSUME NEW a \in Candidates
      PROVE  /\ E!Score(a, p) \in Int /\ a.capability \in Int
             /\ a.price \in Int /\ a.id \in Int
  BY DEF Candidates, E!Score
<1>2. \A a \in Candidates : ~E!Preferred(a, a, p)
  BY <1>1 DEF E!Preferred
<1>3. ASSUME NEW a \in Candidates, NEW b \in Candidates, NEW c \in Candidates,
             E!Preferred(a, b, p), E!Preferred(b, c, p)
      PROVE  E!Preferred(a, c, p)
  BY <1>1, <1>3 DEF E!Preferred
<1>4. ASSUME NEW a \in Candidates, NEW b \in Candidates, a.id # b.id
      PROVE  E!Preferred(a, b, p) \/ E!Preferred(b, a, p)
  BY <1>1, <1>4 DEF E!Preferred
<1> QED  BY <1>2, <1>3, <1>4

LEMMA LargerOfTwo ==
    ASSUME NEW a \in Int, NEW b \in Int
    PROVE  E!Max({a, b}) = IF a >= b THEN a ELSE b
<1> DEFINE m == IF a >= b THEN a ELSE b
<1>1. m \in {a, b} /\ \A y \in {a, b} : m >= y
  OBVIOUS
<1>2. \A x \in {a, b} : (\A y \in {a, b} : x >= y) => x = m
  OBVIOUS
<1> QED  BY <1>1, <1>2 DEF E!Max

LEMMA SmallerOfTwo ==
    ASSUME NEW a \in Int, NEW b \in Int
    PROVE  E!Min({a, b}) = IF a <= b THEN a ELSE b
<1> DEFINE m == IF a <= b THEN a ELSE b
<1>1. m \in {a, b} /\ \A y \in {a, b} : m <= y
  OBVIOUS
<1>2. \A x \in {a, b} : (\A y \in {a, b} : x <= y) => x = m
  OBVIOUS
<1> QED  BY <1>1, <1>2 DEF E!Min

\* What is priced as cached is between nothing and the input, whatever is claimed.
LEMMA CachedIsBounded ==
    ASSUME NEW usage \in [input : Int, output : Int, cached : Int]
    PROVE  /\ E!NonNegative(usage.input) \in Nat /\ E!NonNegative(usage.output) \in Nat
           /\ E!Cached(usage) \in 0 .. E!NonNegative(usage.input)
<1>1. \A x \in Int : E!NonNegative(x) = IF x >= 0 THEN x ELSE 0
  BY LargerOfTwo DEF E!NonNegative
<1> DEFINE n == E!NonNegative(usage.input)
           c == E!NonNegative(usage.cached)
<1>2. n \in Nat /\ c \in Nat /\ E!NonNegative(usage.output) \in Nat
  BY <1>1
<1>3. E!Cached(usage) = E!Min({E!Max({c, 0}), n})
  BY DEF E!Cached, E!Clamp
<1> HIDE DEF n, c
<1>4. E!Max({c, 0}) = c
  BY <1>2, LargerOfTwo
<1>5. E!Min({c, n}) \in 0 .. n
  BY <1>2, SmallerOfTwo
<1> QED  BY <1>2, <1>3, <1>4, <1>5 DEF n

\* Rounding two parts of a sum apart moves it by at most one.
LEMMA RoundedParts ==
    ASSUME NEW u \in Nat, NEW c \in Nat, NEW o \in Nat, NEW d \in 0 .. 2
    PROVE  LET full == E!Round(u + c + o, 4)
               cost == E!Round(2 * u + c * d + 2 * o, 8)
               saved == E!Round(c * (2 - d), 8)
           IN  /\ cost \in 0 .. full /\ saved \in 0 .. E!Round(u + c, 4)
               /\ cost + saved \in full - 1 .. full + 1
<1>1. CASE d = 0
  BY <1>1 DEF E!Round
<1>2. CASE d = 1
  BY <1>2 DEF E!Round
<1>3. CASE d = 2
  BY <1>3 DEF E!Round
<1> QED  BY <1>1, <1>2, <1>3

\* priceUsage: whatever token counts a provider claims - negative ones, or more
\* cached than there were - and whatever the prices, the cost is between nothing and
\* the cost without a cache, the saving no more than the input costs, and the two add
\* up but for rounding.
THEOREM SavingsAddUp ==
    ASSUME NEW usage \in [input : Int, output : Int, cached : Int],
           NEW pricing \in [input : Nat, output : Nat, discount : 0 .. 2],
           question = [usage |-> [usage |-> usage, pricing |-> pricing]]
    PROVE  E!CacheSavingsAddUp
<1> DEFINE n == E!NonNegative(usage.input)
           m == E!NonNegative(usage.output)
           k == E!Cached(usage)
<1>1. n \in Nat /\ m \in Nat /\ k \in 0 .. n
  BY CachedIsBounded
<1>2. /\ question.usage.usage = usage /\ question.usage.pricing = pricing
      /\ pricing.input \in Nat /\ pricing.output \in Nat /\ pricing.discount \in 0 .. 2
  OBVIOUS
<1> HIDE DEF n, m, k
<1> DEFINE u == (n - k) * pricing.input
           c == k * pricing.input
           o == m * pricing.output
           d == pricing.discount
<1>3. u \in Nat /\ c \in Nat /\ o \in Nat /\ d \in 0 .. 2
  BY <1>1, <1>2
<1>4. /\ n * pricing.input = u + c
      /\ (2 * (n - k) + k * d) * pricing.input = 2 * u + c * d
      /\ 2 * m * pricing.output = 2 * o
      /\ k * pricing.input * (2 - d) = c * (2 - d)
  BY <1>1, <1>2
<1>5. E!PriceUsage(usage, pricing) =
         [costUnits |-> E!Round(2 * u + c * d + 2 * o, 8),
          cacheSavings |-> E!Round(c * (2 - d), 8)]
  BY <1>4 DEF E!PriceUsage, n, m, k
<1>6. /\ E!NonNegative(usage.input) * pricing.input = u + c
      /\ E!NonNegative(usage.output) * pricing.output = o
  BY <1>4 DEF n, m
<1> HIDE DEF u, c, o, d
<1>7. LET full == E!Round(u + c + o, 4)
          cost == E!Round(2 * u + c * d + 2 * o, 8)
          saved == E!Round(c * (2 - d), 8)
      IN  /\ cost \in 0 .. full /\ saved \in 0 .. E!Round(u + c, 4)
          /\ cost + saved \in full - 1 .. full + 1
  BY <1>3, RoundedParts
<1> QED  BY <1>2, <1>5, <1>6, <1>7 DEF E!CacheSavingsAddUp
=============================================================================
