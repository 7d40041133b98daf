------------------------------- MODULE TeamTask -------------------------------
(***************************************************************************)
(* The handler that runs a worker's task as a KaibanJS team of one agent:  *)
(* createKaibanTaskHandler, its keys, the model it owns, and startTeam,    *)
(* which races the team against the actor's abort.  An attempt that was    *)
(* aborted has settled for the actor while its team may still be in a      *)
(* model call, so the next attempt of the task runs beside it.             *)
(*                                                                         *)
(* KaibanJS is external: start() settles with FINISHED or BLOCKED, rejects *)
(* when ERRORED and never settles after stop(), which takes effect between *)
(* two model calls.                                                        *)
(***************************************************************************)
EXTENDS Naturals, FiniteSets

CONSTANTS
    Attempts,    \* attempts of the task: it is tried 1, 2 .. Attempts
    MaxCalls,    \* bound: model calls of one attempt
    MaxRotations \* bound: how often the key store rotates the keys

VARIABLES
    setup,    \* how the worker is configured
    vault,    \* the generation of the keys in the token provider
    attempt   \* the attempts

teamVars == <<setup, vault, attempt>>

\* apiKey: a key baked into llmConfig; keys: the names the provider has a key for.
Setup == [provider : BOOLEAN, signal : BOOLEAN, openai : BOOLEAN, openrouter : BOOLEAN,
          apiKey : BOOLEAN, keys : SUBSET {"OPENAI", "OPENROUTER"}]

\* What the model is called with: nothing, the baked key, or a generation from 2.
NoKey == 0
Baked == 1
Unborn == [at |-> "new", since |-> 0, asked |-> 0, env |-> [k \in {"OPENAI", "OPENROUTER"} |-> NoKey],
           key |-> NoKey, owned |-> FALSE, team |-> "none", calling |-> FALSE,
           calls |-> 0, used |-> 0, aborted |-> FALSE, outcome |-> "none", reported |-> 0]

TypeOK ==
    /\ setup \in Setup
    /\ vault \in 2 .. 2 + MaxRotations
    /\ \A a \in 1 .. Attempts :
          /\ attempt[a].at \in {"new", "asking", "built", "over"}
          /\ attempt[a].team \in {"none", "running", "stopping", "stopped", "ended"}
          /\ attempt[a].outcome \in {"none", "result", "failed", "rejected", "reason"}
          /\ attempt[a].used \in 0 .. attempt[a].calls

Init ==
    /\ setup \in Setup
    /\ vault = 2
    /\ attempt = [a \in 1 .. Attempts |-> Unborn]

-----------------------------------------------------------------------------
\* The actor hands the task to the handler, again after a failure or, delivered
\* again, after an abort; for the actor the attempts before have settled.
Begin(a) ==
    /\ attempt[a].at = "new"
    /\ \A b \in 1 .. a - 1 : attempt[b].aborted \/ attempt[b].outcome \in {"failed", "rejected"}
    /\ attempt' = [attempt EXCEPT ![a].at = "asking", ![a].since = vault]
    /\ UNCHANGED <<setup, vault>>

\* buildEnv: one getToken after another; without a provider process.env has them all.
AskKey(a) ==
    LET name == IF attempt[a].asked = 0 THEN "OPENAI" ELSE "OPENROUTER" IN
    /\ attempt[a].at = "asking" /\ attempt[a].asked < 2
    /\ attempt' = [attempt EXCEPT ![a].asked = @ + 1,
           ![a].env[name] = IF setup.provider /\ name \in setup.keys THEN vault ELSE @]
    /\ UNCHANGED <<setup, vault>>

\* The token provider rejects, and with it the handler.
AskFails(a) ==
    /\ attempt[a].at = "asking" /\ attempt[a].asked < 2 /\ setup.provider
    /\ attempt' = [attempt EXCEPT ![a].at = "over", ![a].outcome = "rejected"]
    /\ UNCHANGED <<setup, vault>>

KeyName == IF setup.openrouter THEN "OPENROUTER" ELSE "OPENAI"

\* Mutant: a key baked into the configuration wins.
WithProviderKey_BakedFirst(env) ==
    IF setup.apiKey THEN Baked ELSE IF setup.provider THEN env[KeyName] ELSE NoKey

\* withProviderKey: the provider's key for the base URL, else what is configured.
WithProviderKey(env) ==
    IF setup.provider /\ env[KeyName] # NoKey THEN env[KeyName]
    ELSE IF setup.apiKey THEN Baked ELSE NoKey

\* buildOwnedLlm: with a signal and an OpenAI-compatible provider.
Owned == setup.signal /\ setup.openai

\* throwIfAborted, or the team is built and started.
Build(a) ==
    /\ attempt[a].at = "asking" /\ attempt[a].asked = 2
    /\ attempt' =
          IF setup.signal /\ attempt[a].aborted
          THEN [attempt EXCEPT ![a].at = "over", ![a].outcome = "reason"]
          ELSE [attempt EXCEPT ![a].at = "built", ![a].team = "running", ![a].owned = Owned,
                               ![a].key = WithProviderKey(attempt[a].env)]
    /\ UNCHANGED <<setup, vault>>

\* A model call; an owned model refuses it once the signal has aborted.
BeginCall(a) ==
    /\ attempt[a].team = "running" /\ ~attempt[a].calling /\ attempt[a].calls < MaxCalls
    /\ ~(attempt[a].owned /\ attempt[a].aborted)
    /\ attempt' = [attempt EXCEPT ![a].calling = TRUE, ![a].calls = @ + 1]
    /\ UNCHANGED <<setup, vault>>

\* A call that returns is paid for; a team told to stop stops here.
EndCall(a) ==
    /\ attempt[a].calling
    /\ attempt' = [attempt EXCEPT ![a].calling = FALSE, ![a].used = @ + 1,
                                  ![a].team = IF @ = "stopping" THEN "stopped" ELSE @]
    /\ UNCHANGED <<setup, vault>>

\* isSuccessfulWorkflowStatus: a blocked workflow fails with what it has used.
TeamResolves(a, status) ==
    /\ attempt[a].team = "running" /\ ~attempt[a].calling
    /\ attempt' = [attempt EXCEPT
           ![a].team = "ended", ![a].at = "over", ![a].reported = attempt[a].used,
           ![a].outcome = IF status = "FINISHED" THEN "result" ELSE "failed"]
    /\ UNCHANGED <<setup, vault>>

TeamErrs(a) ==
    /\ attempt[a].team = "running" /\ ~attempt[a].calling
    /\ attempt' = [attempt EXCEPT
           ![a].team = "ended", ![a].at = "over", ![a].outcome = "rejected"]
    /\ UNCHANGED <<setup, vault>>

\* Mutant: the race is lost and nothing else happens.
OnAbort_TeamRunsOn(a) ==
    [attempt[a] EXCEPT !.aborted = TRUE, !.at = "over", !.outcome = "reason",
                       !.calling = @ /\ ~attempt[a].owned]

\* onAbort: the team is told to stop and the handler rejects with the reason; the
\* call of an owned model is aborted with it, another one goes on.
OnAbort(a) ==
    [attempt[a] EXCEPT
        !.aborted = TRUE, !.at = "over", !.outcome = "reason",
        !.calling = @ /\ ~attempt[a].owned,
        !.team = IF attempt[a].calling /\ ~attempt[a].owned THEN "stopping" ELSE "stopped"]

\* The actor's timeout, stop or shutdown; without a signal the handler never hears of
\* it, and the actor goes on all the same.
Abort(a) ==
    /\ attempt[a].at \in {"asking", "built"} /\ ~attempt[a].aborted
    /\ attempt' = [attempt EXCEPT ![a] =
           IF attempt[a].at = "built" /\ setup.signal THEN OnAbort(a)
           ELSE [@ EXCEPT !.aborted = TRUE]]
    /\ UNCHANGED <<setup, vault>>

Rotate ==
    /\ setup.provider /\ vault < 2 + MaxRotations
    /\ vault' = vault + 1
    /\ UNCHANGED <<setup, attempt>>

Next ==
    \/ \E a \in 1 .. Attempts :
          \/ Begin(a) \/ AskKey(a) \/ AskFails(a) \/ Build(a)
          \/ BeginCall(a) \/ EndCall(a) \/ TeamErrs(a) \/ Abort(a)
          \/ \E status \in {"FINISHED", "BLOCKED"} : TeamResolves(a, status)
    \/ Rotate

Spec == Init /\ [][Next]_teamVars
-----------------------------------------------------------------------------
(* Properties.                                                             *)

\* However often the task is tried and the keys rotate in between, the model is
\* called with a key the provider gave out for this attempt, if it has one.
KeyIsTheTasks ==
    \A a \in 1 .. Attempts :
        attempt[a].at = "built" /\ setup.provider /\ KeyName \in setup.keys =>
            attempt[a].key >= attempt[a].since

\* An attempt the actor gave up makes no further model call, and a worker that owns
\* its model never pays for two attempts at a time.
AbortEndsTheSpending ==
    setup.signal =>
        /\ \A a \in 1 .. Attempts : attempt[a].aborted => attempt[a].team # "running"
        /\ setup.openai => Cardinality({a \in 1 .. Attempts : attempt[a].calling}) <= 1

\* What a finished or blocked attempt has used is what the token caps are told.
PaidIsReported ==
    \A a \in 1 .. Attempts :
        attempt[a].outcome \in {"result", "failed"} => attempt[a].reported = attempt[a].used

AttemptsAreClean == KeyIsTheTasks /\ AbortEndsTheSpending /\ PaidIsReported
=============================================================================
