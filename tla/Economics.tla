------------------------------ MODULE Economics ------------------------------
(***************************************************************************)
(* The functions without state that route, price and cap work: the model   *)
(* router, the prompt-cache accounting, the spend caps, the spend anomaly  *)
(* and the price of a model by its name.  Each behaviour is one question,  *)
(* put once; the properties compare the answers with reference definitions.*)
(*                                                                         *)
(* Numbers are integers: pressure in tenths, 1000 tokens are four units,   *)
(* a cache discount is in halves.                                          *)
(***************************************************************************)
EXTENDS Integers, SequencesExt, FiniteSetsExt

CONSTANTS
    Offer,     \* model candidates: [id, capability, price, window]
    Priced     \* the keys of the price table: sequences of name parts

VARIABLE question

Clamp(x, low, high) == Min({Max({x, low}), high})

-----------------------------------------------------------------------------
(* The router.                                                             *)

Score(c, pressure) == c.capability * (10 - pressure) - c.price * pressure

Eligible(c, req) == c.capability >= req.minCapability /\ c.window >= req.tokens

\* Mutant: candidates of the same score and capability stand as they came.
Preferred_NoTie(a, b, pressure) ==
    \/ Score(a, pressure) > Score(b, pressure)
    \/ Score(a, pressure) = Score(b, pressure) /\ a.capability > b.capability

\* The higher score, then capability, the lower price, the smaller id.
Preferred(a, b, pressure) ==
    \/ Score(a, pressure) > Score(b, pressure)
    \/ /\ Score(a, pressure) = Score(b, pressure)
       /\ \/ a.capability > b.capability
          \/ /\ a.capability = b.capability
             /\ a.price < b.price \/ (a.price = b.price /\ a.id < b.id)

PickBest(candidates, pressure) ==
    FoldLeft(LAMBDA best, c : IF Preferred(c, best, pressure) THEN c ELSE best,
             Head(candidates), Tail(candidates))

\* The candidate chosen, as a sequence of at most one.
RouteModel(req, candidates) ==
    LET eligible == SelectSeq(candidates, LAMBDA c : Eligible(c, req)) IN
    IF eligible = <<>> THEN <<>> ELSE <<PickBest(eligible, Clamp(req.pressure, 0, 10))>>

-----------------------------------------------------------------------------
(* Prices.                                                                 *)

\* Math.round of n/d.
Round(n, d) == (2 * n + d) \div (2 * d)

NonNegative(x) == Max({x, 0})
Cached(usage) == Clamp(NonNegative(usage.cached), 0, NonNegative(usage.input))

PriceUsage(usage, pricing) ==
    LET uncached == NonNegative(usage.input) - Cached(usage)
        input == (2 * uncached + Cached(usage) * pricing.discount) * pricing.input
        output == 2 * NonNegative(usage.output) * pricing.output
    IN  [costUnits    |-> Round(input + output, 8),
         cacheSavings |-> Round(Cached(usage) * pricing.input * (2 - pricing.discount), 8)]

\* resolvePricing: the key of the price, <<>> for the default.  A name is its parts,
\* without provider and date; the table is searched from the longest key on.
ResolvePricing(name) ==
    LET longestFirst == SetToSortSeq(Priced, LAMBDA k, l : Len(k) > Len(l))
        extended == SelectSeq(longestFirst, LAMBDA k : IsStrictPrefix(k, name))
    IN  IF name \in Priced THEN name
        ELSE IF extended # <<>> THEN Head(extended) ELSE <<>>

\* detectSpendAnomaly: the last sample against the mean of those before.
Anomaly(samples, factor) ==
    /\ Len(samples) >= 2
    /\ Last(samples) * (Len(samples) - 1) > FoldLeft(+, 0, Front(samples)) * factor

-----------------------------------------------------------------------------
(* Caps.  A number read from the outside is one, or is missing or none.    *)

NoCap == [capped |-> FALSE, at |-> 0]
CapAt(n) == [capped |-> TRUE, at |-> n]

ParseCapEnv(raw, fallback) ==
    CASE raw.kind = "unset" -> fallback
      [] raw.kind = "unlimited" -> NoCap
      [] raw.kind = "number" /\ raw.n > 0 -> CapAt(raw.n)
      [] OTHER -> fallback

CleanSpendAmount(x) == IF x.kind = "number" /\ x.n > 0 THEN x.n ELSE 0

Total(spends) == FoldLeft(LAMBDA sum, x : sum + CleanSpendAmount(x), 0, spends)

OverBudget(total, cap) == cap.capped /\ cap.at > 0 /\ total >= cap.at

-----------------------------------------------------------------------------
Raw == {[kind |-> k, n |-> 0] : k \in {"unset", "unlimited", "garbage"}}
       \cup {[kind |-> "number", n |-> n] : n \in -1 .. 3}

Routes == [minCapability : {1, 2}, tokens : {1, 2}, pressure : {-1, 0, 2, 5, 10, 11},
           candidates : UNION {SetToSeqs(s) : s \in SUBSET Offer}]
Usages == [usage : [input : -1 .. 4, output : {-1, 3}, cached : -1 .. 5],
           pricing : [input : {1, 3}, output : {2}, discount : 0 .. 2]]
Names == BoundedSeq(UNION {Range(k) : k \in Priced}, 3)
Samples == [samples : BoundedSeq(0 .. 4, 3), factor : {1, 3}]
Budgets == [raw : Raw, fallback : {CapAt(2), NoCap}, spends : BoundedSeq(Raw, 2)]

Init == question \in [route : Routes] \cup [usage : Usages] \cup [name : Names]
                     \cup [samples : Samples] \cup [budget : Budgets]

-----------------------------------------------------------------------------
(* Properties.                                                             *)

\* Whatever order the candidates come in, the choice is the one eligible candidate
\* no other is preferred to, and there is a choice whenever one is eligible.
RouteIsBest ==
    "route" \in DOMAIN question =>
        LET req == question.route
            eligible == {c \in Range(req.candidates) : Eligible(c, req)}
            best == {c \in eligible : \A d \in eligible :
                        ~Preferred(d, c, Clamp(req.pressure, 0, 10))}
        IN  Range(RouteModel(req, req.candidates)) = best

\* A usage that claims more cached than input tokens, or negative ones, neither earns
\* money nor saves more than its input costs; cost and saving add up but for rounding.
CacheSavingsAddUp ==
    "usage" \in DOMAIN question =>
        LET usage == question.usage.usage
            pricing == question.usage.pricing
            answer == PriceUsage(usage, pricing)
            input == NonNegative(usage.input) * pricing.input
            full == Round(input + NonNegative(usage.output) * pricing.output, 4)
        IN  /\ answer.costUnits \in 0 .. full
            /\ answer.cacheSavings \in 0 .. Round(input, 4)
            /\ answer.costUnits + answer.cacheSavings \in full - 1 .. full + 1

\* A model is priced by the longest key its name is or extends, never by a key that
\* extends its name.
PricedByClosest ==
    "name" \in DOMAIN question =>
        LET keys == {k \in Priced : IsPrefix(k, question.name)} IN
        ResolvePricing(question.name) =
            IF keys = {} THEN <<>> ELSE CHOOSE k \in keys : \A l \in keys : Len(l) <= Len(k)

\* A sample above factor times every earlier one is an anomaly, one that is not above
\* factor times any earlier one is none.
AnomaliesStandOut ==
    "samples" \in DOMAIN question /\ Len(question.samples.samples) >= 2 =>
        LET q == question.samples
            before == Range(Front(q.samples)) IN
        /\ Last(q.samples) > q.factor * Max(before) => Anomaly(q.samples, q.factor)
        /\ Last(q.samples) <= q.factor * Min(before) => ~Anomaly(q.samples, q.factor)

\* Only "unlimited" removes a cap, and no bad amount hides the good ones from it.
CapsStay ==
    "budget" \in DOMAIN question =>
        LET q == question.budget
            cap == ParseCapEnv(q.raw, q.fallback)
            good == {i \in DOMAIN q.spends : q.spends[i].kind = "number" /\ q.spends[i].n > 0}
        IN  /\ q.raw.kind # "unlimited" /\ q.fallback.capped => cap.capped
            /\ cap.capped /\ MapThenSumSet(LAMBDA i : q.spends[i].n, good) >= cap.at
                  => OverBudget(Total(q.spends), cap)

PricesAreSound ==
    RouteIsBest /\ CacheSavingsAddUp /\ PricedByClosest /\ AnomaliesStandOut /\ CapsStay
=============================================================================
