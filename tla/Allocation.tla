----------------------------- MODULE Allocation -----------------------------
(***************************************************************************)
(* How the capital is split among the sleeves (allocation/allocator.py).   *)
(*                                                                         *)
(* Weights and amounts are exact fractions of a common denominator.  The   *)
(* statistics, which are real-valued, are inputs: a sleeve's score times   *)
(* its confidence, less its crowding penalty, in tenths, and the           *)
(* volatility of the split's returns.  Rounding to cents is left out, and  *)
(* there is a sleeve.                                                      *)
(***************************************************************************)
EXTENDS Integers, FiniteSetsExt

CONSTANTS
    Funded,        \* the sleeves' strategy ids
    BaseWeights,     \* splits to consider: [sleeve -> parts]
    Scores,          \* adjusted scores, in tenths
    MinWeights,      \* min_weight, in twentieths
    StrategyCaps,    \* max_strategy_pct, in twentieths
    Equities,        \* what there is to hand out, or has been lost
    VolTargets,      \* target_portfolio_vol; 0 for none
    Volatilities     \* port_vol; 0 before there are 20 returns of each sleeve

ASSUME AllocationAssumption ==
    /\ IsFiniteSet(Funded) /\ Funded # {}
    /\ BaseWeights \subseteq [Funded -> Nat]
    /\ Scores \subseteq Int
    /\ MinWeights \subseteq 0..20 /\ StrategyCaps \subseteq 1..20
    /\ Equities \subseteq Int
    /\ VolTargets \subseteq Nat /\ Volatilities \subseteq Nat

SumOf(w)      == SumFunctionOnSet(w, Funded)
LeastOf(w)    == Min({w[s] : s \in Funded})
Smaller(a, b) == IF a < b THEN a ELSE b
Larger(a, b)  == IF a > b THEN a ELSE b

(* base_weights, or equal parts where they come to nothing. *)
Base(parts) == IF SumOf(parts) > 0 THEN parts ELSE [s \in Funded |-> 1]

(* Scores become positive mass: the worst sleeve keeps a tenth.            *)
Mass(score) == [s \in Funded |-> Larger(score[s] - LeastOf(score) + 1, 1)]

(* So many twentieths, as numerators count them.                           *)
Twentieths(k, mass, base) == k * SumOf(mass) * SumOf(base)

(* The split by mass shrunk toward the base split; confidence comes in     *)
(* quarters.                                                               *)
Blend(mass, base, conf) ==
    [s \in Funded |-> 5 * (conf * mass[s] * SumOf(base)
                          + (4 - conf) * base[s] * SumOf(mass))]

FloorOf(minWeight, mass, base) ==
    Smaller(Twentieths(minWeight, mass, base), 20 * SumOf(mass) * LeastOf(base))

Clip(w, floor, cap) ==
    [s \in Funded |-> Smaller(Larger(w[s], floor), cap)]

(* Weights are fractions f: numerators over a denominator, which is a      *)
(* multiple of the one that floor, cap and one are counted in.             *)
Spare(f, floor, one) ==
    SumOf([s \in Funded |-> f.num[s] - floor * (f.den \div one)])

(* Mutation: the excess is taken from the weights, not from what they have *)
(* above the floor.                                                        *)
TakeOffWeights(f, floor, cap, one) == [num |-> f.num, den |-> SumOf(f.num)]

(* A round of the renormalisation: each sleeve gives of what it has above  *)
(* the floor in proportion.                                                *)
TakeOff(f, floor, cap, one) ==
    LET low   == floor * (f.den \div one)
        high  == cap * (f.den \div one)
        spare == Spare(f, floor, one)
        given == [s \in Funded |-> f.num[s] * spare
                      - (SumOf(f.num) - f.den) * (f.num[s] - low)]
    IN  [num |-> Clip(given, low * spare, high * spare), den |-> f.den * spare]

(* Ten rounds, but none once the weights come to one at most or none has   *)
(* anything left to give.                                                  *)
Fitted(w, floor, cap, one) ==
    LET round[k \in 0..10] ==
            IF k = 0 THEN [num |-> w, den |-> one]
            ELSE LET f == round[k - 1]
                 IN  IF SumOf(f.num) <= f.den \/ Spare(f, floor, one) = 0 THEN f
                     ELSE TakeOff(f, floor, cap, one)
    IN  round[10]

(* The weights.  What still exceeds one is scaled down.                    *)
Weights(parts, score, conf, minWeight, capPct) ==
    LET base  == Base(parts)
        mass  == Mass(score)
        one   == Twentieths(20, mass, base)
        floor == FloorOf(minWeight, mass, base)
        cap   == Twentieths(capPct, mass, base)
        fit   == Fitted(Clip(Blend(mass, base, conf), floor, cap), floor, cap, one)
    IN  [num |-> fit.num, den |-> Larger(fit.den, SumOf(fit.num))]

(* The part of the equity that is deployed: "never scales UP above 1.0 and *)
(* never below a 30% deployment floor" (allocator.py 114-115).             *)
Deployment(target, vol) ==
    CASE target = 0 \/ vol <= target -> [num |-> 1, den |-> 1]
      [] target > 0 /\ 10 * target < 3 * vol -> [num |-> 3, den |-> 10]
      [] OTHER -> [num |-> target, den |-> vol]

(* allocate: what each sleeve gets for these weights.  Nothing is handed   *)
(* out of a loss.                                                          *)
Allocate(w, equity, target, vol) ==
    LET deployed == Deployment(target, vol)
    IN  IF equity <= 0 THEN [num |-> [s \in Funded |-> 0], den |-> 1]
        ELSE [num |-> [s \in Funded |-> w.num[s] * deployed.num * equity],
              den |-> w.den * deployed.den]

-----------------------------------------------------------------------------
(* The split is sound for every split, score and confidence, for any       *)
(* volatility and whatever there is to hand out: no more than the equity   *)
(* is, and no sleeve gets more than max_strategy_pct of it; while          *)
(* volatility is at its target none gets less than the floor (an options   *)
(* sleeve below it "can never trade again", run_paper.py) unless the cap   *)
(* is lower, and above the target, where the split is scaled down, none    *)
(* less than 30% of that; and of two sleeves with the same base the one    *)
(* that scores better never gets less ("concentrating into what's working, *)
(* under hard per-sleeve caps", allocator.py 2-3).                         *)
SplitSound ==
    \A parts \in BaseWeights, score \in [Funded -> Scores], conf \in 0..4,
       minWeight \in MinWeights, capPct \in StrategyCaps :
        LET base  == Base(parts)
            all   == SumOf(base)
            least == LeastOf(base)
            w     == Weights(parts, score, conf, minWeight, capPct)
        IN  \A equity \in Equities, target \in VolTargets, vol \in Volatilities :
                LET given == Allocate(w, equity, target, vol)
                    due   == Larger(equity, 0) * given.den
                    full  == target = 0 \/ vol <= target
                IN  /\ SumOf(given.num) <= due
                    /\ \A s \in Funded :
                           LET got == given.num[s]
                           IN  /\ got * 20 <= capPct * due
                               \* the floor is the smaller of min_weight and
                               \* the least base weight
                               /\ full => \/ got * 20 >= minWeight * due
                                          \/ got * all >= least * due
                                          \/ got * 20 >= capPct * due
                               /\ \/ got * 200 >= 3 * minWeight * due
                                  \/ got * 10 * all >= 3 * least * due
                                  \/ got * 200 >= 3 * capPct * due
                    /\ \A s, t \in Funded :
                           base[s] = base[t] /\ score[s] <= score[t]
                               => given.num[s] <= given.num[t]
=============================================================================
