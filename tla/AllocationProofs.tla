-------------------------- MODULE AllocationProofs --------------------------
(***************************************************************************)
(* The allocator's split is sound for every set of sleeves, base split,    *)
(* score, confidence, floor and cap (allocation/allocator.py).  The        *)
(* argument: the floor is no more than any base weight, so the floors of   *)
(* all come to one at most; where the clipped weights come to more, one    *)
(* round takes the excess from what the sleeves have above the floor, and  *)
(* leaves a split that comes to one, is within floor and cap and in the    *)
(* order it had; the rounds after it change nothing.                       *)
(***************************************************************************)
EXTENDS MCSleeves, Arithmetic

USE AllocationAssumption DEF AllocationAssumption

-----------------------------------------------------------------------------
(* Sums over the sleeves *)

(* The least part is that of a sleeve, and none has less.                  *)
LEMMA LeastIs ==
    ASSUME NEW w \in [Funded -> Int]
    PROVE  /\ LeastOf(w) \in Int /\ \A s \in Funded : LeastOf(w) <= w[s]
           /\ \E s \in Funded : LeastOf(w) = w[s]
<1> DEFINE T == {w[s] : s \in Funded}
<1>1. w \in Surjection(Funded, T)
  BY DEF Surjection
<1>2. IsFiniteSet(T)
  <2> HIDE DEF T
  <2> QED
    BY <1>1, FS_Surjection
<1>3. T # {} /\ \A x \in T : x \in Int
  OBVIOUS
<1>4. LeastOf(w) = Min(T)
  BY DEF LeastOf
<1>5. Min(T) \in T /\ \A x \in T : Min(T) <= x
  <2> HIDE DEF T
  <2> QED
    BY <1>2, <1>3, MinOf
<1> QED
  BY <1>3, <1>4, <1>5

LEMMA SumOfTyped ==
    ASSUME NEW w, \A s \in Funded : w[s] \in Nat
    PROVE  SumOf(w) \in Nat /\ \A s \in Funded : w[s] <= SumOf(w)
<1>1. IsFiniteSet(Funded)
  OBVIOUS
<1> QED
  BY <1>1, SumNat, SumOfOne DEF SumOf

(* A split comes to something.                                             *)
LEMMA BaseTyped ==
    ASSUME NEW parts \in BaseWeights
    PROVE  /\ Base(parts) \in [Funded -> Nat]
           /\ SumOf(Base(parts)) \in Nat \ {0}
<1>1. parts \in [Funded -> Nat]
  OBVIOUS
<1>2. CASE SumOf(parts) > 0
  <2>1. \A s \in Funded : parts[s] \in Nat
    BY <1>1
  <2>2. SumOf(parts) \in Nat
    BY <2>1, SumOfTyped
  <2> QED
    BY <1>1, <1>2, <2>2 DEF Base
<1>3. CASE ~(SumOf(parts) > 0)
  <2> DEFINE ones == [s \in Funded |-> 1]
  <2>1. ones \in [Funded -> Nat] /\ \A s \in Funded : ones[s] \in Nat /\ ones[s] = 1
    OBVIOUS
  <2>2. PICK s \in Funded : TRUE
    OBVIOUS
  <2>3. Base(parts) = ones
    BY <1>3 DEF Base
  <2> HIDE DEF ones
  <2>4. SumOf(ones) \in Nat /\ 1 <= SumOf(ones)
    BY <2>1, <2>2, SumOfTyped
  <2> QED
    BY <2>1, <2>3, <2>4
<1> QED
  BY <1>2, <1>3

(* Every sleeve has mass, and the better score no less of it.              *)
LEMMA MassTyped ==
    ASSUME NEW score \in [Funded -> Scores]
    PROVE  /\ Mass(score) \in [Funded -> Nat \ {0}]
           /\ SumOf(Mass(score)) \in Nat \ {0}
           /\ \A s, t \in Funded :
                  score[s] <= score[t] => Mass(score)[s] <= Mass(score)[t]
<1> DEFINE m == Mass(score)
           least == LeastOf(score)
<1>1. score \in [Funded -> Int]
  OBVIOUS
<1>2. least \in Int /\ \A s \in Funded : least <= score[s]
  BY <1>1, LeastIs
<1>3. \A s \in Funded : m[s] = score[s] - least + 1
  <2> SUFFICES ASSUME NEW s \in Funded PROVE m[s] = score[s] - least + 1
    OBVIOUS
  <2>1. m[s] = Larger(score[s] - least + 1, 1)
    BY DEF Mass
  <2>2. score[s] \in Int /\ least \in Int /\ least <= score[s]
    BY <1>1, <1>2
  <2> HIDE DEF least, m
  <2> QED
    BY <2>1, <2>2 DEF Larger
<1>4. m = [s \in Funded |-> m[s]]
  BY DEF Mass
<1> HIDE DEF m, least
<1>5. ASSUME NEW s \in Funded PROVE m[s] \in Nat \ {0}
  <2>1. score[s] \in Int /\ least \in Int /\ least <= score[s]
    BY <1>1, <1>2
  <2> QED
    BY <1>3, <2>1
<1>6. ASSUME NEW s \in Funded, NEW t \in Funded, score[s] <= score[t]
      PROVE  m[s] <= m[t]
  <2>1. score[s] \in Int /\ score[t] \in Int /\ least \in Int
    BY <1>1, <1>2
  <2> QED
    BY <1>3, <1>6, <2>1
<1>7. m \in [Funded -> Nat \ {0}]
  BY <1>4, <1>5
<1>8. SumOf(m) \in Nat \ {0}
  <2>1. PICK s \in Funded : TRUE
    OBVIOUS
  <2>2. SumOf(m) \in Nat /\ m[s] <= SumOf(m)
    BY <1>5, SumOfTyped
  <2> QED
    BY <1>5, <2>2
<1> QED
  BY <1>6, <1>7, <1>8 DEF m

-----------------------------------------------------------------------------
(* Ten rounds of renormalisation *)

Round(f, floor, cap, one) ==
    IF SumOf(f.num) <= f.den \/ Spare(f, floor, one) = 0 THEN f
    ELSE TakeOff(f, floor, cap, one)

(* Where a second round changes nothing the ten come to the first.         *)
LEMMA SettlesAtOnce ==
    ASSUME NEW w, NEW floor, NEW cap, NEW one, NEW b,
           Round([num |-> w, den |-> one], floor, cap, one) = b,
           Round(b, floor, cap, one) = b
    PROVE  Fitted(w, floor, cap, one) = b
<1> DEFINE a == [num |-> w, den |-> one]
           Rule(r) == [k \in 0..10 |->
                          IF k = 0 THEN [num |-> w, den |-> one]
                          ELSE LET f == r[k - 1]
                               IN  IF SumOf(f.num) <= f.den \/ Spare(f, floor, one) = 0
                                   THEN f ELSE TakeOff(f, floor, cap, one)]
           settled == [k \in 0..10 |-> IF k = 0 THEN a ELSE b]
           round == CHOOSE r : r = Rule(r)
<1>1. ASSUME NEW r
      PROVE  Rule(r) = [k \in 0..10 |-> IF k = 0 THEN a
                                        ELSE Round(r[k - 1], floor, cap, one)]
  BY DEF Round
<1>2. Round(a, floor, cap, one) = b
  OBVIOUS
<1>3. settled = Rule(settled)
  <2>1. \A k \in 0..10 : settled[k] = Rule(settled)[k]
    <3> SUFFICES ASSUME NEW k \in 0..10 PROVE settled[k] = Rule(settled)[k]
      OBVIOUS
    <3>1. Rule(settled)[k] = IF k = 0 THEN a ELSE Round(settled[k - 1], floor, cap, one)
      BY <1>1
    <3>2. k # 0 => k - 1 \in 0..10 /\ settled[k - 1] \in {a, b}
      OBVIOUS
    <3> HIDE DEF a, Rule
    <3>3. settled[k] = IF k = 0 THEN a ELSE b
      OBVIOUS
    <3> HIDE DEF settled
    <3> QED
      BY <1>2, <3>1, <3>2, <3>3
  <2>2. settled = [k \in 0..10 |-> settled[k]]
    OBVIOUS
  <2>3. Rule(settled) = [k \in 0..10 |-> Rule(settled)[k]]
    OBVIOUS
  <2> HIDE DEF settled, Rule
  <2> QED
    BY <2>1, <2>2, <2>3
<1>4. round = Rule(round)
  <2> HIDE DEF settled, Rule
  <2> QED
    BY <1>3, Zenon
<1>5. Fitted(w, floor, cap, one) = round[10]
  BY Zenon DEF Fitted
<1>6. \A k \in 0..10 : round[k] = IF k = 0 THEN a ELSE Round(round[k - 1], floor, cap, one)
  <2>1. Rule(round) = [k \in 0..10 |-> IF k = 0 THEN a
                                      ELSE Round(round[k - 1], floor, cap, one)]
    BY <1>1
  <2> HIDE DEF round, Rule, a
  <2> QED
    BY <1>4, <2>1
<1> HIDE DEF round, a
<1>7. round[0] = a
  BY <1>6
<1>8. round[1] = b
  BY <1>2, <1>6, <1>7
<1>9. \A k \in 2..10 : round[k] = Round(round[k - 1], floor, cap, one)
  BY <1>6
<1>10. /\ round[2] = b /\ round[3] = b /\ round[4] = b
       /\ round[5] = b /\ round[6] = b
  BY <1>8, <1>9
<1>11. /\ round[7] = b /\ round[8] = b /\ round[9] = b /\ round[10] = b
  BY <1>9, <1>10
<1> QED
  BY <1>5, <1>11

(* The sum of a level.                                                     *)
LEMMA SumOfLevel ==
    ASSUME NEW level \in Nat
    PROVE  SumOf([s \in Funded |-> level]) \in Nat
<1> DEFINE flat == [s \in Funded |-> level]
<1>1. \A s \in Funded : flat[s] \in Nat
  OBVIOUS
<1> HIDE DEF flat
<1> QED
  BY <1>1, SumOfTyped

(* What all have above the level.                                          *)
LEMMA SpareIs ==
    ASSUME NEW w \in [Funded -> Nat], NEW floor \in Nat, NEW one \in Nat \ {0}
    PROVE  Spare([num |-> w, den |-> one], floor, one)
               = SumOf(w) - SumOf([s \in Funded |-> floor])
<1> DEFINE flat == [s \in Funded |-> floor]
           over == [s \in Funded |-> w[s] - floor]
<1>1. one \div one = 1
  <2>1. (1 * one) \div one = 1
    BY DivOfProduct
  <2> QED
    BY <2>1
<1>2. Spare([num |-> w, den |-> one], floor, one) = SumOf(over)
  <2>1. [s \in Funded |-> w[s] - floor * (one \div one)] = over
    BY <1>1
  <2> QED
    BY <2>1 DEF Spare
<1>3. \A s \in Funded : flat[s] \in Int /\ over[s] \in Int /\ w[s] = flat[s] + over[s]
  OBVIOUS
<1>4. IsFiniteSet(Funded)
  OBVIOUS
<1> HIDE DEF flat, over
<1>5. SumOf(w) = SumOf(flat) + SumOf(over)
  BY <1>3, <1>4, SumPlus DEF SumOf
<1>6. SumOf(flat) \in Int /\ SumOf(over) \in Int
  BY <1>3, <1>4, SumInt DEF SumOf
<1>7. Spare([num |-> w, den |-> one], floor, one) = SumOf(w) - SumOf(flat)
  BY <1>2, <1>5, <1>6
<1> QED
  BY <1>7 DEF flat

(* One round takes the excess from what all have above the floor: what is  *)
(* left comes to one, is within the floor and the cap, and in order.       *)
LEMMA GivesTheExcess ==
    ASSUME NEW w \in [Funded -> Nat], NEW floor \in Nat, NEW cap \in Nat,
           NEW one \in Nat \ {0},
           \A s \in Funded : floor <= w[s] /\ w[s] <= cap,
           SumOf([s \in Funded |-> floor]) <= one, SumOf(w) > one
    PROVE  LET f == TakeOff([num |-> w, den |-> one], floor, cap, one)
               d == Spare([num |-> w, den |-> one], floor, one)
           IN  /\ d \in Nat \ {0} /\ f = [num |-> f.num, den |-> one * d]
               /\ f.num \in [Funded -> Nat] /\ SumOf(f.num) = one * d
               /\ \A s \in Funded : floor * d <= f.num[s] /\ f.num[s] <= cap * d
               /\ \A s, t \in Funded : w[s] <= w[t] => f.num[s] <= f.num[t]
<1> DEFINE a == [num |-> w, den |-> one]
           f == TakeOff(a, floor, cap, one)
           d == Spare(a, floor, one)
           flat == [s \in Funded |-> floor]
           ex == SumOf(w) - one
           given == [s \in Funded |-> w[s] * d - ex * (w[s] - floor)]
<1>1. one \div one = 1
  <2>1. (1 * one) \div one = 1
    BY DivOfProduct
  <2> QED
    BY <2>1
<1>2. d = SumOf(w) - SumOf(flat)
  BY SpareIs
<1>3. SumOf(flat) \in Nat
  BY SumOfLevel
<1>4. SumOf(w) \in Nat
  <2>1. \A s \in Funded : w[s] \in Nat
    OBVIOUS
  <2> QED
    BY <2>1, SumOfTyped
<1>5. SumOf(flat) <= one /\ SumOf(w) > one
  OBVIOUS
<1>6. f = [num |-> Clip(given, floor * d, cap * d), den |-> one * d]
  <2>1. floor * (one \div one) = floor /\ cap * (one \div one) = cap
    BY <1>1
  <2>2. /\ a.num = w /\ a.den = one
    OBVIOUS
  <2> QED
    BY <2>1, <2>2 DEF TakeOff
<1>7. \A s \in Funded : given[s] = w[s] * d - ex * (w[s] - floor)
  OBVIOUS
<1>8. \A s \in Funded : w[s] \in Nat
  OBVIOUS
<1>9. \A s \in Funded : flat[s] = floor
  OBVIOUS
<1>10. IsFiniteSet(Funded)
  OBVIOUS
<1>11. given \in [Funded -> Int] <=> \A s \in Funded : given[s] \in Int
  OBVIOUS
<1>12. ex = SumOf(w) - one
  OBVIOUS
<1>13. given = [s \in Funded |-> given[s]]
  OBVIOUS
<1> HIDE DEF f, flat, d, ex, given
<1>14. d \in Nat \ {0} /\ ex \in Nat /\ ex <= d
  BY <1>2, <1>3, <1>4, <1>5, <1>12
(* given is the floor's share and what the excess leaves of the rest *)
<1>15. ASSUME NEW s \in Funded
       PROVE  /\ given[s] = w[s] * (d - ex) + ex * floor
              /\ given[s] \in Nat
              /\ floor * d <= given[s] /\ given[s] <= cap * d
  <2> DEFINE above == w[s] - floor
             rest == d - ex
             below == cap - w[s]
  <2>1. above \in Nat /\ rest \in Nat /\ below \in Nat
    BY <1>14, <1>8
  <2>2. w[s] = floor + above /\ d = rest + ex /\ cap = w[s] + below
    BY <1>14, <1>8
  <2>3. given[s] = w[s] * d - ex * above
    BY <1>7
  <2>4. w[s] \in Nat
    BY <1>8
  <2> HIDE DEF above, rest, below
  <2>5. w[s] * d = w[s] * rest + w[s] * ex
    BY <2>1, <2>2, <2>4, <1>14
  <2>6. w[s] * ex = floor * ex + above * ex
    BY <2>1, <2>2, <2>4, <1>14
  <2>7. given[s] = w[s] * rest + ex * floor
    BY <2>1, <2>3, <2>4, <2>5, <2>6, <1>14
  <2>8. w[s] * rest = floor * rest + above * rest
    BY <2>1, <2>2, <2>4, <1>14
  <2>9. floor * d = floor * rest + floor * ex
    BY <2>1, <2>2, <2>4, <1>14
  <2>10. above * rest \in Nat /\ above * ex \in Nat /\ below * d \in Nat /\ floor * d \in Nat
    BY <2>1, <1>14, TimesNat
  <2>11. cap * d = w[s] * d + below * d
    BY <2>1, <2>2, <2>4, <1>14
  <2>12. floor * rest \in Nat /\ floor * ex \in Nat /\ w[s] * d \in Nat
    BY <2>1, <2>4, <1>14, TimesNat
  <2>13. given[s] = floor * d + above * rest
    BY <2>1, <2>7, <2>8, <2>9, <2>10, <2>12, <1>14
  <2>14. given[s] + ex * above + below * d = cap * d
    BY <2>1, <2>3, <2>10, <2>11, <2>12, <1>14
  <2>15. ex * above = above * ex
    BY <2>1, <1>14
  <2>16. given[s] \in Nat /\ floor * d <= given[s]
    BY <2>10, <2>13
  <2>17. given[s] <= cap * d
    BY <2>10, <2>14, <2>15, <2>16
  <2> QED
    BY <2>7, <2>16, <2>17 DEF rest
<1>16. Clip(given, floor * d, cap * d) = given
  <2>1. \A s \in Funded : Smaller(Larger(given[s], floor * d), cap * d) = given[s]
    <3> SUFFICES ASSUME NEW s \in Funded
                 PROVE  Smaller(Larger(given[s], floor * d), cap * d) = given[s]
      OBVIOUS
    <3>1. floor * d \in Nat /\ cap * d \in Nat
      BY <1>14, TimesNat
    <3>2. given[s] \in Nat /\ floor * d <= given[s] /\ given[s] <= cap * d
      BY <1>15
    <3> QED
      BY <3>1, <3>2 DEF Smaller, Larger
  <2> QED
    BY <1>13, <2>1 DEF Clip
<1>17. given \in [Funded -> Nat]
  BY <1>13, <1>15
<1>18. SumOf(given) = one * d
  <2> DEFINE kept == [s \in Funded |-> (d - ex) * w[s]]
             share == [s \in Funded |-> ex * flat[s]]
  <2>1. \A s \in Funded : w[s] \in Int /\ kept[s] = (d - ex) * w[s]
    BY <1>8
  <2>2. \A s \in Funded : flat[s] \in Int /\ share[s] = ex * flat[s]
    BY <1>9
  <2>3. \A s \in Funded : kept[s] \in Int /\ share[s] \in Int
    <3> SUFFICES ASSUME NEW s \in Funded PROVE kept[s] \in Int /\ share[s] \in Int
      OBVIOUS
    <3> QED
      BY <1>8, <1>9, <1>14
  <2> HIDE DEF kept, share
  <2>4. \A s \in Funded : given[s] = kept[s] + share[s]
    <3> SUFFICES ASSUME NEW s \in Funded PROVE given[s] = kept[s] + share[s]
      OBVIOUS
    <3>1. given[s] = w[s] * (d - ex) + ex * floor
      BY <1>15
    <3>2. kept[s] = (d - ex) * w[s] /\ share[s] = ex * floor
      BY <1>9, <2>1, <2>2
    <3> QED
      BY <1>8, <1>14, <3>1, <3>2
  <2>5. d - ex \in Int /\ ex \in Int
    BY <1>14
  <2>6. SumOf(kept) = (d - ex) * SumOf(w)
    BY <1>10, <2>1, <2>5, SumTimes DEF SumOf
  <2>7. SumOf(share) = ex * SumOf(flat)
    BY <1>10, <2>2, <2>5, SumTimes DEF SumOf
  <2>8. SumOf(given) = SumOf(kept) + SumOf(share)
    BY <1>10, <2>3, <2>4, SumPlus DEF SumOf
  <2> DEFINE W == SumOf(w)
             F == SumOf(flat)
  <2>9. W \in Nat /\ F \in Nat /\ d = W - F /\ ex = W - one
    BY <1>2, <1>3, <1>4, <1>12
  <2>10. SumOf(given) = (d - ex) * W + ex * F
    BY <2>6, <2>7, <2>8
  <2> HIDE DEF W, F
  <2>11. d - ex = one - F /\ ex = W - one
    BY <2>9
  <2>12. (one - F) * W + (W - one) * F = one * (W - F)
    <3>1. (one - F) * W = one * W - F * W
      BY <2>9
    <3>2. (W - one) * F = W * F - one * F
      BY <2>9
    <3>3. one * (W - F) = one * W - one * F
      BY <2>9
    <3>4. W * F = F * W
      BY <2>9
    <3> QED
      BY <2>9, <3>1, <3>2, <3>3, <3>4
  <2> QED
    BY <2>9, <2>10, <2>11, <2>12
<1>19. ASSUME NEW s \in Funded, NEW t \in Funded, w[s] <= w[t]
       PROVE  given[s] <= given[t]
  <2>1. d - ex \in Nat
    BY <1>14
  <2>2. w[s] \in Nat /\ w[t] \in Nat
    BY <1>8
  <2>3. (d - ex) * w[s] <= (d - ex) * w[t]
    BY <1>19, <2>1, <2>2, TimesMore
  <2>4. given[s] = w[s] * (d - ex) + ex * floor /\ given[t] = w[t] * (d - ex) + ex * floor
    BY <1>15
  <2> QED
    BY <1>14, <2>1, <2>2, <2>3, <2>4
<1>20. f = [num |-> given, den |-> one * d]
  BY <1>6, <1>16
<1>21. f.num = given
  BY <1>20
<1>22. /\ d \in Nat \ {0} /\ f = [num |-> f.num, den |-> one * d]
       /\ f.num \in [Funded -> Nat] /\ SumOf(f.num) = one * d
       /\ \A s \in Funded : floor * d <= f.num[s] /\ f.num[s] <= cap * d
       /\ \A s, t \in Funded : w[s] <= w[t] => f.num[s] <= f.num[t]
  BY <1>14, <1>15, <1>17, <1>18, <1>19, <1>20, <1>21
<1> QED
  BY <1>22 DEF f, d

(* The fitted weights come to one at most, are within the floor and the    *)
(* cap (a cap below the floor is the weight), and in the order of w.       *)
FitsWithin(w, floor, cap, one) ==
    \E d \in Nat \ {0}, num \in [Funded -> Nat] :
        /\ Fitted(w, floor, cap, one) = [num |-> num, den |-> one * d]
        /\ SumOf(num) <= one * d
        /\ \A s \in Funded : /\ num[s] <= cap * d
                             /\ floor * d <= num[s] \/ num[s] = cap * d
        /\ \A s, t \in Funded : w[s] <= w[t] => num[s] <= num[t]

(* So the ten rounds end within the floor, the cap and one, and in order.  *)
LEMMA FittedIs ==
    ASSUME NEW w \in [Funded -> Nat], NEW floor \in Nat, NEW cap \in Nat,
           NEW one \in Nat \ {0}, SumOf([s \in Funded |-> floor]) <= one,
           \A s \in Funded : w[s] <= cap /\ (floor <= w[s] \/ w[s] = cap)
    PROVE  FitsWithin(w, floor, cap, one)
<1> SUFFICES \E d \in Nat \ {0}, num \in [Funded -> Nat] :
              /\ Fitted(w, floor, cap, one) = [num |-> num, den |-> one * d]
              /\ SumOf(num) <= one * d
              /\ \A s \in Funded : /\ num[s] <= cap * d
                                   /\ floor * d <= num[s] \/ num[s] = cap * d
              /\ \A s, t \in Funded : w[s] <= w[t] => num[s] <= num[t]
  BY DEF FitsWithin
<1> DEFINE a == [num |-> w, den |-> one]
           b == TakeOff(a, floor, cap, one)
           d == Spare(a, floor, one)
           flat == [s \in Funded |-> floor]
<1>1. CASE SumOf(w) <= one
  <2>1. Round(a, floor, cap, one) = a
    BY <1>1 DEF Round
  <2>2. Fitted(w, floor, cap, one) = a
    BY <2>1, SettlesAtOnce
  <2>3. one = one * 1 /\ floor = floor * 1 /\ cap = cap * 1
    OBVIOUS
  <2>4. Fitted(w, floor, cap, one) = [num |-> w, den |-> one * 1]
    BY <2>2, <2>3
  <2>5. 1 \in Nat \ {0}
    OBVIOUS
  <2> QED
    BY <1>1, <2>3, <2>4, <2>5
<1>2. CASE SumOf(w) > one
  <2>1. \A s \in Funded : w[s] \in Nat /\ flat[s] = floor
    OBVIOUS
  <2>2. SumOf(w) \in Nat /\ SumOf(flat) \in Nat
    BY <2>1, SumOfLevel, SumOfTyped
  (* were the floor above the cap all would be below it *)
  <2>3. floor <= cap
    <3> SUFFICES ASSUME ~(floor <= cap) PROVE FALSE
      OBVIOUS
    <3>1. \A s \in Funded : w[s] \in Int /\ flat[s] \in Int /\ w[s] <= flat[s]
      BY <2>1
    <3>2. IsFiniteSet(Funded)
      OBVIOUS
    <3> HIDE DEF flat
    <3>3. SumOf(w) <= SumOf(flat)
      BY <3>1, <3>2, SumAtMost DEF SumOf
    <3>4. SumOf(flat) <= one
      BY DEF flat
    <3> QED
      BY <1>2, <2>2, <3>3, <3>4
  <2>4. \A s \in Funded : floor <= w[s] /\ w[s] <= cap
    BY <2>1, <2>3
  <2>5. /\ d \in Nat \ {0} /\ b = [num |-> b.num, den |-> one * d]
        /\ b.num \in [Funded -> Nat] /\ SumOf(b.num) = one * d
        /\ \A s \in Funded : floor * d <= b.num[s] /\ b.num[s] <= cap * d
        /\ \A s, t \in Funded : w[s] <= w[t] => b.num[s] <= b.num[t]
    BY <1>2, <2>4, GivesTheExcess
  <2>6. a.num = w /\ a.den = one
    OBVIOUS
  <2> HIDE DEF a, b, d, flat
  <2>7. Round(a, floor, cap, one) = b
    <3>1. ~(SumOf(a.num) <= a.den) /\ Spare(a, floor, one) # 0
      BY <1>2, <2>2, <2>5, <2>6 DEF d
    <3> QED
      BY <3>1 DEF Round, b
  <2>8. b.den = one * d /\ one * d \in Nat
    <3>1. b.den = one * d
      BY <2>5
    <3>2. one \in Nat /\ d \in Nat
      BY <2>5
    <3> QED
      BY <3>1, <3>2, TimesNat
  <2>9. Round(b, floor, cap, one) = b
    <3>1. SumOf(b.num) <= b.den
      BY <2>5, <2>8
    <3> QED
      BY <3>1 DEF Round
  <2>10. Fitted(w, floor, cap, one) = b
    BY <2>7, <2>9, SettlesAtOnce DEF a
  <2>11. SumOf(b.num) <= one * d
    BY <2>5, <2>8
  <2> QED
    BY <2>5, <2>10, <2>11
<1>3. SumOf(w) \in Nat
  <2>1. \A s \in Funded : w[s] \in Nat
    OBVIOUS
  <2> QED
    BY <2>1, SumOfTyped
<1>4. SumOf(w) <= one \/ SumOf(w) > one
  BY <1>3
<1> QED
  BY <1>1, <1>2, <1>4, Zenon

-----------------------------------------------------------------------------
(* The weights *)

(* The blend of two splits, and what it orders.                            *)
LEMMA BlendTyped ==
    ASSUME NEW mass \in [Funded -> Nat \ {0}], NEW base \in [Funded -> Nat],
           NEW conf \in 0..4, SumOf(base) \in Nat, SumOf(mass) \in Nat
    PROVE  /\ Blend(mass, base, conf) \in [Funded -> Nat]
           /\ \A s, t \in Funded :
                  base[s] = base[t] /\ mass[s] <= mass[t]
                      => Blend(mass, base, conf)[s] <= Blend(mass, base, conf)[t]
<1> DEFINE w == Blend(mass, base, conf)
           B == SumOf(base)
           M == SumOf(mass)
           sure == conf * B
<1>1. B \in Nat /\ M \in Nat /\ conf \in Nat /\ 4 - conf \in Nat
  OBVIOUS
<1>2. w = [s \in Funded |-> w[s]]
  BY DEF Blend
<1>3. \A s \in Funded : w[s] = 5 * (conf * mass[s] * B + (4 - conf) * base[s] * M)
  BY DEF Blend
<1>4. \A s \in Funded : mass[s] \in Nat /\ base[s] \in Nat
  OBVIOUS
<1> HIDE DEF w, B, M
<1>5. sure \in Nat
  BY <1>1, TimesNat
<1>6. ASSUME NEW s \in Funded
      PROVE  /\ sure * mass[s] \in Nat /\ (4 - conf) * base[s] * M \in Nat
             /\ w[s] = 5 * (sure * mass[s] + (4 - conf) * base[s] * M)
  <2>1. sure * mass[s] \in Nat
    BY <1>4, <1>5, TimesNat
  <2>2. (4 - conf) * base[s] \in Nat
    BY <1>1, <1>4, TimesNat
  <2>3. (4 - conf) * base[s] * M \in Nat
    BY <1>1, <2>2, TimesNat
  <2>4. conf * mass[s] * B = sure * mass[s]
    BY <1>1, <1>4
  <2> QED
    BY <1>3, <2>1, <2>3, <2>4
<1>7. ASSUME NEW s \in Funded PROVE w[s] \in Nat
  <2> HIDE DEF sure
  <2> QED
    BY <1>6
<1>8. ASSUME NEW s \in Funded, NEW t \in Funded, base[s] = base[t], mass[s] <= mass[t]
      PROVE  w[s] <= w[t]
  <2>1. sure * mass[s] <= sure * mass[t]
    BY <1>4, <1>5, <1>8, TimesMore
  <2>2. (4 - conf) * base[s] * M = (4 - conf) * base[t] * M
    BY <1>8
  <2> DEFINE rest == (4 - conf) * base[s] * M
             more == sure * mass[t]
             less == sure * mass[s]
  <2>3. /\ w[s] = 5 * (less + rest) /\ w[t] = 5 * (more + rest)
        /\ rest \in Nat /\ less \in Nat /\ more \in Nat
    BY <1>6, <2>2
  <2>4. less <= more
    BY <2>1
  <2> HIDE DEF rest, more, less
  <2> QED
    BY <2>3, <2>4
<1>9. w \in [Funded -> Nat]
  BY <1>2, <1>7
<1> QED
  BY <1>8, <1>9 DEF w

(* A weight between floor and cap, or at the cap below the floor.          *)
LEMMA ClipIs ==
    ASSUME NEW w \in [Funded -> Nat], NEW floor \in Nat, NEW cap \in Nat
    PROVE  /\ Clip(w, floor, cap) \in [Funded -> Nat]
           /\ \A s \in Funded : /\ Clip(w, floor, cap)[s] <= cap
                                /\ \/ floor <= Clip(w, floor, cap)[s]
                                   \/ Clip(w, floor, cap)[s] = cap
           /\ \A s, t \in Funded :
                  w[s] <= w[t] => Clip(w, floor, cap)[s] <= Clip(w, floor, cap)[t]
<1>1. \A s \in Funded : w[s] \in Nat
  OBVIOUS
<1> QED
  BY <1>1 DEF Clip, Smaller, Larger

(* The floor of a sleeve is no more than its base weight, so that all can  *)
(* have it.                                                                *)
LEMMA FloorFits ==
    ASSUME NEW mass, SumOf(mass) \in Nat \ {0},
           NEW base \in [Funded -> Nat], SumOf(base) \in Nat \ {0},
           NEW k \in 0..20
    PROVE  LET floor == FloorOf(k, mass, base)
               M == SumOf(mass)
               B == SumOf(base)
           IN  /\ floor \in Nat
               /\ \/ floor = k * M * B
                  \/ floor = 20 * M * LeastOf(base)
               /\ SumOf([s \in Funded |-> floor]) <= 20 * M * B
<1> DEFINE floor == FloorOf(k, mass, base)
           M == SumOf(mass)
           B == SumOf(base)
           least == LeastOf(base)
           flat == [s \in Funded |-> floor]
           whole == [s \in Funded |-> (20 * M) * base[s]]
<1>1. \A s \in Funded : base[s] \in Nat
  OBVIOUS
<1>2. least \in Nat /\ \A s \in Funded : least <= base[s]
  <2>1. base \in [Funded -> Int]
    BY <1>1
  <2> QED
    BY <1>1, <2>1, LeastIs
<1>3. M \in Nat \ {0} /\ B \in Nat \ {0} /\ k \in Nat
  OBVIOUS
<1>4. floor = Smaller(k * M * B, 20 * M * least)
  BY DEF FloorOf, Twentieths
<1>5. IsFiniteSet(Funded)
  OBVIOUS
<1>6. \A s \in Funded : flat[s] = floor /\ whole[s] = (20 * M) * base[s]
  OBVIOUS
<1>7. SumOf(base) = B
  OBVIOUS
<1> HIDE DEF floor, M, B, least, flat, whole
<1>8. k * M * B \in Nat
  <2>1. k * M \in Nat
    BY <1>3, TimesNat
  <2> QED
    BY <1>3, <2>1, TimesNat
<1>9. 20 * M \in Nat
  BY <1>3
<1>10. 20 * M * least \in Nat
  BY <1>2, <1>9, TimesNat
<1>11. /\ floor \in Nat /\ floor <= 20 * M * least
       /\ floor = k * M * B \/ floor = 20 * M * least
  <2> DEFINE x == k * M * B
             y == 20 * M * least
  <2>1. x \in Nat /\ y \in Nat /\ floor = Smaller(x, y)
    BY <1>4, <1>8, <1>10
  <2> HIDE DEF x, y
  <2>2. floor \in Nat /\ floor <= y /\ (floor = x \/ floor = y)
    BY <2>1 DEF Smaller
  <2> QED
    BY <2>2 DEF x, y
<1>12. ASSUME NEW s \in Funded
       PROVE  flat[s] \in Int /\ whole[s] \in Int /\ flat[s] <= whole[s]
  <2>1. 20 * M * least <= 20 * M * base[s]
    BY <1>1, <1>2, <1>9, TimesMore
  <2>2. whole[s] \in Nat
    BY <1>1, <1>6, <1>9, TimesNat
  <2>3. whole[s] = 20 * M * base[s]
    BY <1>6
  <2> QED
    BY <1>6, <1>10, <1>11, <2>1, <2>2, <2>3
<1>13. SumOf(flat) <= SumOf(whole)
  BY <1>5, <1>12, SumAtMost DEF SumOf
<1>14. SumOf(whole) = (20 * M) * SumOf(base)
  <2>1. 20 * M \in Int /\ \A s \in Funded : base[s] \in Int
    BY <1>1, <1>9
  <2> QED
    BY <1>5, <1>6, <2>1, SumTimes DEF SumOf
<1>15. SumOf(flat) <= 20 * M * B
  BY <1>7, <1>13, <1>14
<1> QED
  BY <1>11, <1>15 DEF floor, flat, M, B, least

(* The weights come to one at most, keep within floor and cap, and follow  *)
(* the scores of sleeves with the same base.                               *)
LEMMA WeightsSound ==
    ASSUME NEW parts \in BaseWeights, NEW score \in [Funded -> Scores],
           NEW conf \in 0..4, NEW k \in MinWeights, NEW p \in StrategyCaps
    PROVE  LET base == Base(parts)
               w    == Weights(parts, score, conf, k, p)
           IN  /\ w.num \in [Funded -> Nat] /\ w.den \in Nat \ {0}
               /\ SumOf(w.num) <= w.den
               /\ \A s \in Funded :
                      /\ w.num[s] * 20 <= p * w.den
                      /\ \/ w.num[s] * 20 >= k * w.den
                         \/ w.num[s] * SumOf(base) >= LeastOf(base) * w.den
                         \/ w.num[s] * 20 = p * w.den
               /\ \A s, t \in Funded :
                      base[s] = base[t] /\ score[s] <= score[t] => w.num[s] <= w.num[t]
<1> DEFINE base == Base(parts)
           mass == Mass(score)
           M == SumOf(mass)
           B == SumOf(base)
           one == 20 * M * B
           cap == p * M * B
           floor == FloorOf(k, mass, base)
           blend == Blend(mass, base, conf)
           clip == Clip(blend, floor, cap)
           fit == Fitted(clip, floor, cap, one)
           w == Weights(parts, score, conf, k, p)
<1>1. base \in [Funded -> Nat] /\ B \in Nat \ {0}
  BY BaseTyped
<1>2. /\ mass \in [Funded -> Nat \ {0}] /\ M \in Nat \ {0}
      /\ \A s, t \in Funded : score[s] <= score[t] => mass[s] <= mass[t]
  BY MassTyped
<1>3. k \in 0..20 /\ p \in 1..20 /\ k \in Nat /\ p \in Nat
  OBVIOUS
<1>4. w = [num |-> fit.num, den |-> Larger(fit.den, SumOf(fit.num))]
  <2>1. Twentieths(20, mass, base) = one
    BY DEF Twentieths
  <2>2. Twentieths(p, mass, base) = cap
    BY DEF Twentieths
  <2> QED
    BY <2>1, <2>2 DEF Weights
<1>5. \A s \in Funded : score[s] \in Int
  OBVIOUS
<1>6. M = SumOf(mass) /\ B = SumOf(base)
  OBVIOUS
<1> HIDE DEF base, mass, M, B
<1>7. /\ floor \in Nat
      /\ floor = k * M * B \/ floor = 20 * M * LeastOf(base)
      /\ SumOf([s \in Funded |-> floor]) <= 20 * M * B
  BY <1>1, <1>2, <1>3, <1>6, FloorFits
<1>8. one \in Nat \ {0} /\ cap \in Nat
  <2>1. M * B \in Nat \ {0}
    BY <1>1, <1>2
  <2> DEFINE mb == M * B
  <2>2. one = 20 * mb /\ cap = p * mb
    BY <1>1, <1>2, <1>3
  <2>3. mb \in Nat \ {0}
    BY <2>1
  <2> HIDE DEF mb, one, cap
  <2>4. one \in Nat \ {0}
    BY <2>2, <2>3
  <2>5. cap \in Nat
    BY <1>3, <2>2, <2>3, TimesNat
  <2> QED
    BY <2>4, <2>5
<1>9. LeastOf(base) \in Int
  <2>1. base \in [Funded -> Int]
    BY <1>1
  <2> QED
    BY <2>1, LeastIs
<1>10. /\ blend \in [Funded -> Nat]
       /\ \A s, t \in Funded : base[s] = base[t] /\ mass[s] <= mass[t] => blend[s] <= blend[t]
  <2>1. SumOf(base) \in Nat /\ SumOf(mass) \in Nat
    BY <1>1, <1>2, <1>6
  <2> QED
    BY <1>1, <1>2, <2>1, BlendTyped
<1> HIDE DEF blend, floor
<1>11. /\ clip \in [Funded -> Nat]
       /\ \A s \in Funded : clip[s] <= cap /\ (floor <= clip[s] \/ clip[s] = cap)
       /\ \A s, t \in Funded : blend[s] <= blend[t] => clip[s] <= clip[t]
  <2> HIDE DEF cap
  <2> QED
    BY <1>7, <1>8, <1>10, ClipIs
<1>12. SumOf([s \in Funded |-> floor]) <= one
  BY <1>7
<1> HIDE DEF clip, one, cap, w, fit
<1>13. PICK d \in Nat \ {0}, num \in [Funded -> Nat] :
          /\ Fitted(clip, floor, cap, one) = [num |-> num, den |-> one * d]
          /\ SumOf(num) <= one * d
          /\ \A s \in Funded : /\ num[s] <= cap * d
                               /\ floor * d <= num[s] \/ num[s] = cap * d
          /\ \A s, t \in Funded : clip[s] <= clip[t] => num[s] <= num[t]
  <2>1. FitsWithin(clip, floor, cap, one)
    BY <1>7, <1>8, <1>11, <1>12, FittedIs
  <2> QED
    BY <2>1 DEF FitsWithin
<1>14. w = [num |-> num, den |-> one * d]
  <2>1. fit.num = num /\ fit.den = one * d
    BY <1>13 DEF fit
  <2>2. one * d \in Nat
    BY <1>8, <1>13, TimesNat
  <2>3. \A s \in Funded : num[s] \in Nat
    BY <1>13
  <2>4. SumOf(num) \in Nat
    BY <2>3, SumOfTyped
  <2>5. Larger(one * d, SumOf(num)) = one * d
    BY <1>13, <2>2, <2>4 DEF Larger
  <2> QED
    BY <1>4, <2>1, <2>5
<1>15. w.num = num /\ w.den = one * d
  BY <1>14
<1>16. /\ SumOf(w.num) <= w.den
       /\ w.num \in [Funded -> Nat] /\ w.den \in Nat \ {0}
  <2>1. one * d \in Nat \ {0}
    BY <1>8, <1>13
  <2> QED
    BY <1>13, <1>15, <2>1
<1>17. ASSUME NEW s \in Funded
       PROVE  /\ w.num[s] * 20 <= p * w.den
              /\ \/ w.num[s] * 20 >= k * w.den
                 \/ w.num[s] * B >= LeastOf(base) * w.den
                 \/ w.num[s] * 20 = p * w.den
  <2> DEFINE x == num[s]
             den == one * d
             least == LeastOf(base)
             md == 20 * M * d
  <2>1. x \in Nat /\ x <= cap * d /\ (floor * d <= x \/ x = cap * d)
    BY <1>13
  <2>2. w.num[s] = x /\ w.den = den
    BY <1>15
  <2>3. p * den = 20 * (cap * d)
    BY <1>1, <1>2, <1>3, <1>13 DEF cap, one
  <2>4. k * den = 20 * (k * M * B * d)
    BY <1>1, <1>2, <1>3, <1>13 DEF one
  <2>5. den = md * B /\ 20 * M * least * d = md * least
    BY <1>1, <1>2, <1>9, <1>13 DEF one
  <2>6. cap * d \in Nat /\ floor * d \in Nat
    BY <1>7, <1>8, <1>13, TimesNat
  <2>7. x * 20 <= p * den /\ (x = cap * d => x * 20 = p * den)
    BY <2>1, <2>3, <2>6
  <2>8. ASSUME floor * d <= x, floor = k * M * B
        PROVE  x * 20 >= k * den
    BY <2>1, <2>4, <2>6, <2>8
  <2>9. ASSUME floor * d <= x, floor = 20 * M * least
        PROVE  x * B >= least * den
    <3>1. floor * d = md * least
      BY <2>5, <2>9
    <3>2. B * (md * least) <= B * x
      <4>1. floor * d \in Nat
        BY <2>6
      <4>2. B * (floor * d) <= B * x
        BY <1>1, <2>1, <2>9, <4>1, TimesMore
      <4> QED
        BY <3>1, <4>2
    <3>3. least * den = B * (md * least)
      <4>1. md \in Int
        BY <1>2, <1>13
      <4> HIDE DEF md, least
      <4>2. least \in Int
        BY <1>9 DEF least
      <4> QED
        BY <1>1, <2>5, <4>1, <4>2
    <3>4. x * B = B * x
      BY <1>1, <2>1
    <3> QED
      BY <3>2, <3>3, <3>4
  <2> HIDE DEF x, den, md
  <2> QED
    BY <1>7, <2>1, <2>2, <2>7, <2>8, <2>9
<1>18. ASSUME NEW s \in Funded, NEW t \in Funded, base[s] = base[t], score[s] <= score[t]
       PROVE  w.num[s] <= w.num[t]
  <2>1. mass[s] <= mass[t]
    BY <1>2, <1>18
  <2>2. blend[s] <= blend[t]
    BY <1>10, <1>18, <2>1
  <2>3. clip[s] <= clip[t]
    BY <1>11, <2>2
  <2> QED
    BY <1>13, <1>15, <2>3
<1> QED
  BY <1>6, <1>16, <1>17, <1>18 DEF base, w

(* A product with what is not less is not less.                            *)
LEMMA Scaled ==
    ASSUME NEW a \in Int, NEW b \in Int, NEW c \in Nat, a <= b
    PROVE  a * c <= b * c
OBVIOUS

(* Deployment is a fraction between 30% and all, and all while volatility  *)
(* is at its target.                                                      *)
LEMMA DeploymentIs ==
    ASSUME NEW aim \in VolTargets, NEW vol \in Volatilities
    PROVE  LET f == Deployment(aim, vol)
           IN  /\ f.num \in Nat /\ f.den \in Nat \ {0}
               /\ f.num <= f.den /\ 3 * f.den <= 10 * f.num
               /\ aim = 0 \/ vol <= aim => f.num = f.den
<1>1. aim \in Nat /\ vol \in Nat
  OBVIOUS
<1>2. CASE aim = 0 \/ vol <= aim
  <2>1. Deployment(aim, vol) = [num |-> 1, den |-> 1]
    BY <1>2 DEF Deployment
  <2> QED
    BY <2>1
<1>3. CASE ~(aim = 0 \/ vol <= aim) /\ 10 * aim < 3 * vol
  <2>1. Deployment(aim, vol) = [num |-> 3, den |-> 10]
    BY <1>1, <1>3 DEF Deployment
  <2> QED
    BY <1>3, <2>1
<1>4. CASE ~(aim = 0 \/ vol <= aim) /\ ~(10 * aim < 3 * vol)
  <2>1. Deployment(aim, vol) = [num |-> aim, den |-> vol]
    BY <1>1, <1>4 DEF Deployment
  <2>2. vol \in Nat \ {0} /\ aim <= vol /\ 3 * vol <= 10 * aim
    BY <1>1, <1>4
  <2> QED
    BY <1>1, <1>4, <2>1, <2>2
<1> QED
  BY <1>2, <1>3, <1>4

(* What is handed out of an equity above zero: the weights times a factor. *)
(* The factor keeps a bound x / n <= y / den on a weight as a bound on the *)
(* amount, and a floor as a floor on what is deployed of it.               *)
LEMMA AmountIs ==
    ASSUME NEW num \in Nat, NEW den \in Nat, NEW f \in Nat, NEW g \in Nat,
           NEW e \in Nat, f <= g, 3 * g <= 10 * f,
           NEW n \in Nat, NEW c \in Nat
    PROVE  LET got == num * f * e
               due == e * (den * g)
           IN  /\ num * n <= c * den => got * n <= c * due
               /\ c * den <= num * n =>
                      /\ 3 * c * due <= got * (10 * n)
                      /\ f = g => c * due <= got * n
<1> DEFINE got == num * f * e
           due == e * (den * g)
<1>1. f * e \in Nat /\ g * e \in Nat /\ f * e <= g * e
  BY TimesNat, Scaled
<1>2. num * n \in Nat /\ c * den \in Nat
  BY TimesNat
<1>3. got * n = (num * n) * (f * e) /\ c * due = (c * den) * (g * e)
  OBVIOUS
<1>4. 3 * (g * e) <= 10 * (f * e)
  <2>1. (3 * g) * e <= (10 * f) * e
    BY Scaled
  <2> QED
    BY <2>1
<1> DEFINE a == num * n
           b == c * den
           fe == f * e
           ge == g * e
<1>5. /\ a \in Nat /\ b \in Nat /\ fe \in Nat /\ ge \in Nat
      /\ fe <= ge /\ 3 * ge <= 10 * fe
      /\ got * n = a * fe /\ c * due = b * ge
      /\ f = g => fe = ge
  BY <1>1, <1>2, <1>3, <1>4
<1>6. got * (10 * n) = 10 * (got * n) /\ 3 * c * due = 3 * (c * due)
  OBVIOUS
<1> HIDE DEF a, b, fe, ge, got, due
<1>7. a * fe <= a * ge /\ b * (3 * ge) <= b * (10 * fe)
  BY <1>5, TimesMore
<1>8. a <= b => a * ge <= b * ge
  BY <1>5, Scaled
<1>9. b <= a => b * fe <= a * fe
  BY <1>5, Scaled
<1>10. a <= b => a * fe <= b * ge
  BY <1>5, <1>7, <1>8, TimesNat
<1>11. b <= a => 3 * (b * ge) <= 10 * (a * fe)
  <2>1. b * (3 * ge) = 3 * (b * ge) /\ b * (10 * fe) = 10 * (b * fe)
    BY <1>5
  <2>2. b * ge \in Nat /\ b * fe \in Nat /\ a * fe \in Nat
    BY <1>5, TimesNat
  <2> QED
    BY <1>7, <1>9, <2>1, <2>2
<1>12. b <= a /\ f = g => b * ge <= a * fe
  BY <1>5, <1>9
<1> QED
  BY <1>5, <1>6, <1>10, <1>11, <1>12 DEF a, b, got, due

(* Every split is sound: SplitSound, for every value of the constants.     *)
THEOREM EverySplit == SplitSound
<1> SUFFICES
      ASSUME NEW parts \in BaseWeights, NEW score \in [Funded -> Scores],
             NEW conf \in 0..4, NEW k \in MinWeights, NEW p \in StrategyCaps,
             NEW equity \in Equities, NEW aim \in VolTargets,
             NEW vol \in Volatilities
      PROVE  LET base  == Base(parts)
                 all   == SumOf(base)
                 least == LeastOf(base)
                 w     == Weights(parts, score, conf, k, p)
                 given == Allocate(w, equity, aim, vol)
                 due   == Larger(equity, 0) * given.den
                 full  == aim = 0 \/ vol <= aim
             IN  /\ SumOf(given.num) <= due
                 /\ \A s \in Funded :
                        LET got == given.num[s]
                        IN  /\ got * 20 <= p * due
                            /\ full => \/ got * 20 >= k * due
                                       \/ got * all >= least * due
                                       \/ got * 20 >= p * due
                            /\ \/ got * 200 >= 3 * k * due
                               \/ got * 10 * all >= 3 * least * due
                               \/ got * 200 >= 3 * p * due
                 /\ \A s, t \in Funded :
                        base[s] = base[t] /\ score[s] <= score[t]
                            => given.num[s] <= given.num[t]
  BY DEF SplitSound
<1> DEFINE base  == Base(parts)
           all   == SumOf(base)
           least == LeastOf(base)
           w     == Weights(parts, score, conf, k, p)
           dep   == Deployment(aim, vol)
           f     == dep.num
           g     == dep.den
           given == Allocate(w, equity, aim, vol)
           due   == Larger(equity, 0) * given.den
           full  == aim = 0 \/ vol <= aim
<1>1. /\ w.num \in [Funded -> Nat] /\ w.den \in Nat \ {0}
      /\ SumOf(w.num) <= w.den
      /\ \A s \in Funded :
             /\ w.num[s] * 20 <= p * w.den
             /\ \/ w.num[s] * 20 >= k * w.den
                \/ w.num[s] * all >= least * w.den
                \/ w.num[s] * 20 = p * w.den
      /\ \A s, t \in Funded :
             base[s] = base[t] /\ score[s] <= score[t] => w.num[s] <= w.num[t]
  BY WeightsSound
<1>2. /\ f \in Nat /\ g \in Nat \ {0} /\ f <= g /\ 3 * g <= 10 * f
      /\ full => f = g
  BY DeploymentIs
<1>3. all \in Nat /\ least \in Nat
  <2>1. base \in [Funded -> Nat] /\ all \in Nat
    BY BaseTyped
  <2>2. base \in [Funded -> Int]
    BY <2>1
  <2>3. \E s \in Funded : least = base[s]
    BY <2>2, LeastIs
  <2> QED
    BY <2>1, <2>3
<1>4. k \in Nat /\ p \in Nat /\ equity \in Int
  OBVIOUS
<1>5. CASE equity <= 0
  <2>1. given = [num |-> [s \in Funded |-> 0], den |-> 1]
    BY <1>5 DEF Allocate
  <2>2. due = 0
    BY <1>4, <1>5, <2>1 DEF Larger
  <2>3. \A s \in Funded : given.num[s] = 0
    BY <2>1
  <2>4. SumOf(given.num) = 0
    BY <2>3, SumZero DEF SumOf
  <2> HIDE DEF given, due, base, all, least, full
  <2> QED
    BY <1>3, <1>4, <2>2, <2>3, <2>4 DEF base, all, least, given, due
<1>6. CASE equity > 0
  <2> DEFINE e == equity
             fe == f * e
  <2>1. e \in Nat \ {0}
    BY <1>4, <1>6
  <2> HIDE DEF w, dep
  <2>2. given = [num |-> [s \in Funded |-> w.num[s] * f * e], den |-> w.den * g]
    BY <1>4, <1>6 DEF Allocate, dep
  <2>3. due = e * (w.den * g)
    BY <1>4, <1>6, <2>2 DEF Larger
  <2>4. \A s \in Funded : given.num[s] = w.num[s] * f * e
    BY <2>2
  <2> HIDE DEF given, due, base, all, least, full, f, g, e
  <2>5. fe \in Nat /\ fe <= g * e /\ g * e \in Nat
    BY <1>2, <2>1, TimesNat, Scaled
  <2> HIDE DEF fe
  <2>6. ASSUME NEW s \in Funded
        PROVE  LET got == given.num[s]
               IN  /\ got * 20 <= p * due
                   /\ full => \/ got * 20 >= k * due
                              \/ got * all >= least * due
                              \/ got * 20 >= p * due
                   /\ \/ got * 200 >= 3 * k * due
                      \/ got * 10 * all >= 3 * least * due
                      \/ got * 200 >= 3 * p * due
    <3> DEFINE got == given.num[s]
               n == w.num[s]
               den == w.den
    <3>1. /\ n \in Nat /\ den \in Nat /\ got = n * f * e /\ due = e * (den * g)
          /\ n * 20 <= p * den
          /\ k * den <= n * 20 \/ least * den <= n * all \/ p * den <= n * 20
      BY <1>1, <1>4, <2>3, <2>4
    <3>2. got \in Nat /\ due \in Nat
      BY <1>2, <2>1, <3>1, TimesNat
    <3> HIDE DEF got, n, den
    <3>3. got * 20 <= p * due
      BY <1>2, <1>4, <2>1, <3>1, AmountIs
    <3>4. ASSUME NEW c \in Nat, NEW m \in Nat, c * den <= n * m
          PROVE  3 * c * due <= got * (10 * m) /\ (full => c * due <= got * m)
      BY <1>2, <2>1, <3>1, <3>4, AmountIs
    <3>5. CASE k * den <= n * 20
      BY <1>4, <3>2, <3>3, <3>4, <3>5 DEF got
    <3>6. CASE least * den <= n * all
      <4>1. got * (10 * all) = got * 10 * all
        BY <1>3, <3>2
      <4> QED
        BY <1>3, <3>3, <3>4, <3>6, <4>1 DEF got
    <3>7. CASE p * den <= n * 20
      BY <1>4, <3>2, <3>3, <3>4, <3>7 DEF got
    <3> QED
      BY <3>1, <3>5, <3>6, <3>7
  <2>7. SumOf(given.num) <= due
    <3>1. \A s \in Funded : w.num[s] \in Nat /\ given.num[s] = fe * w.num[s]
      BY <1>1, <1>2, <2>1, <2>4 DEF fe
    <3>2. SumOf(given.num) = fe * SumOf(w.num)
      BY <2>5, <3>1, SumTimes DEF SumOf
    <3>3. SumOf(w.num) \in Nat
      BY <3>1, SumOfTyped
    <3>4. fe * SumOf(w.num) <= fe * w.den /\ w.den * fe <= w.den * (g * e)
      BY <1>1, <2>5, <3>3, TimesMore
    <3>5. w.den * (g * e) = due /\ w.den * fe = fe * w.den
      BY <1>1, <1>2, <2>1, <2>3, <2>5
    <3>6. fe * w.den \in Nat /\ fe * SumOf(w.num) \in Nat /\ due \in Nat
      BY <1>1, <1>2, <2>1, <2>3, <2>5, <3>3, TimesNat
    <3> QED
      BY <3>2, <3>4, <3>5, <3>6
  <2>8. ASSUME NEW s \in Funded, NEW t \in Funded,
               base[s] = base[t], score[s] <= score[t]
        PROVE  given.num[s] <= given.num[t]
    <3>1. w.num[s] \in Nat /\ w.num[t] \in Nat /\ w.num[s] <= w.num[t]
      BY <1>1, <2>8
    <3>2. given.num[s] = w.num[s] * fe /\ given.num[t] = w.num[t] * fe
      BY <1>2, <2>1, <2>4, <3>1 DEF fe
    <3> QED
      BY <2>5, <3>1, <3>2, Scaled
  <2> QED
    BY <2>6, <2>7, <2>8, Zenon DEF base, all, least, given, due, full, w
<1> QED
  BY <1>4, <1>5, <1>6

(* So is the one that is checked before the first pass.                    *)
THEOREM SplitsSound == Spec => []CapitalSplitSound
<1>1. CapitalSplitSound
  BY EverySplit DEF CapitalSplitSound
<1> QED
  BY <1>1, PTL
=============================================================================
