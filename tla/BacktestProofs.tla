---------------------------- MODULE BacktestProofs ----------------------------
(***************************************************************************)
(* Theorems about Backtest, for every strategy, every market and every     *)
(* number of days, and about the windows and the verdict of walk-forward   *)
(* validation, for every range of days and every span.                     *)
(***************************************************************************)
EXTENDS MCBacktest, Arithmetic

USE BacktestAssumption DEF BacktestAssumption

Sides == {"buy", "sell"}

-----------------------------------------------------------------------------
(* Prices *)

(* A contract stands for at least one share.                               *)
LEMMA MultTyped == \A i \in Instruments : Mult(i) \in Nat \ {0}
  BY DEF Instruments, Mult

(* A quote around a price has a bid and an ask that are not negative.      *)
LEMMA QuoteTyped ==
    ASSUME NEW mid \in Nat, NEW half \in Nat
    PROVE  /\ QuoteAround(mid, half).bid \in Nat
           /\ QuoteAround(mid, half).ask \in Nat
  BY DEF QuoteAround, Greater

(* The middle of such a quote is not negative either.                      *)
LEMMA MidTyped ==
    ASSUME NEW q, q.bid \in Nat, q.ask \in Nat
    PROVE  Mid(q) \in Nat
<1>1. (q.bid + q.ask) \div 2 \in Nat
  BY DivBounds
<1> QED
  BY <1>1 DEF Mid

(* A call has a price wherever its stock has one.                          *)
LEMMA TheoTyped ==
    ASSUME NEW px \in Nat
    PROVE  Intrinsic(px) \in Nat /\ Theo(px) \in Nat
  BY DEF Intrinsic, Theo, Greater

(* The quotes orders execute on and the chain's are well typed.            *)
LEMMA MarketTyped ==
    ASSUME MarketOK, NEW i \in Instruments
    PROVE  /\ open \in Nat /\ last \in Nat
           /\ ChainQuote.bid \in Nat /\ ChainQuote.ask \in Nat
           /\ ExecQuote(i).bid \in Nat /\ ExecQuote(i).ask \in Nat
<1>1. open \in Nat /\ last \in Nat
  <2>1. open \in Prices \cup {0} /\ last \in Prices \cup {0}
    BY DEF MarketOK
  <2>2. Prices \subseteq Nat
    OBVIOUS
  <2> QED
    BY <2>1, <2>2
<1>2. ChainQuote.bid \in Nat /\ ChainQuote.ask \in Nat
  BY <1>1, TheoTyped, QuoteTyped DEF ChainQuote
<1>3. /\ QuoteAround(open, HalfSpread).bid \in Nat
      /\ QuoteAround(open, HalfSpread).ask \in Nat
  BY <1>1, QuoteTyped
<1>4. /\ QuoteAround(Theo(open), OptionHalfSpread).bid \in Nat
      /\ QuoteAround(Theo(open), OptionHalfSpread).ask \in Nat
  BY <1>1, TheoTyped, QuoteTyped
<1>5. ExecQuote(i).bid \in Nat /\ ExecQuote(i).ask \in Nat
  BY <1>2, <1>3, <1>4 DEF ExecQuote, Instruments, NoQuote
<1> QED
  BY <1>1, <1>2, <1>5

(* Prices and fees of an execution are not negative.                       *)
LEMMA ExecutionTyped ==
    ASSUME MarketOK, NEW i \in Instruments, NEW side \in Sides,
           NEW qty \in Nat \ {0}
    PROVE  /\ ExecutionPrice(i, side) \in Nat
           /\ Fees(i, side, qty) \in Nat
<1>1. ExecQuote(i).bid \in Nat /\ ExecQuote(i).ask \in Nat
  BY MarketTyped
<1>2. ExecutionPrice(i, side) \in Nat
  BY <1>1 DEF ExecutionPrice, Greater
<1>3. Fees(i, side, qty) \in Nat
  BY DEF Fees
<1> QED
  BY <1>2, <1>3

-----------------------------------------------------------------------------
(* A fill *)

(* The parts of a fill: the contracts that close, and the cost released    *)
(* with them, which is all of it when the position is closed.              *)
Held(p)       == Abs(p.qty)
Closing(p, n) == Lesser(n, Held(p))
Released(p, n) ==
    IF Held(p) = 0 THEN 0 ELSE (p.basis * Closing(p, n)) \div Held(p)

LEMMA ReleasedBounds ==
    ASSUME NEW p \in Positions, p.qty # 0, NEW n \in Nat \ {0}
    PROVE  /\ Held(p) \in Nat \ {0}
           /\ Closing(p, n) \in Nat /\ Closing(p, n) <= Held(p)
           /\ Released(p, n) \in 0..p.basis
           /\ n >= Held(p) => Released(p, n) = p.basis
<1>1. p.basis \in Nat /\ p.qty \in Int
  BY DEF Positions
<1>2. Held(p) \in Nat \ {0}
  BY <1>1 DEF Held, Abs
<1>3. Closing(p, n) \in Nat /\ Closing(p, n) <= Held(p)
  BY <1>2 DEF Closing, Lesser
<1>4. Released(p, n) = (p.basis * Closing(p, n)) \div Held(p)
  BY <1>2 DEF Released
<1>5. Released(p, n) \in 0..p.basis
  BY <1>1, <1>2, <1>3, <1>4, PartOfTotal
<1>6. ASSUME n >= Held(p) PROVE Released(p, n) = p.basis
  <2>1. Closing(p, n) = Held(p)
    BY <1>6, <1>2 DEF Closing, Lesser
  <2> QED
    BY <2>1, <1>1, <1>2, <1>4, DivOfProduct
<1> QED
  BY <1>2, <1>3, <1>5, <1>6

(* A fill opens a position or adds to it.                                  *)
Adds(p, side) == p.qty = 0 \/ (IF side = "buy" THEN p.qty > 0 ELSE p.qty < 0)

LEMMA AddsOnItsSide ==
    ASSUME NEW p \in Positions, NEW side \in Sides, NEW n \in Nat \ {0}
    PROVE  (p.qty = 0 \/ (p.qty > 0) = (Sign(side) * n > 0)) <=> Adds(p, side)
<1>1. p.qty \in Int
  BY DEF Positions
<1>2. CASE side = "buy"
  <2>1. (Sign(side) * n > 0) = TRUE
    BY <1>2 DEF Sign
  <2> QED
    BY <2>1, <1>1, <1>2 DEF Adds
<1>3. CASE side = "sell"
  <2>1. (Sign(side) * n > 0) = FALSE
    BY <1>3 DEF Sign
  <2> QED
    BY <2>1, <1>1, <1>3 DEF Adds
<1> QED
  BY <1>2, <1>3 DEF Sides

(* What a fill makes of a position on the other side.                      *)
LEMMA Reduced ==
    ASSUME NEW p \in Positions, NEW i \in Instruments, NEW side \in Sides,
           NEW n \in Nat \ {0}, NEW price \in Nat, day \in 0..LastDay,
           ~Adds(p, side)
    PROVE  Applied(p, i, side, n, price) =
               [qty |-> p.qty + Sign(side) * n,
                basis |-> IF n > Held(p) THEN (n - Held(p)) * price
                                         ELSE p.basis - Released(p, n),
                realized |-> p.realized
                    + (price * Closing(p, n) - Released(p, n))
                          * (IF p.qty > 0 THEN 1 ELSE -1) * Mult(i),
                mark |-> price, markDay |-> day]
<1> HIDE DEF Held, Closing, Released
<1>1. Applied(p, i, side, n, price) =
        [[p EXCEPT !.qty = @ + Sign(side) * n, !.mark = price, !.markDay = day]
            EXCEPT
            !.realized = @ + (price * Closing(p, n) - Released(p, n))
                                 * (IF p.qty > 0 THEN 1 ELSE -1) * Mult(i),
            !.basis = IF n > Held(p) THEN (n - Held(p)) * price
                                     ELSE @ - Released(p, n)]
  BY AddsOnItsSide DEF Applied, Held, Closing, Released
<1> QED
  BY <1>1 DEF Positions

(* A position after a fill: a position of the new size, without cost when  *)
(* it is flat, whose realised gain and cost have changed by what was paid. *)
LEMMA AppliedBooks ==
    ASSUME NEW p \in Positions, p.qty = 0 => p.basis = 0,
           NEW i \in Instruments, NEW side \in Sides, NEW n \in Nat \ {0},
           NEW price \in Nat, day \in 0..LastDay,
           NEW new, new = Applied(p, i, side, n, price)
    PROVE  /\ new \in Positions
           /\ new.qty = p.qty + Sign(side) * n
           /\ new.mark = price /\ new.markDay = day
           /\ new.qty = 0 => new.basis = 0
           /\ new.realized - CostOf(new, i)
                = p.realized - CostOf(p, i) - Sign(side) * price * n * Mult(i)
<1> DEFINE m == Mult(i)
<1>1. m \in Nat \ {0}
  BY MultTyped
<1> HIDE DEF m
<1>2. /\ p.qty \in Int /\ p.basis \in Nat /\ p.realized \in Int
      /\ Sign(side) \in {1, -1} /\ day \in -1..LastDay
  BY DEF Positions, Sign, Sides
<1>3. CASE Adds(p, side)
  <2>1. new = [qty |-> p.qty + Sign(side) * n, basis |-> p.basis + n * price,
               realized |-> p.realized, mark |-> price, markDay |-> day]
    BY <1>3, AddsOnItsSide DEF Applied, Positions
  <2>a. p.qty = 0 \/ (IF Sign(side) = 1 THEN p.qty > 0 ELSE p.qty < 0)
    BY <1>3 DEF Adds, Sign, Sides
  <2>2. n * price \in Nat
    OBVIOUS
  <2>3. new \in Positions
    BY <2>1, <2>2, <1>2 DEF Positions
  <2>4. new.qty # 0 /\ (new.qty > 0) = (Sign(side) = 1)
    BY <2>1, <2>a, <1>2
  <2>5. p.qty # 0 => (p.qty > 0) = (Sign(side) = 1)
    BY <2>a, <1>2
  <2>6. CostOf(p, i) = Sign(side) * p.basis * m
    BY <2>5, <1>1, <1>2 DEF CostOf, m
  <2>7. CostOf(new, i) = Sign(side) * (p.basis + n * price) * m
    BY <2>4, <2>1, <1>1, <1>2 DEF CostOf, m
  <2>8. CostOf(new, i) - CostOf(p, i) = Sign(side) * price * n * m
    BY <2>6, <2>7, <1>1, <1>2
  <2>9. CostOf(new, i) \in Int /\ CostOf(p, i) \in Int
    BY <2>6, <2>7, <1>1, <1>2
  <2> QED
    BY <2>1, <2>3, <2>4, <2>8, <2>9, <1>1, <1>2 DEF m
<1>4. CASE ~Adds(p, side)
  <2> DEFINE s == IF p.qty > 0 THEN 1 ELSE -1
             h == Held(p)
             c == Closing(p, n)
             r == Released(p, n)
  <2>a. p.qty # 0 /\ (IF Sign(side) = 1 THEN p.qty < 0 ELSE p.qty > 0)
    BY <1>2, <1>4 DEF Adds, Sign, Sides
  <2>1. new = [qty |-> p.qty + Sign(side) * n,
               basis |-> IF n > h THEN (n - h) * price ELSE p.basis - r,
               realized |-> p.realized + (price * c - r) * s * m,
               mark |-> price, markDay |-> day]
    BY <1>4, Reduced DEF m
  <2>2. /\ h \in Nat \ {0} /\ c \in Nat /\ r \in Nat /\ r <= p.basis
        /\ n >= h => r = p.basis
    BY <1>2, <2>a, ReleasedBounds
  <2>3. c = (IF n > h THEN h ELSE n) /\ p.qty = s * h
    BY <2>2, <1>2 DEF Closing, Lesser, Held, Abs
  <2>4. s \in {1, -1} /\ s = -Sign(side)
    BY <1>2, <2>a
  <2> HIDE DEF s, h, c, r
  <2>5. new.qty = s * (h - n)
    BY <2>1, <2>2, <2>3, <2>4, <1>2
  <2>6. CostOf(p, i) = s * p.basis * m
    BY <1>4 DEF CostOf, m, s
  <2>7. CASE n > h
    <3>1. (n - h) * price \in Nat
      BY <2>7, <2>2
    <3>2. new.basis = (n - h) * price /\ new.realized = p.realized + (price * h - p.basis) * s * m
      BY <2>1, <2>2, <2>3, <2>7
    <3>3. (price * h - p.basis) * s * m \in Int
      BY <1>1, <1>2, <2>2, <2>4
    <3>4. new \in Positions
      BY <2>1, <3>1, <3>2, <3>3, <1>2 DEF Positions
    <3>5. CostOf(new, i) = -s * ((n - h) * price) * m
      <4>1. (new.qty > 0) = (s = -1)
        BY <2>5, <2>7, <2>2, <2>4
      <4> QED
        BY <4>1, <1>1, <2>2, <2>4, <3>1, <3>2 DEF CostOf, m
    <3>6. new.qty # 0
      BY <2>5, <2>7, <2>2, <2>4
    <3>7. (price * h - p.basis) * s * m + s * ((n - h) * price) * m + s * p.basis * m
            = s * price * n * m
      BY <1>1, <1>2, <2>2, <2>4
    <3> QED
      BY <2>1, <2>4, <2>6, <3>2, <3>4, <3>5, <3>6, <3>7, <1>1, <1>2, <2>2 DEF m
  <2>8. CASE n <= h
    <3>1. new.basis = p.basis - r /\ new.realized = p.realized + (price * n - r) * s * m
      BY <2>1, <2>2, <2>3, <2>8
    <3>2. (price * n - r) * s * m \in Int /\ p.basis - r \in Nat
      BY <1>1, <1>2, <2>2, <2>4
    <3>3. new \in Positions
      BY <2>1, <3>1, <3>2, <1>2 DEF Positions
    <3>4. new.qty = 0 => new.basis = 0
      BY <2>2, <2>4, <2>5, <3>1, <1>2
    <3>5. CostOf(new, i) = s * (p.basis - r) * m
      <4>1. CASE n = h
        BY <4>1, <2>2, <2>4, <3>1, <1>1, <1>2 DEF CostOf, m
      <4>2. CASE n < h
        <5>1. (new.qty > 0) = (s = 1)
          BY <4>2, <2>2, <2>4, <2>5
        <5> QED
          BY <5>1, <2>4, <3>1 DEF CostOf, m
      <4> QED
        BY <4>1, <4>2, <2>2, <2>8
    <3>6. (price * n - r) * s * m - s * (p.basis - r) * m + s * p.basis * m
            = s * price * n * m
      BY <1>1, <1>2, <2>2, <2>4
    <3> QED
      BY <2>1, <2>4, <2>6, <3>1, <3>3, <3>4, <3>5, <3>6, <1>1, <1>2, <2>2 DEF m
  <2> QED
    BY <2>7, <2>8, <2>2
<1> QED
  BY <1>3, <1>4

(* A fill leaves the sleeve well typed.                                    *)
LEMMA FillTyped ==
    ASSUME SleeveOK, MarketOK, NEW i \in Instruments, NEW side \in Sides,
           NEW n \in Nat \ {0}, NEW price \in Nat, NEW fees \in Nat,
           NEW slippage \in Nat, ApplyFill(i, side, n, price, fees, slippage),
           capital' = capital
    PROVE  SleeveOK'
<1> DEFINE new == Applied(pos[i], i, side, n, price)
<1>1. pos[i] \in Positions /\ (pos[i].qty = 0 => pos[i].basis = 0)
  BY DEF SleeveOK
<1>2. new \in Positions /\ (new.qty = 0 => new.basis = 0)
  BY <1>1, AppliedBooks DEF MarketOK
<1>3. pos' = [pos EXCEPT ![i] = new]
  BY DEF ApplyFill
<1> HIDE DEF new
<1>4. /\ pos' \in [Instruments -> Positions]
      /\ \A j \in Instruments : pos'[j].qty = 0 => pos'[j].basis = 0
  BY <1>2, <1>3 DEF SleeveOK
<1>5. Sign(side) * price * n * Mult(i) \in Int
  BY MultTyped DEF Sign
<1>6. cash' \in Int /\ feesPaid' \in Nat /\ totalCosts' \in Nat
  BY <1>5 DEF ApplyFill, SleeveOK
<1> QED
  BY <1>4, <1>6 DEF SleeveOK

(* It changes one position, by its size and to its price.                  *)
LEMMA FillSizes ==
    ASSUME SleeveOK, MarketOK, NEW i \in Instruments, NEW side \in Sides,
           NEW n \in Nat \ {0}, NEW price \in Nat, NEW fees, NEW slippage,
           ApplyFill(i, side, n, price, fees, slippage)
    PROVE  /\ pos'[i].qty = pos[i].qty + Sign(side) * n
           /\ pos'[i].mark = price /\ pos'[i].markDay = day
           /\ \A j \in Instruments \ {i} : pos'[j] = pos[j]
<1> DEFINE new == Applied(pos[i], i, side, n, price)
<1>1. pos[i] \in Positions /\ (pos[i].qty = 0 => pos[i].basis = 0)
  BY DEF SleeveOK
<1>2. /\ new.qty = pos[i].qty + Sign(side) * n
      /\ new.mark = price /\ new.markDay = day
  BY <1>1, AppliedBooks DEF MarketOK
<1>3. pos' = [pos EXCEPT ![i] = new]
  BY DEF ApplyFill
<1> HIDE DEF new
<1> QED
  BY <1>2, <1>3 DEF SleeveOK

-----------------------------------------------------------------------------
(* Orders *)

OrderType == [inst: Instruments, side: Sides, qty: Nat \ {0}, day: 0..LastDay,
              nr: Nat \ {0}]

(* What a sleeve is sized at is a price.                                   *)
LEMMA SizingTyped ==
    ASSUME MarketOK, NEW i \in Instruments
    PROVE  SizingPrice(i) \in Nat
<1>1. last \in Nat /\ ChainQuote.bid \in Nat /\ ChainQuote.ask \in Nat
  BY MarketTyped
<1> QED
  BY <1>1, MidTyped DEF SizingPrice

(* The order for a weight, where there is one.                             *)
LEMMA WeightOrderTyped ==
    ASSUME MarketOK, SleeveOK, NEW i \in Instruments, NEW w \in Int,
           NEW o \in WeightOrders(i, w)
    PROVE  /\ o \in OrderType /\ o.inst = i /\ o.day = day
           /\ w * capital >= 0 /\ o.side = "sell" /\ pos[i].qty >= 0
                  => o.qty <= pos[i].qty
<1> DEFINE lot   == 100 * SizingPrice(i) * Mult(i)
           held  == pos[i].qty
           delta == w * capital - held * lot
           qty   == Abs(delta) \div lot
<1>1. lot \in Nat
  BY SizingTyped, MultTyped
<1>2. held \in Int /\ w * capital \in Int
  BY DEF SleeveOK, Positions
<1>3. /\ lot # 0 /\ Abs(delta) >= lot
      /\ o = [inst |-> i, side |-> IF delta > 0 THEN "buy" ELSE "sell",
              qty |-> qty, day |-> day, nr |-> 1]
  <2>1. WeightOrders(i, w) =
          IF lot = 0 \/ Abs(delta) < lot THEN {}
          ELSE {[inst |-> i, side |-> IF delta > 0 THEN "buy" ELSE "sell",
                 qty |-> qty, day |-> day, nr |-> 1]}
    BY DEF WeightOrders, Order
  <2>2. Abs(delta) \in Nat
    <3>1. delta \in Int
      BY <1>1, <1>2
    <3> QED
      BY <3>1 DEF Abs
  <2> HIDE DEF lot, delta, qty
  <2> QED
    BY <1>1, <2>1, <2>2
<1>4. delta \in Int /\ Abs(delta) \in Nat
  BY <1>1, <1>2 DEF Abs
<1> HIDE DEF lot, held, delta
<1>5. qty \in Nat \ {0}
  BY <1>1, <1>3, <1>4, DivPositive
<1>6. ASSUME w * capital >= 0, o.side = "sell", held >= 0
      PROVE  qty <= held
  <2>1. delta <= 0
    BY <1>3, <1>6, <1>4
  <2>2. Abs(delta) <= held * lot
    <3>1. held * lot \in Int /\ Abs(delta) = held * lot - w * capital
      BY <2>1, <1>1, <1>2, <1>4 DEF Abs, delta
    <3> QED
      BY <3>1, <1>6, <1>2
  <2> QED
    BY <2>2, <1>1, <1>2, <1>3, <1>4, <1>6, DivAtMost
<1> HIDE DEF qty
<1>7. o \in OrderType /\ o.inst = i /\ o.day = day
  BY <1>3, <1>5 DEF OrderType, Sides, MarketOK
<1> QED
  BY <1>3, <1>6, <1>7 DEF held

(* The order that closes a position.                                       *)
LEMMA CloseOrderTyped ==
    ASSUME MarketOK, SleeveOK, NEW i \in Instruments, NEW o \in CloseOrders(i)
    PROVE  /\ o \in OrderType /\ o.inst = i /\ o.day = day
           /\ o.side = "sell" => o.qty <= pos[i].qty
<1>1. pos[i].qty \in Int /\ day \in 0..LastDay
  BY DEF SleeveOK, Positions, MarketOK
<1>2. /\ pos[i].qty # 0
      /\ o = [inst |-> i, side |-> IF pos[i].qty > 0 THEN "sell" ELSE "buy",
              qty |-> Abs(pos[i].qty), day |-> day, nr |-> 1]
  BY DEF CloseOrders, Order
<1>3. Abs(pos[i].qty) \in Nat \ {0}
  BY <1>1, <1>2 DEF Abs
<1> QED
  BY <1>1, <1>2, <1>3 DEF OrderType, Sides, Abs

(* Whatever is asked for, and what a gate leaves of it.                    *)
LEMMA AskedTyped ==
    ASSUME MarketOK, SleeveOK, setup \in Setups, NEW i \in Instruments,
           NEW o \in AskedFor(i)
    PROVE  /\ o \in OrderType /\ o.inst = i /\ o.day = day
           /\ /\ setup.weights \subseteq Nat /\ capital \in Nat
              /\ pos[i].qty >= 0 /\ o.side = "sell"
              => o.qty <= pos[i].qty
<1> DEFINE asked == CloseOrders(i)
                        \cup UNION {WeightOrders(i, w) : w \in setup.weights}
           Good(x) == /\ x \in OrderType /\ x.inst = i /\ x.day = day
                      /\ /\ setup.weights \subseteq Nat /\ capital \in Nat
                         /\ pos[i].qty >= 0 /\ x.side = "sell"
                         => x.qty <= pos[i].qty
<1>1. ASSUME NEW x \in asked PROVE Good(x)
  <2>1. CASE x \in CloseOrders(i)
    BY <2>1, CloseOrderTyped
  <2>2. ASSUME NEW w \in setup.weights, x \in WeightOrders(i, w)
        PROVE  Good(x)
    <3>1. w \in Int
      BY DEF SleeveOK
    <3>2. x \in OrderType /\ x.inst = i /\ x.day = day
      BY <2>2, <3>1, WeightOrderTyped
    <3>3. ASSUME setup.weights \subseteq Nat, capital \in Nat,
                 pos[i].qty >= 0, x.side = "sell"
          PROVE  x.qty <= pos[i].qty
      <4>1. w \in Nat /\ w * capital >= 0
        BY <3>3
      <4> QED
        BY <2>2, <3>1, <3>3, <4>1, WeightOrderTyped
    <3> QED
      BY <3>2, <3>3
  <2> QED
    BY <2>1, <2>2
<1>2. CASE ~setup.gate
  BY <1>1, <1>2 DEF AskedFor
<1>3. CASE setup.gate
  <2>1. PICK x \in asked : o \in CutDown(x)
    BY <1>3 DEF AskedFor
  <2>2. Good(x)
    BY <1>1
  <2>3. PICK q \in 1..x.qty : o = [x EXCEPT !.qty = q]
    BY <2>1 DEF CutDown
  <2> HIDE DEF asked
  <2>4. /\ x.qty \in Nat \ {0} /\ q \in Nat \ {0} /\ q <= x.qty
        /\ o \in OrderType /\ o.inst = i /\ o.day = day
        /\ o.side = x.side /\ o.qty = q
    BY <2>2, <2>3 DEF OrderType
  <2>5. pos[i].qty \in Int
    BY DEF SleeveOK, Positions
  <2> QED
    BY <2>2, <2>4, <2>5
<1> QED
  BY <1>2, <1>3

(* What a day's signals leave in line: each order as it was asked for, at  *)
(* its place.                                                              *)
InLine(asked) == {[asked[k] EXCEPT !.nr = k] : k \in DOMAIN asked}

LEMMA InLineTyped ==
    ASSUME MarketOK, SleeveOK, setup \in Setups, NEW n \in 0..MaxSignals,
           NEW asked \in [1..n -> UNION {AskedFor(i) : i \in setup.trades}],
           NEW o \in InLine(asked)
    PROVE  /\ o \in OrderType /\ o.day = day
           /\ /\ setup.weights \subseteq Nat /\ capital \in Nat
              /\ \A i \in Instruments : pos[i].qty >= 0
              /\ o.side = "sell"
              => o.qty <= pos[o.inst].qty
<1>1. PICK k \in 1..n : o = [asked[k] EXCEPT !.nr = k]
  BY DEF InLine
<1>2. PICK i \in setup.trades : asked[k] \in AskedFor(i)
  BY <1>1
<1>3. i \in Instruments
  OBVIOUS
<1> DEFINE x == asked[k]
<1>4. /\ x \in OrderType /\ x.inst = i /\ x.day = day
      /\ /\ setup.weights \subseteq Nat /\ capital \in Nat
         /\ pos[i].qty >= 0 /\ x.side = "sell"
         => x.qty <= pos[i].qty
  BY <1>2, <1>3, AskedTyped
<1>5. k \in Nat \ {0}
  OBVIOUS
<1> HIDE DEF x
<1>6. o \in OrderType /\ o.inst = i /\ o.day = day /\ o.side = x.side
      /\ o.qty = x.qty
  <2>1. o = [x EXCEPT !.nr = k]
    BY <1>1 DEF x
  <2> QED
    BY <1>4, <1>5, <2>1 DEF OrderType
<1> QED
  BY <1>3, <1>4, <1>6

-----------------------------------------------------------------------------
(* Type correctness *)

(* A fill of an order is one of the fills FillTyped speaks of.             *)
LEMMA FillOrderTyped ==
    ASSUME TypeOK, NEW o \in pending, FillOrder(o)
    PROVE  /\ o \in OrderType
           /\ ExecutionPrice(o.inst, o.side) \in Nat
           /\ Fees(o.inst, o.side, o.qty) \in Nat
           /\ Abs(ExecutionPrice(o.inst, o.side) - Mid(ExecQuote(o.inst)))
                   * o.qty * Mult(o.inst) \in Nat
<1>1. /\ o \in OrderType /\ o.inst \in Instruments /\ o.side \in Sides
      /\ o.qty \in Nat \ {0} /\ MarketOK
  BY DEF TypeOK, PendingOK, OrderType, Sides
<1>2. /\ ExecutionPrice(o.inst, o.side) \in Nat
      /\ Fees(o.inst, o.side, o.qty) \in Nat
  BY <1>1, ExecutionTyped
<1>3. Mid(ExecQuote(o.inst)) \in Nat
  BY <1>1, MarketTyped, MidTyped
<1>4. Abs(ExecutionPrice(o.inst, o.side) - Mid(ExecQuote(o.inst))) \in Nat
  BY <1>2, <1>3 DEF Abs
<1>5. Mult(o.inst) \in Nat
  BY <1>1, MultTyped
<1> QED
  BY <1>1, <1>2, <1>4, <1>5

(* So is a settlement.                                                     *)
LEMMA SettleTyped ==
    ASSUME TypeOK, Settles
    PROVE  /\ "C" \in Instruments
           /\ (IF pos["C"].qty > 0 THEN "sell" ELSE "buy") \in Sides
           /\ pos["C"].qty \in Int
           /\ Abs(pos["C"].qty) \in Nat \ {0}
           /\ Intrinsic(last) \in Nat
<1>1. "C" \in Instruments
  BY DEF Instruments
<1>2. pos["C"].qty \in Int /\ pos["C"].qty # 0
  BY <1>1 DEF TypeOK, SleeveOK, Positions, Settles
<1>3. last \in Nat
  BY <1>1, MarketTyped DEF TypeOK
<1> QED
  BY <1>1, <1>2, <1>3, TheoTyped DEF Sides, Abs

(* Marking changes a position's mark, to a price, and nothing else.        *)
LEMMA MarkedTyped ==
    ASSUME TypeOK, NEW i \in Instruments
    PROVE  /\ Marked(i) \in Positions
           /\ Marked(i).qty = pos[i].qty
           /\ Marked(i).basis = pos[i].basis
           /\ Marked(i).realized = pos[i].realized
<1>1. pos[i] \in Positions /\ day \in -1..LastDay
  BY DEF TypeOK, SleeveOK, MarketOK
<1>2. last \in Nat /\ Mid(ChainQuote) \in Nat /\ Theo(last) \in Nat
  BY MarketTyped, MidTyped, TheoTyped DEF TypeOK
<1>3. \/ Marked(i) = pos[i]
      \/ \E price \in Nat :
             Marked(i) = [pos[i] EXCEPT !.mark = price, !.markDay = day]
  BY <1>2 DEF Marked
<1> QED
  BY <1>1, <1>3 DEF Positions

(* What a sleeve is worth is a whole number of ticks.                      *)
LEMMA EquityTyped ==
    ASSUME SleeveOK
    PROVE  Equity \in Int
<1>1. \A i \in Instruments : MarketValue(i) \in Int
  BY MultTyped DEF SleeveOK, Positions, MarketValue
<1>2. MarketValue("S") \in Int /\ MarketValue("C") \in Int
  BY <1>1 DEF Instruments
<1>3. cash \in Int
  BY DEF SleeveOK
<1> QED
  BY <1>2, <1>3 DEF Equity

LEMMA InitTyped == Init => TypeOK
<1> SUFFICES ASSUME Init PROVE TypeOK
  OBVIOUS
<1>1. Flat \in Positions /\ Flat.qty = 0 /\ Flat.basis = 0
  BY DEF Flat, Positions
<1>2. SleeveOK
  BY <1>1 DEF Init, SleeveOK
<1>3. MarketOK
  <2>1. day \in 0..LastDay /\ {open, last} \subseteq Prices \cup {0}
    BY DEF Init
  <2>2. {quoted, offChain} \subseteq BOOLEAN
    BY Zenon DEF Init
  <2> QED
    BY <2>1, <2>2, Zenon DEF MarketOK
<1>4. PendingOK
  BY DEF Init, PendingOK
<1> QED
  BY <1>2, <1>3, <1>4 DEF Init, TypeOK

LEMMA NextTyped == TypeOK /\ [Next]_vars => TypeOK'
<1> SUFFICES ASSUME TypeOK, [Next]_vars PROVE TypeOK'
  OBVIOUS
<1>1. ASSUME NEW o \in Prices \cup {0}, NEW c \in Prices, NEW inChain \in BOOLEAN,
             Today(o, c, inChain)
      PROVE  TypeOK'
  <2>1. SleeveOK'
    BY <1>1 DEF TypeOK, SleeveOK, Today, sleeveVars
  <2>2. MarketOK'
    BY <1>1 DEF TypeOK, MarketOK, Today
  <2>3. PendingOK'
    BY <1>1 DEF TypeOK, PendingOK, Today
  <2> QED
    BY <1>1, <2>1, <2>2, <2>3 DEF TypeOK, Today
<1>2. ASSUME NEW o \in pending, FillOrder(o)
      PROVE  TypeOK'
  <2>1. o.inst \in Instruments /\ o.side \in Sides /\ o.qty \in Nat \ {0}
    BY <1>2, FillOrderTyped DEF OrderType
  <2>2. SleeveOK'
    BY <1>2, <2>1, FillOrderTyped, FillTyped DEF TypeOK, FillOrder
  <2>3. MarketOK'
    BY <1>2 DEF TypeOK, MarketOK, FillOrder, marketVars
  <2>4. PendingOK'
    BY <1>2 DEF TypeOK, PendingOK, FillOrder
  <2> QED
    BY <1>2, <2>2, <2>3, <2>4 DEF TypeOK, FillOrder
<1>3. ASSUME NEW o \in pending, DropOrder(o)
      PROVE  TypeOK'
  <2>1. SleeveOK' /\ MarketOK'
    BY <1>3 DEF TypeOK, SleeveOK, MarketOK, DropOrder, sleeveVars, marketVars
  <2>2. PendingOK'
    BY <1>3 DEF TypeOK, PendingOK, DropOrder
  <2> QED
    BY <1>3, <2>1, <2>2 DEF TypeOK, DropOrder
<1>4. CASE Executed
  <2>1. SleeveOK' /\ MarketOK' /\ PendingOK'
    BY <1>4 DEF TypeOK, SleeveOK, MarketOK, PendingOK, Executed, sleeveVars,
                marketVars
  <2> QED
    BY <1>4, <2>1 DEF TypeOK, Executed
<1>5. CASE Settle
  <2>1. SleeveOK'
    <3>1. CASE Settles
      BY <1>5, <3>1, SettleTyped, FillTyped DEF TypeOK, Settle
    <3>2. CASE ~Settles
      BY <1>5, <3>2 DEF TypeOK, SleeveOK, Settle, sleeveVars
    <3> QED
      BY <3>1, <3>2
  <2>2. MarketOK' /\ PendingOK'
    BY <1>5 DEF TypeOK, MarketOK, PendingOK, Settle, marketVars
  <2> QED
    BY <1>5, <2>1, <2>2 DEF TypeOK, Settle
<1>6. CASE Mark
  <2>1. SleeveOK'
    BY <1>6, MarkedTyped DEF TypeOK, SleeveOK, Mark
  <2>2. MarketOK' /\ PendingOK'
    BY <1>6 DEF TypeOK, MarketOK, PendingOK, Mark, marketVars
  <2> QED
    BY <1>6, <2>1, <2>2 DEF TypeOK, Mark
<1>7. CASE Allocate
  <2>1. capital' \in Int
    <3>1. Equity \in Int /\ capital \in Int
      BY EquityTyped DEF TypeOK, SleeveOK
    <3>2. capital' = capital \/ capital' \in Capitals \/ capital' = Equity
      BY <1>7 DEF Allocate, Rebalance
    <3>3. Capitals \subseteq Int
      OBVIOUS
    <3> QED
      BY <3>1, <3>2, <3>3, Zenon
  <2>2. SleeveOK' /\ MarketOK' /\ PendingOK'
    BY <1>7, <2>1 DEF TypeOK, SleeveOK, MarketOK, PendingOK, Allocate, sleeveVars,
                      marketVars
  <2> QED
    BY <1>7, <2>2 DEF TypeOK, Allocate
<1>8. ASSUME NEW n \in 0..MaxSignals,
             NEW asked \in [1..n -> UNION {AskedFor(i) : i \in setup.trades}],
             Signals(asked)
      PROVE  TypeOK'
  <2>1. InLine(asked) \subseteq OrderType
    BY InLineTyped DEF TypeOK
  <2>2. PendingOK'
    BY <1>8, <2>1 DEF TypeOK, PendingOK, Signals, InLine, OrderType, Sides
  <2>3. SleeveOK'
    BY <1>8 DEF TypeOK, SleeveOK, Signals, sleeveVars
  <2>4. MarketOK'
    BY <1>8 DEF TypeOK, MarketOK, Signals, marketVars
  <2> QED
    BY <1>8, <2>2, <2>3, <2>4 DEF TypeOK, Signals
<1>9. CASE UNCHANGED vars
  BY <1>9 DEF TypeOK, SleeveOK, MarketOK, PendingOK, vars, sleeveVars, marketVars
<1> QED
  BY <1>1, <1>2, <1>3, <1>4, <1>5, <1>6, <1>7, <1>8, <1>9 DEF Next

(* Every variable keeps its type, a flat position has no cost left in it,  *)
(* no order outlives the executions of a day.                              *)
THEOREM Typed == Spec => []TypeOK
  BY InitTyped, NextTyped, PTL DEF Spec

-----------------------------------------------------------------------------
(* The books *)

(* What the marks do not change: the cash and the fees paid, against what  *)
(* the positions have realised and cost.                                   *)
Booked(i) == pos[i].realized - CostOf(pos[i], i)
Balanced  == cash + feesPaid - StartingCash = Booked("S") + Booked("C")

LEMMA BookedTyped ==
    ASSUME SleeveOK, NEW i \in Instruments
    PROVE  Booked(i) \in Int /\ CostOf(pos[i], i) \in Int
<1>1. pos[i] \in Positions /\ Mult(i) \in Nat
  BY MultTyped DEF SleeveOK
<1>2. (IF pos[i].qty > 0 THEN 1 ELSE -1) \in Int
  OBVIOUS
<1>3. CostOf(pos[i], i) \in Int
  BY <1>1, <1>2 DEF CostOf, Positions
<1> QED
  BY <1>1, <1>3 DEF Booked, Positions

(* Marks apart, the books balance exactly when net liquidation does.       *)
LEMMA BalancedIsNet == SleeveOK => (Balanced <=> NetLiquidation)
<1> SUFFICES ASSUME SleeveOK PROVE Balanced <=> NetLiquidation
  OBVIOUS
<1>1. \A i \in Instruments :
          /\ MarketValue(i) \in Int /\ CostOf(pos[i], i) \in Int
          /\ pos[i].realized \in Int
  BY MultTyped, BookedTyped DEF SleeveOK, Positions, MarketValue
<1>2. /\ MarketValue("S") \in Int /\ MarketValue("C") \in Int
      /\ CostOf(pos["S"], "S") \in Int /\ CostOf(pos["C"], "C") \in Int
      /\ pos["S"].realized \in Int /\ pos["C"].realized \in Int
  BY <1>1 DEF Instruments
<1>3. cash \in Int /\ feesPaid \in Int /\ StartingCash \in Int
  BY DEF SleeveOK
<1> QED
  BY <1>2, <1>3 DEF Balanced, Booked, NetLiquidation, Equity, Realized, UnrealizedOf

(* A fill books on its instrument what it takes from the cash.             *)
LEMMA FillBalances ==
    ASSUME SleeveOK, MarketOK, Balanced, NEW i \in Instruments,
           NEW side \in Sides, NEW n \in Nat \ {0}, NEW price \in Nat,
           NEW fees \in Nat, NEW slippage \in Nat,
           ApplyFill(i, side, n, price, fees, slippage), SleeveOK'
    PROVE  Balanced'
<1> DEFINE new  == Applied(pos[i], i, side, n, price)
           paid == Sign(side) * price * n * Mult(i)
<1>1. pos[i] \in Positions /\ (pos[i].qty = 0 => pos[i].basis = 0)
  BY DEF SleeveOK
<1>2. new.realized - CostOf(new, i) = Booked(i) - paid
  <2>1. day \in 0..LastDay
    BY DEF MarketOK
  <2>2. new.realized - CostOf(new, i)
          = pos[i].realized - CostOf(pos[i], i) - Sign(side) * price * n * Mult(i)
    BY <1>1, <2>1, AppliedBooks, SMTT(30)
  <2> QED
    BY <2>2 DEF Booked
<1>3. pos' = [pos EXCEPT ![i] = new]
  BY DEF ApplyFill
<1>4. cash' = cash - paid - fees /\ feesPaid' = feesPaid + fees
  BY DEF ApplyFill
<1>5. paid \in Int
  BY MultTyped DEF Sign
<1> HIDE DEF new, paid
<1>6. pos'[i] = new /\ \A j \in Instruments \ {i} : pos'[j] = pos[j]
  BY <1>3 DEF SleeveOK
<1>7. Booked(i)' = Booked(i) - paid
  BY <1>2, <1>6 DEF Booked, CostOf
<1>8. \A j \in Instruments \ {i} : Booked(j)' = Booked(j)
  BY <1>6 DEF Booked, CostOf
<1>9. Booked("S")' + Booked("C")' = Booked("S") + Booked("C") - paid
  <2>1. Booked("S") \in Int /\ Booked("C") \in Int
    BY BookedTyped DEF Instruments
  <2> QED
    BY <1>5, <1>7, <1>8, <2>1 DEF Instruments
<1>10. /\ cash \in Int /\ feesPaid \in Int /\ StartingCash \in Int
       /\ Booked("S") \in Int /\ Booked("C") \in Int
  BY BookedTyped DEF Instruments, SleeveOK
<1> QED
  BY <1>4, <1>5, <1>9, <1>10 DEF Balanced

(* Every step keeps the balance; without a fill it is not touched.         *)
LEMMA StepBalances == TypeOK /\ TypeOK' /\ Balanced /\ [Next]_vars => Balanced'
<1> SUFFICES ASSUME TypeOK, TypeOK', Balanced, [Next]_vars PROVE Balanced'
  OBVIOUS
<1>1. ASSUME UNCHANGED sleeveVars PROVE Balanced'
  BY <1>1 DEF Balanced, Booked, CostOf, sleeveVars
<1>2. ASSUME NEW o \in pending, FillOrder(o) PROVE Balanced'
  <2>1. o.inst \in Instruments /\ o.side \in Sides /\ o.qty \in Nat \ {0}
    BY <1>2, FillOrderTyped DEF OrderType
  <2> QED
    BY <1>2, <2>1, FillOrderTyped, FillBalances DEF TypeOK, FillOrder
<1>3. CASE Settle
  <2>1. CASE Settles
    BY <1>3, <2>1, SettleTyped, FillBalances DEF TypeOK, Settle
  <2>2. CASE ~Settles
    BY <1>1, <1>3, <2>2 DEF Settle
  <2> QED
    BY <2>1, <2>2
<1>4. CASE Mark
  <2>1. \A i \in Instruments : Booked(i)' = Booked(i)
    BY <1>4, MarkedTyped DEF Mark, Booked, CostOf
  <2>2. Booked("S")' = Booked("S") /\ Booked("C")' = Booked("C")
    BY <2>1 DEF Instruments
  <2> QED
    BY <1>4, <2>2 DEF Balanced, Mark
<1> QED
  BY <1>1, <1>2, <1>3, <1>4
     DEF Next, Today, DropOrder, Executed, Allocate, Signals, vars, sleeveVars

(* What the sleeve is worth above its starting cash is what its positions  *)
(* have realised and stand at, less the fees paid (portfolio.py 9-12).     *)
THEOREM BooksBalance == Spec => []NetLiquidation
<1>1. Init => Balanced
  BY DEF Init, Balanced, Booked, CostOf, Flat, Instruments, Mult
<1>2. TypeOK /\ Balanced => NetLiquidation
  BY BalancedIsNet DEF TypeOK
<1> QED
  BY <1>1, <1>2, StepBalances, Typed, PTL DEF Spec

-----------------------------------------------------------------------------
(* Orders and the day they execute on *)

(* Orders that wait are of yesterday and, unless the strategy repicks, one *)
(* an instrument; in a sleeve that is only ever long they then sell no     *)
(* more than there is.                                                     *)
LongOnly == setup.weights \subseteq Nat /\ setup.allocator /\ ~setup.repicks

OfYesterday == pc \in {"dawn", "execute"} => \A o \in pending : o.day = day - 1
OnePerInstrument ==
    ~setup.repicks => \A o, p \in pending : o.inst = p.inst => o = p
Covered ==
    LongOnly =>
        /\ capital \in Nat
        /\ \A i \in Instruments : pos[i].qty >= 0
        /\ \A o \in pending : o.side = "sell" => o.qty <= pos[o.inst].qty
OrdersInv == OfYesterday /\ OnePerInstrument /\ Covered

(* A sell that is covered and a buy leave no position short.               *)
LEMMA FillKeepsCover ==
    ASSUME TypeOK, OrdersInv, NEW o \in pending, FillOrder(o)
    PROVE  OnePerInstrument' /\ Covered'
<1>1. /\ o.inst \in Instruments /\ o.side \in Sides /\ o.qty \in Nat \ {0}
      /\ ExecutionPrice(o.inst, o.side) \in Nat
  BY FillOrderTyped DEF OrderType
<1>2. pos[o.inst] \in Positions
  BY <1>1 DEF TypeOK, SleeveOK
<1>5. pending' = pending \ {o} /\ capital' = capital /\ setup' = setup
  BY DEF FillOrder
<1>6. /\ pos'[o.inst].qty = pos[o.inst].qty + Sign(o.side) * o.qty
      /\ \A j \in Instruments \ {o.inst} : pos'[j] = pos[j]
  BY <1>1, FillSizes DEF TypeOK, FillOrder
<1>7. OnePerInstrument'
  BY <1>5 DEF OrdersInv, OnePerInstrument
<1>8. ASSUME LongOnly PROVE pos'[o.inst].qty >= 0
  <2>1. /\ pos[o.inst].qty >= 0 /\ pos[o.inst].qty \in Int
        /\ o.side = "sell" => o.qty <= pos[o.inst].qty
    BY <1>1, <1>2, <1>8 DEF OrdersInv, Covered, Positions
  <2> QED
    BY <1>1, <1>6, <2>1 DEF Sign, Sides
<1>9. ASSUME LongOnly PROVE \A p \in pending' : p \in pending /\ p.inst # o.inst
  BY <1>5, <1>9 DEF OrdersInv, OnePerInstrument, LongOnly
<1>10. \A p \in pending : p.inst \in Instruments
  BY DEF TypeOK, PendingOK
<1>11. ASSUME LongOnly PROVE \A i \in Instruments : pos'[i].qty >= 0
  <2>1. \A i \in Instruments : pos[i].qty >= 0
    BY <1>11 DEF OrdersInv, Covered
  <2> QED
    BY <1>6, <1>8, <1>11, <2>1
<1>12. ASSUME LongOnly
       PROVE  \A p \in pending' : p.side = "sell" => p.qty <= pos'[p.inst].qty
  <2>1. \A p \in pending : p.side = "sell" => p.qty <= pos[p.inst].qty
    BY <1>12 DEF OrdersInv, Covered
  <2> QED
    BY <1>6, <1>9, <1>10, <1>12, <2>1
<1>13. LongOnly' => LongOnly /\ capital' \in Nat
  BY <1>5 DEF LongOnly, OrdersInv, Covered
<1> QED
  BY <1>7, <1>11, <1>12, <1>13 DEF Covered

(* A settlement leaves the call flat.                                      *)
LEMMA SettleFlattens ==
    ASSUME TypeOK, Settle, Settles
    PROVE  /\ pos'["C"].qty = 0
           /\ \A j \in Instruments \ {"C"} : pos'[j] = pos[j]
<1> DEFINE side == IF pos["C"].qty > 0 THEN "sell" ELSE "buy"
<1>1. /\ "C" \in Instruments /\ side \in Sides
      /\ pos["C"].qty \in Int /\ Abs(pos["C"].qty) \in Nat \ {0}
      /\ Intrinsic(last) \in Nat
  BY SettleTyped
<1>2. ApplyFill("C", side, Abs(pos["C"].qty), Intrinsic(last), 0, 0)
  BY DEF Settle
<1>3. /\ pos'["C"].qty = pos["C"].qty + Sign(side) * Abs(pos["C"].qty)
      /\ \A j \in Instruments \ {"C"} : pos'[j] = pos[j]
  BY <1>1, <1>2, FillSizes DEF TypeOK
<1>4. Sign(side) * Abs(pos["C"].qty) = -pos["C"].qty
  BY <1>1 DEF Sign, Abs
<1> HIDE DEF side
<1> QED
  BY <1>1, <1>3, <1>4

(* Every step keeps the orders in their place.                             *)
LEMMA StepKeepsOrders ==
    TypeOK /\ TypeOK' /\ OrdersInv /\ [Next]_vars => OrdersInv'
<1> SUFFICES ASSUME TypeOK, TypeOK', OrdersInv, [Next]_vars PROVE OrdersInv'
  OBVIOUS
<1>1. ASSUME pc' \in {"dawn", "execute"} => pc \in {"dawn", "execute"},
             setup' = setup, day' = day, pending' = pending, capital' = capital,
             \A i \in Instruments : pos'[i].qty >= pos[i].qty
                 \/ (pos'[i].qty = 0 /\ pending = {})
      PROVE  OrdersInv'
  <2>1. OfYesterday' /\ OnePerInstrument'
    BY <1>1 DEF OrdersInv, OfYesterday, OnePerInstrument
  <2>2. \A i \in Instruments : pos[i].qty \in Int /\ pos'[i].qty \in Int
    BY DEF TypeOK, SleeveOK, Positions
  <2>3. \A o \in pending : o.inst \in Instruments /\ o.qty \in Int
    BY DEF TypeOK, PendingOK
  <2>4. ASSUME LongOnly PROVE \A i \in Instruments : pos'[i].qty >= 0
    BY <1>1, <2>2, <2>4 DEF OrdersInv, Covered
  <2>5. ASSUME LongOnly, NEW o \in pending, o.side = "sell"
        PROVE  o.qty <= pos'[o.inst].qty
    <3>1. o.qty <= pos[o.inst].qty /\ pos'[o.inst].qty >= pos[o.inst].qty
      BY <1>1, <2>3, <2>5 DEF OrdersInv, Covered
    <3> QED
      BY <2>2, <2>3, <3>1
  <2>6. LongOnly' => LongOnly /\ capital' \in Nat
    BY <1>1 DEF LongOnly, OrdersInv, Covered
  <2>7. Covered'
    BY <1>1, <2>4, <2>5, <2>6 DEF Covered
  <2> QED
    BY <2>1, <2>7 DEF OrdersInv
<1>2. ASSUME pc' \in {"dawn", "execute"} => pc \in {"dawn", "execute"},
             setup' = setup, day' = day, pending' = pending, capital' = capital,
             pos' = pos
      PROVE  OrdersInv'
  <2>1. \A i \in Instruments : pos[i].qty \in Int
    BY DEF TypeOK, SleeveOK, Positions
  <2>2. \A i \in Instruments : pos'[i].qty >= pos[i].qty
    BY <1>2, <2>1
  <2> QED
    BY <1>1, <1>2, <2>2
<1>3. ASSUME NEW o \in Prices \cup {0}, NEW c \in Prices, NEW inChain \in BOOLEAN,
             Today(o, c, inChain)
      PROVE  OrdersInv'
  BY <1>2, <1>3 DEF Today, sleeveVars
<1>4. ASSUME NEW o \in pending, FillOrder(o)
      PROVE  OrdersInv'
  <2>1. OfYesterday'
    BY <1>4 DEF OrdersInv, OfYesterday, FillOrder
  <2> QED
    BY <1>4, <2>1, FillKeepsCover DEF OrdersInv
<1>5. ASSUME NEW o \in pending, DropOrder(o)
      PROVE  OrdersInv'
  BY <1>5 DEF OrdersInv, OfYesterday, OnePerInstrument, Covered, LongOnly,
              DropOrder, sleeveVars
<1>6. CASE Executed
  BY <1>2, <1>6 DEF Executed, sleeveVars
<1>7. CASE Settle
  <2>1. pending = {}
    BY <1>7 DEF TypeOK, PendingOK, Settle
  <2>2. CASE Settles
    <3>1. \A i \in Instruments : pos'[i].qty >= pos[i].qty
                                   \/ (pos'[i].qty = 0 /\ pending = {})
      BY <1>7, <2>1, <2>2, SettleFlattens DEF TypeOK, SleeveOK, Positions
    <3> QED
      BY <1>1, <1>7, <3>1 DEF Settle
  <2>3. CASE ~Settles
    BY <1>2, <1>7, <2>3 DEF Settle, sleeveVars
  <2> QED
    BY <2>2, <2>3
<1>8. CASE Mark
  <2>1. \A i \in Instruments : pos[i].qty \in Int
    BY DEF TypeOK, SleeveOK, Positions
  <2>2. \A i \in Instruments : pos'[i].qty >= pos[i].qty
    BY <1>8, <2>1, MarkedTyped DEF Mark
  <2> QED
    BY <1>1, <1>8, <2>2 DEF Mark
<1>9. CASE Allocate
  <2>1. pending = {} /\ pending' = {} /\ pos' = pos /\ setup' = setup /\ pc' = "orders"
    BY <1>9 DEF TypeOK, PendingOK, Allocate, sleeveVars
  <2>2. LongOnly => capital' \in Nat
    <3>1. LongOnly => capital' = capital \/ capital' \in Capitals
      BY <1>9 DEF LongOnly, Allocate, Rebalance
    <3>2. Capitals \subseteq Nat
      OBVIOUS
    <3> QED
      BY <3>1, <3>2, Zenon DEF OrdersInv, Covered
  <2> QED
    BY <2>1, <2>2 DEF OrdersInv, OfYesterday, OnePerInstrument, Covered, LongOnly
<1>10. ASSUME NEW n \in 0..MaxSignals,
              NEW asked \in [1..n -> UNION {AskedFor(i) : i \in setup.trades}],
              Signals(asked)
       PROVE  OrdersInv'
  <2>1. /\ pending' = InLine(asked) /\ day' = day + 1 /\ pos' = pos
        /\ capital' = capital /\ setup' = setup
    BY <1>10 DEF TypeOK, PendingOK, Signals, InLine, sleeveVars
  <2>2. ASSUME NEW o \in pending'
        PROVE  /\ o.day = day
               /\ LongOnly /\ o.side = "sell" => o.qty <= pos[o.inst].qty
    BY <2>1, <2>2, InLineTyped DEF TypeOK, OrdersInv, Covered, LongOnly
  <2>3. day \in Int
    BY DEF TypeOK, MarketOK
  <2>4. OfYesterday'
    BY <2>1, <2>2, <2>3 DEF OfYesterday
  <2>5. OnePerInstrument'
    <3> SUFFICES ASSUME ~setup.repicks, NEW o \in InLine(asked),
                        NEW p \in InLine(asked), o.inst = p.inst
                 PROVE  o = p
      BY <2>1 DEF OnePerInstrument
    <3>1. PICK k \in DOMAIN asked : o = [asked[k] EXCEPT !.nr = k]
      BY DEF InLine
    <3>2. PICK l \in DOMAIN asked : p = [asked[l] EXCEPT !.nr = l]
      BY DEF InLine
    <3>3. \A j \in DOMAIN asked : asked[j] \in OrderType
      BY AskedTyped DEF TypeOK
    <3>4. o.inst = asked[k].inst /\ p.inst = asked[l].inst
      BY <3>1, <3>2, <3>3 DEF OrderType
    <3>5. k = l
      BY <1>10, <3>4 DEF Signals
    <3> QED
      BY <3>1, <3>2, <3>5
  <2>6. Covered'
    BY <2>1, <2>2 DEF OrdersInv, Covered, LongOnly
  <2> QED
    BY <2>4, <2>5, <2>6 DEF OrdersInv
<1>11. CASE UNCHANGED vars
  BY <1>2, <1>11 DEF vars, sleeveVars
<1> QED
  BY <1>3, <1>4, <1>5, <1>6, <1>7, <1>8, <1>9, <1>10, <1>11 DEF Next

LEMMA OrdersInPlace == Spec => []OrdersInv
<1>1. Init => OrdersInv
  BY DEF Init, OrdersInv, OfYesterday, OnePerInstrument, Covered, LongOnly, Flat
<1> QED
  BY <1>1, StepKeepsOrders, Typed, PTL DEF Spec

(* A strategy that never targets a short position and signals an           *)
(* instrument once a day never gets one, under an allocator, whatever is   *)
(* dropped, cut down or settled in between.                                *)
THEOREM NeverShort == Spec => []LongOnlyStaysLong
<1>1. OrdersInv => LongOnlyStaysLong
  BY DEF OrdersInv, Covered, LongOnly, LongOnlyStaysLong
<1> QED
  BY <1>1, OrdersInPlace, PTL

(* An order executes on the day after its signal or never (engine.py 5-6). *)
THEOREM NoLookAhead == Spec => TradesOneDayLater
<1>1. OrdersInv => (pos' # pos /\ pc = "execute" =>
                        \A o \in pending \ pending' : o.day = day - 1)
  BY DEF OrdersInv, OfYesterday
<1> QED
  BY <1>1, OrdersInPlace, PTL DEF TradesOneDayLater

-----------------------------------------------------------------------------
(* Expiry and marks *)

Settled ==
    pc \in {"mark", "signals", "orders"} /\ day >= Expiry /\ last > 0 =>
        pos["C"].qty = 0

LEMMA StepSettles == TypeOK /\ Settled /\ [Next]_vars => Settled'
<1> SUFFICES ASSUME TypeOK, Settled, [Next]_vars PROVE Settled'
  OBVIOUS
<1>1. ASSUME pc' \in {"dawn", "execute", "settle"} PROVE Settled'
  BY <1>1 DEF Settled
<1>2. CASE Settle
  <2>1. CASE Settles
    BY <1>2, <2>1, SettleFlattens DEF Settled
  <2>2. CASE ~Settles
    BY <1>2, <2>2 DEF Settled, Settle, Settles, Expired, sleeveVars, marketVars
  <2> QED
    BY <2>1, <2>2
<1>3. CASE Mark
  <2>1. "C" \in Instruments
    BY DEF Instruments
  <2>2. pos'["C"].qty = pos["C"].qty
    BY <1>3, <2>1, MarkedTyped DEF Mark
  <2> QED
    BY <1>3, <2>2 DEF Settled, Mark, marketVars
<1>4. CASE Allocate
  BY <1>4 DEF Settled, Allocate, sleeveVars, marketVars
<1>5. CASE UNCHANGED vars
  BY <1>5 DEF Settled, vars, sleeveVars, marketVars
<1>6. CASE Executed
  BY <1>1, <1>6 DEF Executed
<1>7. ASSUME NEW o \in pending, FillOrder(o) \/ DropOrder(o) PROVE Settled'
  BY <1>1, <1>7 DEF FillOrder, DropOrder
<1>8. ASSUME NEW o \in Prices \cup {0}, NEW c \in Prices, NEW inChain \in BOOLEAN,
             Today(o, c, inChain)
      PROVE  Settled'
  BY <1>1, <1>8 DEF Today
<1>9. ASSUME NEW n \in 0..MaxSignals,
             NEW asked \in [1..n -> UNION {AskedFor(i) : i \in setup.trades}],
             Signals(asked)
      PROVE  Settled'
  BY <1>1, <1>9 DEF Signals
<1> QED
  BY <1>2, <1>3, <1>4, <1>5, <1>6, <1>7, <1>8, <1>9 DEF Next

(* No expired contract is left open or opened when a price of the stock is *)
(* known.                                                                  *)
THEOREM SettlesExpired == Spec => []ExpiredAreSettled
<1>1. Init => Settled
  BY DEF Init, Settled
<1>2. Settled => ExpiredAreSettled
  BY DEF Settled, ExpiredAreSettled
<1> QED
  BY <1>1, <1>2, StepSettles, Typed, PTL DEF Spec

(* The call has no mark of today before the marking, unless it was filled  *)
(* on its chain, is settled by now or is known to be filled off the chain. *)
MarkedBefore ==
    /\ pos["C"].markDay <= day
    /\ pc = "dawn" => pos["C"].markDay < day
    /\ /\ pc \in {"execute", "settle", "mark"}
       /\ ~offChain /\ ~quoted /\ ~Expired
       => pos["C"].markDay < day

LEMMA StepMarks ==
    /\ TypeOK /\ MarkedBefore /\ MarksAreOfToday /\ [Next]_vars
    => MarkedBefore' /\ MarksAreOfToday'
<1> SUFFICES ASSUME TypeOK, MarkedBefore, MarksAreOfToday, [Next]_vars
             PROVE  MarkedBefore' /\ MarksAreOfToday'
  OBVIOUS
<1>1. /\ "C" \in Instruments /\ "S" \in Instruments
      /\ pos["C"].markDay \in Int /\ day \in Int
  BY DEF TypeOK, SleeveOK, MarketOK, Positions, Instruments
<1>2. ASSUME pc' # "signals" PROVE MarksAreOfToday'
  BY <1>2 DEF MarksAreOfToday
<1>3. ASSUME NEW o \in Prices \cup {0}, NEW c \in Prices, NEW inChain \in BOOLEAN,
             Today(o, c, inChain)
      PROVE  MarkedBefore' /\ MarksAreOfToday'
  BY <1>1, <1>2, <1>3 DEF MarkedBefore, Today, sleeveVars
<1>4. ASSUME NEW o \in pending, FillOrder(o)
      PROVE  MarkedBefore' /\ MarksAreOfToday'
  <2>1. o.inst \in Instruments /\ o.side \in Sides /\ o.qty \in Nat \ {0}
    BY <1>4, FillOrderTyped DEF OrderType
  <2>2. /\ pos'[o.inst].markDay = day
        /\ \A j \in Instruments \ {o.inst} : pos'[j] = pos[j]
    BY <1>4, <2>1, FillOrderTyped, FillSizes DEF TypeOK, FillOrder
  <2>3. /\ pc = "execute" /\ pc' = "execute" /\ day' = day /\ quoted' = quoted
        /\ offChain' = (offChain \/ (o.inst = "C" /\ ~OnChain))
    BY <1>4 DEF FillOrder, marketVars
  <2>4. CASE o.inst = "C"
    <3>1. ~offChain' => quoted'
      BY <2>3, <2>4 DEF OnChain
    <3>2. pos'["C"].markDay = day
      BY <2>2, <2>4
    <3> QED
      BY <1>1, <1>2, <2>3, <3>1, <3>2 DEF MarkedBefore
  <2>5. CASE o.inst = "S"
    <3>1. pos'["C"] = pos["C"]
      BY <1>1, <2>2, <2>5
    <3>2. offChain' => offChain' = TRUE /\ (offChain => offChain')
      OBVIOUS
    <3>3. offChain => offChain'
      BY <2>3
    <3>4. Expired' = Expired
      BY <2>3 DEF Expired
    <3> QED
      BY <1>1, <1>2, <2>3, <3>1, <3>3, <3>4 DEF MarkedBefore
  <2> QED
    BY <2>1, <2>4, <2>5 DEF Instruments
<1>5. ASSUME NEW o \in pending, DropOrder(o)
      PROVE  MarkedBefore' /\ MarksAreOfToday'
  BY <1>2, <1>5 DEF MarkedBefore, DropOrder, Expired, sleeveVars, marketVars
<1>6. CASE Executed
  BY <1>2, <1>6 DEF MarkedBefore, Executed, Expired, sleeveVars, marketVars
<1>7. CASE Settle
  <2>1. pc = "settle" /\ pc' = "mark" /\ day' = day /\ quoted' = quoted
        /\ offChain' = offChain
    BY <1>7 DEF Settle, marketVars
  <2>2. CASE Settles
    <3>1. pos'["C"].markDay = day
      BY <1>7, <2>2, SettleTyped, FillSizes DEF TypeOK, Settle
    <3>2. Expired'
      BY <2>1, <2>2 DEF Settles, Expired
    <3> QED
      BY <1>1, <1>2, <2>1, <3>1, <3>2 DEF MarkedBefore
  <2>3. CASE ~Settles
    BY <1>2, <1>7, <2>1, <2>3 DEF MarkedBefore, Settle, Expired, sleeveVars
  <2> QED
    BY <2>2, <2>3
<1>8. CASE Mark
  <2>1. /\ pc = "mark" /\ pc' = "signals" /\ day' = day /\ last' = last
        /\ quoted' = quoted /\ offChain' = offChain /\ setup' = setup
        /\ pos'["S"] = Marked("S") /\ pos'["C"] = Marked("C")
    BY <1>1, <1>8 DEF Mark, marketVars
  <2>2. pos["S"] \in Positions /\ pos["C"] \in Positions
    BY <1>1 DEF TypeOK, SleeveOK
  <2>3. pos'["C"].markDay <= day
    BY <1>1, <2>1, <2>2 DEF Marked, MarkedBefore, Positions
  <2>4. MarkedBefore'
    BY <2>1, <2>3 DEF MarkedBefore
  <2>5. pos'["S"].qty # 0 /\ last > 0 => pos'["S"].mark = last
    BY <2>1, <2>2 DEF Marked, Positions
  <2>6. pos'["C"].qty # 0 /\ quoted => pos'["C"].mark = Mid(ChainQuote)
    BY <2>1, <2>2 DEF Marked, Positions
  <2>7. ASSUME pos'["C"].qty # 0, last > 0, ~Expired, ~offChain, ~quoted,
               setup.fallback
        PROVE  pos'["C"].mark = Theo(last)
    <3>1. pos["C"].markDay # day
      BY <1>1, <2>1, <2>7 DEF MarkedBefore
    <3>2. pos["C"].qty # 0
      BY <1>1, <2>1, <2>7, MarkedTyped
    <3>3. Marked("C") = [pos["C"] EXCEPT !.mark = Theo(last), !.markDay = day]
      BY <2>7, <3>1, <3>2 DEF Marked
    <3> QED
      BY <2>1, <2>2, <3>3 DEF Positions
  <2>8. Expired' = Expired /\ ChainQuote' = ChainQuote /\ Theo(last)' = Theo(last)
    BY <2>1 DEF Expired, ChainQuote, Theo, Intrinsic
  <2>9. Mid(ChainQuote)' = Mid(ChainQuote)
    BY <2>8 DEF Mid
  <2>10. MarksAreOfToday'
    BY <2>1, <2>5, <2>6, <2>7, <2>8, <2>9 DEF MarksAreOfToday
  <2> QED
    BY <2>4, <2>10
<1>9. CASE Allocate
  BY <1>2, <1>9 DEF MarkedBefore, Allocate, sleeveVars, marketVars
<1>10. ASSUME NEW n \in 0..MaxSignals,
              NEW asked \in [1..n -> UNION {AskedFor(i) : i \in setup.trades}],
              Signals(asked)
       PROVE  MarkedBefore' /\ MarksAreOfToday'
  BY <1>1, <1>2, <1>10 DEF MarkedBefore, Signals, sleeveVars
<1>11. CASE UNCHANGED vars
  <2>1. MarkedBefore'
    BY <1>11 DEF MarkedBefore, Expired, vars, sleeveVars, marketVars
  <2>2. MarksAreOfToday'
    BY <1>11 DEF MarksAreOfToday, Expired, Mid, ChainQuote, Theo, Intrinsic,
                 vars, sleeveVars, marketVars
  <2> QED
    BY <2>1, <2>2
<1> QED
  BY <1>3, <1>4, <1>5, <1>6, <1>7, <1>8, <1>9, <1>10, <1>11 DEF Next

(* The curve is drawn from marks of the day's close (engine.py 185).       *)
THEOREM MarksAtClose == Spec => []MarksAreOfToday
<1>1. Init => MarkedBefore /\ MarksAreOfToday
  BY DEF Init, MarkedBefore, MarksAreOfToday, Flat, Instruments
<1> QED
  BY <1>1, StepMarks, Typed, PTL DEF Spec

-----------------------------------------------------------------------------
(* Friction *)

(* A quote with a bid has its middle strictly between bid and ask.         *)
LEMMA MidIsBetween ==
    ASSUME NEW mid \in Nat, NEW half \in Nat \ {0},
           QuoteAround(mid, half).bid > 0
    PROVE  /\ QuoteAround(mid, half).bid < Mid(QuoteAround(mid, half))
           /\ Mid(QuoteAround(mid, half)) < QuoteAround(mid, half).ask
<1> DEFINE q == QuoteAround(mid, half)
<1>1. q.bid = mid - half /\ q.ask = mid + half /\ q.bid > 0
  BY DEF QuoteAround, Greater
<1>2. Mid(q) = (mid * 2) \div 2
  BY <1>1 DEF Mid
<1>3. Mid(q) = mid
  BY <1>2, DivOfProduct
<1> QED
  BY <1>1, <1>3

(* Buyers pay more than the middle, sellers get less.                      *)
LEMMA FarTouch ==
    ASSUME MarketOK, NEW i \in Instruments, NEW side \in Sides,
           ExecQuote(i).bid > 0
    PROVE  /\ Mid(ExecQuote(i)) \in Nat /\ ExecutionPrice(i, side) \in Nat
           /\ side = "buy"  => ExecutionPrice(i, side) > Mid(ExecQuote(i))
           /\ side = "sell" => ExecutionPrice(i, side) < Mid(ExecQuote(i))
<1>1. /\ ExecQuote(i).bid \in Nat /\ ExecQuote(i).ask \in Nat
      /\ open \in Nat /\ last \in Nat
  BY MarketTyped
<1>2. Mid(ExecQuote(i)) \in Nat
  BY <1>1, MidTyped
<1>3. \E mid \in Nat, half \in Nat \ {0} : ExecQuote(i) = QuoteAround(mid, half)
  <2>1. Theo(open) \in Nat /\ Theo(last) \in Nat
    BY <1>1, TheoTyped
  <2>2. ExecQuote(i) # NoQuote
    BY DEF NoQuote
  <2>3. HalfSpread \in Nat \ {0} /\ OptionHalfSpread \in Nat \ {0}
    OBVIOUS
  <2>4. \/ ExecQuote(i) = QuoteAround(open, HalfSpread)
        \/ ExecQuote(i) = QuoteAround(Theo(last), OptionHalfSpread)
        \/ ExecQuote(i) = QuoteAround(Theo(open), OptionHalfSpread)
    BY <2>2 DEF ExecQuote, ChainQuote, Instruments
  <2> QED
    BY <1>1, <2>1, <2>3, <2>4
<1>4. ExecQuote(i).bid < Mid(ExecQuote(i)) /\ Mid(ExecQuote(i)) < ExecQuote(i).ask
  BY <1>3, MidIsBetween
<1>5. Impact \in Nat
  OBVIOUS
<1> QED
  BY <1>1, <1>2, <1>4, <1>5 DEF ExecutionPrice, Greater, Sides

(* What changes hands at the middle leaves the sleeve as rich as it was.   *)
LEMMA AllTold ==
    ASSUME NEW a \in Int, NEW b \in Int, NEW c \in Int,
           NEW x \in Int, NEW y \in Int, NEW z \in Int,
           NEW moved \in Int, NEW spent \in Int, NEW slip \in Int, NEW fees \in Int,
           moved - spent = -slip, y + z - b - c = moved, x = a - spent - fees
    PROVE  (x + y + z) - (a + b + c) = -slip - fees
OBVIOUS

(* A fill pays the distance to the middle on every share, and its fees.    *)
LEMMA FillCosts ==
    ASSUME TypeOK, NEW o \in pending, FillOrder(o)
    PROVE  /\ totalCosts' > totalCosts
           /\ AtMid' - AtMid = totalCosts - totalCosts'
<1> DEFINE i     == o.inst
           price == ExecutionPrice(i, o.side)
           mid   == Mid(ExecQuote(i))
           m     == Mult(i)
           s     == Sign(o.side)
           fees  == Fees(i, o.side, o.qty)
           slip  == Abs(price - mid) * o.qty * m
<1>1. /\ i \in Instruments /\ o.side \in Sides /\ o.qty \in Nat \ {0}
      /\ price \in Nat /\ fees \in Nat /\ slip \in Nat
  BY FillOrderTyped DEF OrderType
<1>2. /\ mid \in Nat
      /\ o.side = "buy" => price > mid
      /\ o.side = "sell" => price < mid
  BY <1>1, FarTouch DEF TypeOK, FillOrder
<1>3. m \in Nat \ {0}
  BY <1>1, MultTyped
<1>4. ApplyFill(i, o.side, o.qty, price, fees, slip)
  BY DEF FillOrder
<1>5. /\ cash' = cash - s * price * o.qty * m - fees
      /\ totalCosts' = totalCosts + fees + slip
  BY <1>4 DEF ApplyFill
<1>6. /\ pos'[i].qty = pos[i].qty + s * o.qty
      /\ \A j \in Instruments \ {i} : pos'[j] = pos[j]
  BY <1>1, <1>4, FillSizes DEF TypeOK
<1>7. \A j \in Instruments : ExecQuote(j)' = ExecQuote(j)
  BY DEF FillOrder, marketVars, ExecQuote, OnChain, ChainQuote, Expired
<1>8. \A j \in Instruments : Mid(ExecQuote(j))' = Mid(ExecQuote(j))
  BY <1>7 DEF Mid
<1>9. /\ cash \in Int /\ totalCosts \in Nat
      /\ \A j \in Instruments : pos[j].qty \in Int
  BY DEF TypeOK, SleeveOK, Positions
<1>10. s \in {1, -1} /\ Abs(price - mid) \in Nat \ {0}
       /\ Abs(price - mid) = s * (price - mid)
  BY <1>1, <1>2 DEF Sign, Abs, Sides
<1>11. ValueAtMid(i)' = (pos[i].qty + s * o.qty) * mid * m
  BY <1>1, <1>6, <1>8 DEF ValueAtMid
<1>12. \A j \in Instruments \ {i} : ValueAtMid(j)' = ValueAtMid(j)
  BY <1>6, <1>8 DEF ValueAtMid
<1>13. \A j \in Instruments : ValueAtMid(j) \in Int
  BY <1>9, MultTyped, MarketTyped, MidTyped DEF ValueAtMid, TypeOK
<1>14. ValueAtMid(i) = pos[i].qty * mid * m
  BY DEF ValueAtMid
<1> HIDE DEF price, mid, m, s, fees, i
<1>15. slip = s * (price - mid) * o.qty * m /\ slip > 0
  BY <1>1, <1>2, <1>3, <1>10
<1> HIDE DEF slip
<1>16. ValueAtMid(i)' - ValueAtMid(i) = s * o.qty * mid * m
  BY <1>1, <1>2, <1>3, <1>9, <1>10, <1>11, <1>14
<1>17. s * o.qty * mid * m - s * price * o.qty * m = -slip
  <2> DEFINE n == o.qty
  <2>1. n \in Int /\ m \in Int /\ mid \in Int /\ price \in Int
    BY <1>1, <1>2, <1>3
  <2> HIDE DEF n
  <2>2. s * n * mid * m - s * price * n * m = -(s * (price - mid) * n * m)
    BY <2>1, <1>10
  <2> QED
    BY <1>15, <2>2 DEF n
<1>18. /\ s * o.qty * mid * m \in Int /\ s * price * o.qty * m \in Int
  BY <1>1, <1>2, <1>3, <1>10
<1>19. ValueAtMid(i)' \in Int
  BY <1>13, <1>16, <1>18, <1>1, <1>2, <1>3, <1>9, <1>10, <1>11
<1>20. ValueAtMid("S")' + ValueAtMid("C")' - ValueAtMid("S") - ValueAtMid("C")
         = s * o.qty * mid * m
  BY <1>1, <1>12, <1>13, <1>16, <1>18, <1>19 DEF Instruments
<1>21. AtMid' - AtMid = -slip - fees
  <2>1. ValueAtMid("S") \in Int /\ ValueAtMid("C") \in Int
    BY <1>13 DEF Instruments
  <2>2. ValueAtMid("S")' \in Int /\ ValueAtMid("C")' \in Int
    BY <1>1, <1>12, <1>19, <2>1 DEF Instruments
  <2> DEFINE moved == s * o.qty * mid * m
             spent == s * price * o.qty * m
             vs    == ValueAtMid("S")
             vc    == ValueAtMid("C")
  <2>3. /\ moved \in Int /\ spent \in Int /\ moved - spent = -slip
        /\ vs' + vc' - vs - vc = moved /\ cash' = cash - spent - fees
    BY <1>5, <1>17, <1>18, <1>20
  <2>4. AtMid = cash + vs + vc
    BY DEF AtMid
  <2>5. AtMid' = cash' + vs' + vc'
    BY DEF AtMid
  <2> HIDE DEF moved, spent, vs, vc
  <2>6. cash \in Int /\ slip \in Int /\ fees \in Int
    BY <1>1, <1>9
  <2>7. /\ vs \in Int /\ vc \in Int /\ vs' \in Int /\ vc' \in Int
    BY <2>1, <2>2 DEF vs, vc
  <2>8. PICK x, y, z : x = cash' /\ y = vs' /\ z = vc'
    OBVIOUS
  <2>9. x \in Int /\ y \in Int /\ z \in Int
    BY <2>3, <2>6, <2>7, <2>8
  <2>10. y + z - vs - vc = moved /\ x = cash - spent - fees
    BY <2>3, <2>8
  <2>11. (x + y + z) - (cash + vs + vc) = -slip - fees
    BY <2>3, <2>6, <2>7, <2>9, <2>10, AllTold
  <2> QED
    BY <2>4, <2>5, <2>8, <2>11
<1>22. totalCosts' > totalCosts /\ totalCosts - totalCosts' = -slip - fees
  BY <1>1, <1>5, <1>9, <1>15
<1> QED
  BY <1>21, <1>22

(* "Zero-cost fills are impossible" (engine.py 7): an execution makes the  *)
(* sleeve poorer, valued at the mid, and by just the costs it reports.     *)
THEOREM FillsCost == Spec => EveryFillCosts
<1>1. TypeOK /\ [Next]_vars =>
        (pos' # pos /\ pc = "execute" =>
            /\ totalCosts' > totalCosts
            /\ AtMid' - AtMid = totalCosts - totalCosts')
  <2> SUFFICES ASSUME TypeOK, [Next]_vars, pos' # pos, pc = "execute"
               PROVE  /\ totalCosts' > totalCosts
                      /\ AtMid' - AtMid = totalCosts - totalCosts'
    OBVIOUS
  <2>1. \E o \in pending : FillOrder(o)
    BY DEF Next, Today, DropOrder, Executed, Settle, Mark, Allocate, Signals,
           vars, sleeveVars
  <2> QED
    BY <2>1, FillCosts
<1> QED
  BY <1>1, Typed, PTL DEF Spec, EveryFillCosts

-----------------------------------------------------------------------------
(* The windows of walk-forward validation *)

USE WalkForwardAssumption DEF WalkForwardAssumption

(* How many windows fit from a cursor on, and which.                       *)
Left(cursor, end, train, test, purge) ==
    IF end + 1 >= cursor + train + purge
    THEN (end + 1 - (cursor + train + purge)) \div test ELSE 0

Tiles(cursor, end, train, test, purge) ==
    [i \in 1..Left(cursor, end, train, test, purge)
        |-> Window(cursor + (i - 1) * test, train, test, purge)]

(* One more fits than from the next cursor on, while one does.             *)
LEMMA LeftSteps ==
    ASSUME NEW end \in Nat, NEW train \in Nat, NEW test \in Nat \ {0},
           NEW purge \in Nat, NEW cursor \in Nat
    PROVE  /\ Left(cursor, end, train, test, purge) \in Nat
           /\ cursor + train + purge + test - 1 > end
                  => Left(cursor, end, train, test, purge) = 0
           /\ ~(cursor + train + purge + test - 1 > end)
                  => Left(cursor, end, train, test, purge)
                         = Left(cursor + test, end, train, test, purge) + 1
<1> DEFINE x == end + 1 - (cursor + train + purge)
<1>1. x \in Int /\ (end + 1 >= cursor + train + purge <=> x >= 0)
  OBVIOUS
<1>2. /\ (cursor + train + purge + test - 1 > end) <=> x < test
      /\ end + 1 - (cursor + test + train + purge) = x - test
      /\ (end + 1 >= cursor + test + train + purge) <=> x - test >= 0
  OBVIOUS
<1>3. /\ Left(cursor, end, train, test, purge) = IF x >= 0 THEN x \div test ELSE 0
      /\ Left(cursor + test, end, train, test, purge)
             = IF x - test >= 0 THEN (x - test) \div test ELSE 0
  BY <1>1, <1>2 DEF Left
<1> HIDE DEF x
<1>4. x >= 0 => x \div test \in Nat
  BY <1>1, DivBounds
<1>5. x < test /\ x >= 0 => x \div test = 0
  <2> SUFFICES ASSUME x < test, x >= 0 PROVE x \div test = 0
    OBVIOUS
  <2>1. x \in Nat /\ x <= test
    BY <1>1
  <2>2. x \div test \in Nat /\ test * (x \div test) <= x
    BY <2>1, DivBounds
  <2> DEFINE d == x \div test
  <2>3. d \in Nat /\ test * d < test * 1
    BY <1>1, <2>1, <2>2
  <2> HIDE DEF d
  <2>4. ~(1 <= d)
    BY <1>1, <2>3, TimesMore
  <2> QED
    BY <2>3, <2>4 DEF d
<1>6. x >= test => x \div test = ((x - test) \div test) + 1
  <2> SUFFICES ASSUME x >= test PROVE x \div test = ((x - test) \div test) + 1
    OBVIOUS
  <2> DEFINE y == x - test
             d == x \div test
             e == y \div test
  <2>1. x \in Nat /\ y \in Nat /\ x = y + test
    BY <1>1
  <2>2. /\ d \in Nat /\ test * d <= x /\ x < test * d + test
        /\ e \in Nat /\ test * e <= y /\ y < test * e + test
    BY <2>1, DivBounds
  <2> HIDE DEF d, e, y
  <2>3. /\ test * (d - (e + 1)) < test
        /\ test * ((e + 1) - d) < test
    BY <2>1, <2>2
  <2>4. d - (e + 1) < 1 /\ (e + 1) - d < 1
    BY <2>2, <2>3
  <2> QED
    BY <2>2, <2>4 DEF d, e, y
<1> QED
  BY <1>1, <1>2, <1>3, <1>4, <1>5, <1>6

(* The rule by which the cursor moves.                                     *)
Recurs(cursor, end, train, test, purge) ==
    Tiles(cursor, end, train, test, purge)
        = LET w == Window(cursor, train, test, purge)
          IN  IF w.testEnd > end THEN <<>>
              ELSE <<w>> \o Tiles(cursor + test, end, train, test, purge)

LEMMA TilesRecur ==
    ASSUME NEW end \in Nat, NEW train \in Nat, NEW test \in Nat \ {0},
           NEW purge \in Nat, NEW cursor \in Nat
    PROVE  Recurs(cursor, end, train, test, purge)
<1> DEFINE w == Window(cursor, train, test, purge)
           n == Left(cursor + test, end, train, test, purge)
           rest == Tiles(cursor + test, end, train, test, purge)
           all == Tiles(cursor, end, train, test, purge)
<1>1. w.testEnd = cursor + train + purge + test - 1
  BY DEF Window
<1>2. CASE w.testEnd > end
  <2>1. Left(cursor, end, train, test, purge) = 0
    BY <1>1, <1>2, LeftSteps
  <2>2. all = <<>>
    BY <2>1 DEF Tiles
  <2> QED
    BY <1>2, <2>2 DEF Recurs
<1>3. CASE ~(w.testEnd > end)
  <2>1. Left(cursor, end, train, test, purge) = n + 1
    BY <1>1, <1>3, LeftSteps
  <2>2. n \in Nat
    <3>1. cursor + test \in Nat
      OBVIOUS
    <3> QED
      BY <3>1, LeftSteps
  <2> DEFINE S == {w} \cup {rest[i] : i \in 1..n}
  <2>3. rest = [i \in 1..n |-> Window(cursor + test + (i - 1) * test, train, test, purge)]
    BY DEF Tiles
  <2>4. all = [i \in 1..(n + 1) |-> Window(cursor + (i - 1) * test, train, test, purge)]
    BY <2>1 DEF Tiles
  <2>5. rest \in Seq(S) /\ Len(rest) = n /\ <<w>> \in Seq(S)
    <3>1. rest \in [1..n -> S] /\ w \in S
      <4> HIDE DEF n, w, all
      <4>1. rest = [i \in 1..n |-> rest[i]]
        BY <2>3
      <4> HIDE DEF rest
      <4> QED
        BY <4>1
    <3> HIDE DEF n, w, rest, all, S
    <3> QED
      BY <2>2, <3>1
  <2> HIDE DEF n, S, rest, all, w
  <2>6. /\ Len(<<w>> \o rest) = n + 1
        /\ DOMAIN (<<w>> \o rest) = 1..(n + 1)
        /\ <<w>> \o rest \in Seq(S)
    BY <2>2, <2>5
  <2>7. ASSUME NEW i \in 1..(n + 1) PROVE (<<w>> \o rest)[i] = all[i]
    <3>1. CASE i = 1
      <4>1. cursor + (i - 1) * test = cursor
        BY <3>1
      <4>2. (<<w>> \o rest)[1] = w
        BY <2>2, <2>5
      <4> QED
        BY <2>4, <3>1, <4>1, <4>2 DEF w
    <3>2. CASE i # 1
      <4>1. i - 1 \in 1..n
        BY <2>2, <3>2
      <4>2. (<<w>> \o rest)[i] = rest[i - 1]
        BY <2>2, <2>5, <3>2
      <4>3. cursor + test + ((i - 1) - 1) * test = cursor + (i - 1) * test
        BY <2>2
      <4> QED
        BY <2>3, <2>4, <4>1, <4>2, <4>3
    <3> QED
      BY <3>1, <3>2
  <2>8. <<w>> \o rest = all
    <3> DEFINE both == <<w>> \o rest
    <3>1. both = [i \in 1..(n + 1) |-> both[i]]
      BY <2>6
    <3>2. all = [i \in 1..(n + 1) |-> all[i]]
      BY <2>4
    <3> HIDE DEF both
    <3>3. \A i \in 1..(n + 1) : both[i] = all[i]
      BY <2>7 DEF both
    <3>4. both = all
      BY <3>1, <3>2, <3>3
    <3> QED
      BY <3>4 DEF both
  <2> QED
    BY <1>3, <2>8 DEF rest, all, w, Recurs
<1> QED
  BY <1>2, <1>3

(* The cursor runs into the end: a set of cursors from each of which the   *)
(* next is reached, none of them past the end, is empty.                   *)
LEMMA CursorsEnd ==
    ASSUME NEW end \in Nat, NEW test \in Nat \ {0}, NEW B \in SUBSET (0..end),
           \A c \in B : c + test \in B
    PROVE  B = {}
<1> SUFFICES ASSUME B # {} PROVE FALSE
  OBVIOUS
<1>1. IsFiniteSet(B)
  <2>1. IsFiniteSet(0..end)
    BY FS_Interval
  <2> QED
    BY <2>1, FS_Subset
<1>2. \A c \in B : c \in Int
  OBVIOUS
<1>3. Max(B) \in B /\ \A c \in B : c <= Max(B)
  BY <1>1, <1>2, MaxOf
<1> DEFINE m == Max(B)
<1> HIDE DEF m
<1>4. m \in B /\ m + test \in B /\ m + test <= m /\ m \in Int
  BY <1>2, <1>3 DEF m
<1> QED
  BY <1>4

(* What make_windows appends is the tiles from the start on.               *)
LEMMA WindowsAreTiles ==
    ASSUME NEW end \in Nat, NEW train \in Nat, NEW test \in Nat \ {0},
           NEW purge \in Nat, NEW start \in Nat
    PROVE  MakeWindows(start, end, train, test, purge)
               = Tiles(start, end, train, test, purge)
<1>0. \A c \in Nat : Recurs(c, end, train, test, purge)
  BY TilesRecur
<1> DEFINE Rule(g) ==
        [cursor \in Nat |->
            LET w == Window(cursor, train, test, purge)
            IN  IF w.testEnd > end THEN <<>> ELSE <<w>> \o g[cursor + test]]
           from == CHOOSE g : g = Rule(g)
           tiles == [cursor \in Nat |-> Tiles(cursor, end, train, test, purge)]
<1>1. tiles = Rule(tiles)
  <2>1. ASSUME NEW c \in Nat PROVE tiles[c] = Rule(tiles)[c]
    <3> DEFINE w == Window(c, train, test, purge)
    <3>1. c + test \in Nat
      OBVIOUS
    <3>2. /\ tiles[c] = Tiles(c, end, train, test, purge)
          /\ tiles[c + test] = Tiles(c + test, end, train, test, purge)
      BY <3>1
    <3>3. Rule(tiles)[c] = IF w.testEnd > end THEN <<>> ELSE <<w>> \o tiles[c + test]
      OBVIOUS
    <3>4. Tiles(c, end, train, test, purge)
              = IF w.testEnd > end THEN <<>>
                ELSE <<w>> \o Tiles(c + test, end, train, test, purge)
      BY <1>0, Zenon DEF Recurs
    <3> HIDE DEF tiles, Rule
    <3> QED
      BY <3>2, <3>3, <3>4, Zenon
  <2>2. tiles = [c \in Nat |-> tiles[c]] /\ Rule(tiles) = [c \in Nat |-> Rule(tiles)[c]]
    OBVIOUS
  <2> HIDE DEF tiles, Rule
  <2> QED
    BY <2>1, <2>2
<1>2. from = Rule(from)
  <2> HIDE DEF tiles, Rule
  <2> QED
    BY <1>1, Zenon
<1>3. MakeWindows(start, end, train, test, purge) = from[start]
  BY Zenon DEF MakeWindows
<1> DEFINE B == {c \in Nat : from[c] # tiles[c]}
<1>4. B = {}
  <2>1. ASSUME NEW c \in B PROVE c \in 0..end /\ c + test \in B
    <3> DEFINE w == Window(c, train, test, purge)
    <3>1. c \in Nat /\ c + test \in Nat /\ from[c] # tiles[c]
      OBVIOUS
    <3> HIDE DEF from, tiles, B
    <3>2. /\ from[c] = IF w.testEnd > end THEN <<>> ELSE <<w>> \o from[c + test]
          /\ tiles[c] = IF w.testEnd > end THEN <<>> ELSE <<w>> \o tiles[c + test]
      BY <1>1, <1>2, <3>1
    <3>3. ~(w.testEnd > end) /\ from[c + test] # tiles[c + test]
      BY <3>1, <3>2, Zenon
    <3>4. w.testEnd = c + train + purge + test - 1
      BY DEF Window
    <3>5. c <= end
      BY <3>1, <3>3, <3>4
    <3> QED
      BY <3>1, <3>3, <3>5 DEF B
  <2> HIDE DEF B
  <2> QED
    BY <2>1, CursorsEnd
<1>5. from[start] = tiles[start]
  BY <1>4
<1> QED
  BY <1>3, <1>5

(* Each window follows the one before it, and no further one would fit.    *)
LEMMA Tiled == WindowsTile
<1> SUFFICES ASSUME NEW end \in 0..Horizon, NEW train \in 1..MaxSpan,
                    NEW test \in 1..MaxSpan, NEW purge \in 0..MaxSpan
             PROVE  LET ws == MakeWindows(0, end, train, test, purge)
                    IN  /\ \A i \in DOMAIN ws :
                               /\ purge > 0 => ws[i].trainEnd < ws[i].testStart
                               /\ ws[i].testStart <= ws[i].testEnd /\ ws[i].testEnd <= end
                               /\ i > 1 => ws[i].testStart = ws[i - 1].testEnd + 1
                        /\ end - (train + purge) - Len(ws) * test < test - 1
  BY DEF WindowsTile
<1> DEFINE n == Left(0, end, train, test, purge)
           x == end + 1 - (train + purge)
           ws == Tiles(0, end, train, test, purge)
<1>1. end \in Nat /\ train \in Nat /\ test \in Nat \ {0} /\ purge \in Nat /\ 0 \in Nat
  OBVIOUS
<1>2. MakeWindows(0, end, train, test, purge) = ws
  BY <1>1, WindowsAreTiles
<1>3. n \in Nat /\ (x < 0 => n = 0) /\ (x >= 0 => n = x \div test) /\ x \in Int
  <2>1. 0 + train + purge = train + purge /\ (end + 1 >= train + purge <=> x >= 0)
    BY <1>1
  <2> HIDE DEF x
  <2>2. n = IF x >= 0 THEN x \div test ELSE 0
    BY <2>1 DEF Left, x
  <2>3. x \in Int
    BY <1>1 DEF x
  <2>4. n \in Nat
    BY <1>1, LeftSteps
  <2> QED
    BY <2>2, <2>3, <2>4
<1>4. n * test <= x \/ n = 0
  <2>1. x >= 0 => test * (x \div test) <= x
    BY <1>1, <1>3, DivBounds
  <2> QED
    BY <1>1, <1>3, <2>1
<1>5. x < n * test + test
  <2>1. x >= 0 => x < test * (x \div test) + test
    BY <1>1, <1>3, DivBounds
  <2> QED
    BY <1>1, <1>3, <2>1
<1>6. ws = [i \in 1..n |-> Window((i - 1) * test, train, test, purge)]
  BY <1>1 DEF Tiles
<1>7. DOMAIN ws = 1..n /\ Len(ws) = n
  BY <1>3, <1>6
<1>8. ASSUME NEW i \in 1..n
      PROVE  /\ ws[i].trainEnd = (i - 1) * test + train
             /\ ws[i].testStart = (i - 1) * test + train + purge
             /\ ws[i].testEnd = (i - 1) * test + train + purge + test - 1
             /\ (i - 1) * test \in Nat /\ (i - 1) * test + test = i * test
             /\ i * test <= n * test
  <2>1. ws[i] = Window((i - 1) * test, train, test, purge)
    BY <1>6
  <2>2. i \in Nat /\ i - 1 \in Nat /\ i <= n
    BY <1>3
  <2>3. (i - 1) * test \in Nat /\ (i - 1) * test + test = i * test
    BY <1>1, <2>2
  <2>4. test * i <= test * n
    BY <1>1, <1>3, <2>2, TimesMore
  <2>5. i * test <= n * test
    BY <1>1, <1>3, <2>2, <2>4
  <2> HIDE DEF ws
  <2> QED
    BY <2>1, <2>3, <2>5 DEF Window
<1> HIDE DEF n, ws
<1>9. ASSUME NEW i \in 1..n
      PROVE  /\ purge > 0 => ws[i].trainEnd < ws[i].testStart
             /\ ws[i].testStart <= ws[i].testEnd /\ ws[i].testEnd <= end
             /\ i > 1 => ws[i].testStart = ws[i - 1].testEnd + 1
  <2> DEFINE a == (i - 1) * test
             b == i * test
             c == n * test
  <2>1. /\ ws[i].trainEnd = a + train /\ ws[i].testStart = a + train + purge
        /\ ws[i].testEnd = a + train + purge + test - 1
        /\ a \in Nat /\ a + test = b /\ b <= c
    BY <1>8
  <2>2. c <= x /\ c \in Int /\ b \in Int
    BY <1>1, <1>3, <1>4
  <2>3. i > 1 => ws[i - 1].testEnd = a - test + train + purge + test - 1
    <3> SUFFICES ASSUME i > 1
                 PROVE  ws[i - 1].testEnd = a - test + train + purge + test - 1
      OBVIOUS
    <3>1. i - 1 \in 1..n
      BY <1>3
    <3>2. ((i - 1) - 1) * test = a - test
      BY <1>1, <1>3
    <3> HIDE DEF a
    <3> QED
      BY <1>8, <3>1, <3>2
  <2> HIDE DEF a, b, c
  <2> QED
    BY <1>1, <2>1, <2>2, <2>3 DEF x
<1>10. end - (train + purge) - n * test < test - 1
  <2> DEFINE c == n * test
  <2>1. c \in Int /\ x < c + test
    BY <1>1, <1>3, <1>5
  <2> HIDE DEF c
  <2>2. end - (train + purge) - c < test - 1
    BY <1>1, <2>1 DEF x
  <2> QED
    BY <2>2 DEF c
<1> QED
  BY <1>2, <1>7, <1>9, <1>10

LEMMA Monotone == FlagIsMonotone
  BY DEF FlagIsMonotone, OverfittingCheck

(* No window judges a day it trained on, no day is judged twice or left    *)
(* out (make_windows), and while the result out of sample is above zero    *)
(* the flag of overfitting does not go away as it gets worse               *)
(* (overfitting_check).                                                    *)
THEOREM WindowsSound == Spec => []WalkForwardSound
<1>1. WalkForwardSound
  BY Tiled, Monotone DEF WalkForwardSound
<1> QED
  BY <1>1, PTL
=============================================================================
