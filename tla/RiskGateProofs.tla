---------------------------- MODULE RiskGateProofs ----------------------------
(***************************************************************************)
(* Theorems about RiskGate, for any contracts, orders, prices and limits.  *)
(* Cash, exposures and collateral are sums over sets: Arithmetic has what  *)
(* the proofs need to know of them.                                        *)
(***************************************************************************)
EXTENDS RiskGate, Arithmetic

USE GateAssumption DEF GateAssumption, Instruments

-----------------------------------------------------------------------------
(* Positions and prices *)

(* The part of the type invariant that needs no bound.                     *)
Marked ==
    /\ pos \in [Instruments -> Int] /\ book \in [Instruments -> Int]
    /\ price \in [Instruments -> Nat \ {0}]

LEMMA InitMarked == Init => Marked
<1> SUFFICES ASSUME Init PROVE Marked
  OBVIOUS
<1>1. pos \in [Instruments -> Int] /\ book \in [Instruments -> Int]
  BY DEF Init
<1>2. /\ price \in [Instruments -> UNION {Prices[i] : i \in Instruments}]
      /\ \A i \in Instruments : price[i] \in Prices[i]
  BY DEF Init, Marks
<1>3. \A i \in Instruments : Prices[i] \subseteq Nat \ {0}
  OBVIOUS
<1>4. price \in [Instruments -> Nat \ {0}]
  BY <1>2, <1>3
<1> QED
  BY <1>1, <1>4 DEF Marked

(* Cutting a leg down keeps its direction and never makes it larger.       *)
LEMMA DownsizedSmaller ==
    ASSUME Marked, NEW o \in Orders, NEW i \in DOMAIN o
    PROVE  /\ DOMAIN Downsized(o) = DOMAIN o
           /\ Downsized(o)[i] \in Int
           /\ o[i] > 0 => 0 <= Downsized(o)[i] /\ Downsized(o)[i] <= o[i]
           /\ o[i] < 0 => o[i] <= Downsized(o)[i] /\ Downsized(o)[i] <= 0
<1>1. o[i] \in Int /\ price[i] \in Nat \ {0} /\ MaxOrderNotional \in Nat
  BY DEF Marked
<1>2. DOMAIN Downsized(o) = DOMAIN o
  BY DEF Downsized
<1>3. CASE Abs(o[i]) * price[i] <= MaxOrderNotional
  <2>1. Downsized(o)[i] = o[i]
    BY <1>3 DEF Downsized
  <2> QED
    BY <1>1, <1>2, <2>1
<1>4. CASE ~(Abs(o[i]) * price[i] <= MaxOrderNotional)
  <2> DEFINE cut == MaxOrderNotional \div price[i]
  <2>1. Abs(o[i]) \in Nat /\ MaxOrderNotional <= Abs(o[i]) * price[i]
    <3>1. Abs(o[i]) \in Nat
      BY <1>1 DEF Abs
    <3> QED
      BY <1>1, <1>4, <3>1
  <2>2. cut \in Nat /\ cut <= Abs(o[i])
    BY <1>1, <2>1, DivBounds, DivAtMost
  <2>3. Downsized(o)[i] = cut * IF o[i] < 0 THEN -1 ELSE 1
    BY <1>4 DEF Downsized
  <2> HIDE DEF cut
  <2>4. Downsized(o)[i] = IF o[i] < 0 THEN -cut ELSE cut
    BY <2>2, <2>3
  <2> QED
    BY <1>1, <1>2, <2>2, <2>4 DEF Abs
<1> QED
  BY <1>3, <1>4

(* An approved order fills as it was cut down, or nothing changes hands.   *)
LEMMA TradeGives ==
    ASSUME Marked, Trade
    PROVE  \E o \in Orders : NoShortShares(o) /\ Fill(Downsized(o))
<1>1. PICK o \in Orders : \E sized \in Approved(o) : InBounds(sized) /\ Fill(sized)
  BY Zenon DEF Trade
<1>2. PICK sized \in Approved(o) : Fill(sized)
  BY <1>1
<1>3. sized = Downsized(o) /\ NoShortShares(o)
  BY Zenon DEF Approved
<1> QED
  BY <1>2, <1>3

LEMMA NextMarked == Marked /\ [Next]_vars => Marked'
<1> SUFFICES ASSUME Marked, [Next]_vars PROVE Marked'
  OBVIOUS
<1>1. CASE Trade
  <2>1. PICK o \in Orders : Fill(Downsized(o))
    BY <1>1, TradeGives
  <2>2. \A i \in DOMAIN o : Downsized(o)[i] \in Int
    BY DownsizedSmaller
  <2>3. DOMAIN Downsized(o) = DOMAIN o
    BY DEF Downsized
  <2>4. After(pos, Downsized(o)) \in [Instruments -> Int]
    BY <2>2, <2>3 DEF After, Marked
  <2> QED
    BY <2>1, <2>4 DEF Marked, Fill
<1>2. CASE NextPass
  <2>1. PICK i \in Instruments : \E p \in Prices[i] : price' = [price EXCEPT ![i] = p]
    BY <1>2 DEF NextPass
  <2>2. PICK p \in Prices[i] : price' = [price EXCEPT ![i] = p]
    BY <2>1
  <2>3. p \in Nat \ {0}
    OBVIOUS
  <2> QED
    BY <1>2, <2>2, <2>3 DEF NextPass, Marked
<1>3. CASE UNCHANGED vars
  BY <1>3 DEF vars, Marked
<1> QED
  BY <1>1, <1>2, <1>3 DEF Next

-----------------------------------------------------------------------------
(* The ban on short shares *)

(* n sales of what was held sell no more than n times that much. *)
LEMMA OneSaleMore ==
    ASSUME NEW n \in Nat, NEW h \in Nat, NEW q \in Int, NEW x \in Int,
           x >= q - n * h
    PROVE  x - h >= q - (n + 1) * h
<1>1. (n + 1) * h = n * h + h
  OBVIOUS
<1> QED
  BY <1>1

LEMMA NextLong ==
    Marked /\ sold \in Nat /\ SharesShortByBatchOnly /\ [Next]_vars
        => sold' \in Nat /\ SharesShortByBatchOnly'
<1> SUFFICES ASSUME Marked, sold \in Nat, SharesShortByBatchOnly, [Next]_vars
             PROVE  sold' \in Nat /\ SharesShortByBatchOnly'
  OBVIOUS
<1>0. pos[Shares] \in Int /\ book[Shares] \in Int
  BY DEF Marked
<1>1. CASE Trade
  <2>1. PICK o \in Orders : NoShortShares(o) /\ Fill(Downsized(o))
    BY <1>1, TradeGives
  <2>2. DOMAIN Downsized(o) = DOMAIN o
    BY DEF Downsized
  <2>3. /\ pos'[Shares] = pos[Shares] + IF Shares \in DOMAIN o
                                        THEN Downsized(o)[Shares] ELSE 0
        /\ book' = book
        /\ sold' = sold + IF Shares \in DOMAIN o /\ Downsized(o)[Shares] < 0
                          THEN 1 ELSE 0
    BY <2>1, <2>2 DEF After, Fill
  <2> DEFINE held == AtLeast0(book[Shares])
  <2>4. held \in Nat /\ pos[Shares] >= book[Shares] - sold * held
    BY <1>0 DEF SharesShortByBatchOnly, AtLeast0
  <2>5. ASSUME Shares \in DOMAIN o
        PROVE  /\ Downsized(o)[Shares] \in Int
               /\ Downsized(o)[Shares] < 0 => -Downsized(o)[Shares] <= held
    <3>1. /\ o[Shares] \in Int /\ Downsized(o)[Shares] \in Int
          /\ o[Shares] > 0 => Downsized(o)[Shares] >= 0
          /\ o[Shares] < 0 => o[Shares] <= Downsized(o)[Shares]
          /\ o[Shares] # 0
      BY <2>5, DownsizedSmaller
    <3>2. o[Shares] < 0 => -o[Shares] <= book[Shares]
      BY <2>1, <2>5 DEF NoShortShares
    <3> QED
      BY <1>0, <3>1, <3>2 DEF AtLeast0
  <2> HIDE DEF held
  <2>6. CASE Shares \in DOMAIN o /\ Downsized(o)[Shares] < 0
    <3>1. sold' = sold + 1 /\ sold' \in Nat
      BY <2>3, <2>6
    <3>2. pos'[Shares] \in Int /\ pos'[Shares] >= pos[Shares] - held
      BY <1>0, <2>3, <2>4, <2>5, <2>6
    <3>3. pos[Shares] - held >= book[Shares] - (sold + 1) * held
      BY <1>0, <2>4, OneSaleMore
    <3>4. (sold + 1) * held \in Int
      BY <2>4
    <3>5. pos'[Shares] >= book[Shares] - (sold + 1) * held
      BY <1>0, <2>4, <3>2, <3>3, <3>4
    <3> QED
      BY <2>3, <3>1, <3>5 DEF SharesShortByBatchOnly, held
  <2>7. CASE ~(Shares \in DOMAIN o /\ Downsized(o)[Shares] < 0)
    <3>1. sold' = sold
      BY <2>3, <2>7
    <3>2. pos'[Shares] \in Int /\ pos'[Shares] >= pos[Shares]
      BY <1>0, <2>3, <2>5, <2>7
    <3>3. sold * held \in Int
      BY <2>4
    <3>4. pos'[Shares] >= book[Shares] - sold * held
      BY <1>0, <2>4, <3>2, <3>3
    <3> QED
      BY <2>3, <3>1, <3>4 DEF SharesShortByBatchOnly, held
  <2> QED
    BY <2>6, <2>7
<1>2. CASE NextPass
  <2>1. book'[Shares] = pos'[Shares] /\ sold' = 0 /\ pos'[Shares] \in Int
    BY <1>0, <1>2 DEF NextPass
  <2>2. AtLeast0(book'[Shares]) \in Int
    BY <2>1 DEF AtLeast0
  <2>3. sold' * AtLeast0(book'[Shares]) = 0
    BY <2>1, <2>2
  <2> QED
    BY <2>1, <2>3 DEF SharesShortByBatchOnly
<1>3. CASE UNCHANGED vars
  BY <1>3 DEF vars, SharesShortByBatchOnly
<1> QED
  BY <1>1, <1>2, <1>3 DEF Next

(* Of the shares a pass has read, it sells no more than its orders times   *)
(* over, though the ban is judged on the order as it was sent and what goes*)
(* out is the order cut down; with one such order they are not left short. *)
THEOREM SharesSoldFromBook == Spec => []SharesShortByBatchOnly
<1> DEFINE Inv == Marked /\ sold \in Nat /\ SharesShortByBatchOnly
<1>1. Init => Inv
  <2> SUFFICES ASSUME Init PROVE sold \in Nat /\ SharesShortByBatchOnly
    BY InitMarked
  <2>1. pos[Shares] = 0 /\ book[Shares] = 0 /\ sold = 0
    BY DEF Init
  <2>2. AtLeast0(book[Shares]) = 0 /\ 0 * 0 = 0
    BY <2>1 DEF AtLeast0
  <2> QED
    BY <2>1, <2>2 DEF SharesShortByBatchOnly
<1>2. Inv /\ [Next]_vars => Inv'
  BY NextMarked, NextLong
<1>3. Inv => SharesShortByBatchOnly
  OBVIOUS
<1> HIDE DEF Inv
<1> QED
  BY <1>1, <1>2, <1>3, PTL DEF Spec

-----------------------------------------------------------------------------
(* What a trade is *)

(* Contracts and orders are finite, and a group is of one right. *)
LEMMA Parts ==
    /\ IsFiniteSet(Instruments) /\ IsFiniteSet(Contracts) /\ IsFiniteSet(Groups)
    /\ \A o \in Orders : IsFiniteSet(DOMAIN o)
    /\ \A g \in Groups : /\ IsFiniteSet(g) /\ g \subseteq Contracts /\ g # {}
                         /\ \A c \in g : Right[c] = RightOf(g)
<1>1. IsFiniteSet(Instruments)
  BY FS_Union, FS_Singleton
<1>2. \A o \in Orders : IsFiniteSet(DOMAIN o)
  BY <1>1, FS_Subset
<1>3. IsFiniteSet(Groups)
  <2> DEFINE f == [c \in Contracts |-> GroupOf(c)]
  <2>1. f \in Surjection(Contracts, Groups)
    BY DEF Groups, Surjection
  <2> QED
    BY <2>1, FS_Surjection
<1>4. ASSUME NEW g \in Groups
      PROVE  /\ IsFiniteSet(g) /\ g \subseteq Contracts /\ g # {}
             /\ \A c \in g : Right[c] = RightOf(g)
  <2>1. PICK c \in Contracts : g = GroupOf(c)
    BY DEF Groups
  <2>2. c \in g /\ g \in SUBSET Contracts /\ \A d \in g : Right[d] = Right[c]
    BY <2>1 DEF GroupOf
  <2>3. (CHOOSE d \in g : TRUE) \in g
    BY <2>2
  <2>4. RightOf(g) = Right[c]
    BY <2>2, <2>3 DEF RightOf
  <2> QED
    BY <2>2, <2>4, FS_Subset
<1> QED
  BY <1>1, <1>2, <1>3, <1>4

(* What an order costs is a sum of integers. *)
LEMMA CashOutInt ==
    ASSUME Marked, NEW o \in Orders
    PROVE  /\ CashOut(Downsized(o)) \in Int
           /\ (\A i \in DOMAIN o : o[i] < 0) => CashOut(Downsized(o)) <= 0
<1> DEFINE d == Downsized(o)
           f == [i \in DOMAIN d |-> d[i] * price[i]]
           h == [i \in DOMAIN d |-> (-1) * f[i]]
<1>1. /\ DOMAIN d = DOMAIN o /\ IsFiniteSet(DOMAIN d)
      /\ \A i \in DOMAIN d : d[i] \in Int
  <2>1. DOMAIN d = DOMAIN o
    BY DEF Downsized
  <2> HIDE DEF d
  <2>2. \A i \in DOMAIN o : d[i] \in Int
    BY DownsizedSmaller DEF d
  <2> QED
    BY <2>1, <2>2, Parts
<1>2. \A i \in DOMAIN d : price[i] \in Nat
  BY <1>1 DEF Marked
<1>3. CashOut(d) = SumFunctionOnSet(f, DOMAIN d)
  <2>1. DOMAIN f = DOMAIN d
    OBVIOUS
  <2>2. CashOut(d) = SumFunction(f)
    BY DEF CashOut
  <2> HIDE DEF f, d
  <2> QED
    BY <2>1, <2>2, SumOfFunction
<1>4. \A i \in DOMAIN d : f[i] \in Int
  <2> HIDE DEF d
  <2> QED
    BY <1>1, <1>2
<1>5. CashOut(d) \in Int
  <2> HIDE DEF f, d
  <2> QED
    BY <1>1, <1>3, <1>4, SumInt
<1>6. ASSUME \A i \in DOMAIN o : o[i] < 0
      PROVE  CashOut(d) <= 0
  <2>1. \A i \in DOMAIN d : d[i] <= 0
    <3>1. \A i \in DOMAIN o : d[i] <= 0
      BY <1>6, DownsizedSmaller
    <3> QED
      BY <1>1, <3>1
  <2>2. \A i \in DOMAIN d : h[i] \in Nat /\ h[i] = (-1) * f[i]
    <3>1. ASSUME NEW i \in DOMAIN d PROVE (-1) * (d[i] * price[i]) \in Nat
      <4> HIDE DEF d, f, h
      <4>1. d[i] \in Int /\ d[i] <= 0 /\ price[i] \in Nat
        BY <1>1, <1>2, <2>1
      <4> QED
        BY <4>1
    <3> QED
      BY <3>1
  <2>3. SumFunctionOnSet(h, DOMAIN d) \in Nat
    <3> HIDE DEF d, f, h
    <3> QED
      BY <1>1, <2>2, SumNat
  <2>4. SumFunctionOnSet(h, DOMAIN d) = (-1) * SumFunctionOnSet(f, DOMAIN d)
    <3> HIDE DEF d, f, h
    <3>1. (-1) \in Int
      OBVIOUS
    <3> QED
      BY <3>1, <1>1, <1>4, <2>2, SumTimes
  <2> HIDE DEF d, f, h
  <2> QED
    BY <1>3, <1>5, <2>3, <2>4
<1> QED
  BY <1>5, <1>6

(* An order cut down is the order, or has a single leg. *)
LEMMA CutIsSingle ==
    ASSUME NEW o \in Orders, FitsOrderLimit(o)
    PROVE  Downsized(o) = o \/ \E i \in DOMAIN o : DOMAIN o = {i}
<1>1. CASE Cardinality(DOMAIN o) = 1
  <2>1. \E i : DOMAIN o = {i}
    BY <1>1, Parts, FS_Singleton
  <2> QED
    BY <2>1
<1> QED
  BY <1>1 DEF FitsOrderLimit

(* What the gate has checked of a trade, and what the trade does. *)
Passed(o) ==
    /\ Equity > 0
    /\ DefinedRisk(o) /\ NoShortShares(o) /\ FitsOrderLimit(o)
    /\ FitsCash(Downsized(o))

Filled(o) == Fill(Downsized(o)) /\ InBounds(Downsized(o))

LEMMA TradeIs ==
    ASSUME Trade
    PROVE  \E o \in Orders : Passed(o) /\ Filled(o)
<1>1. PICK o \in Orders : \E sized \in Approved(o) : InBounds(sized) /\ Fill(sized)
  BY Zenon DEF Trade
<1>2. PICK sized \in Approved(o) : InBounds(sized) /\ Fill(sized)
  BY <1>1
<1>3. sized = Downsized(o) /\ Passed(o)
  BY Zenon DEF Approved, Passed
<1> QED
  BY <1>2, <1>3 DEF Filled

-----------------------------------------------------------------------------
(* The type invariant *)

LEMMA NextTyped == Marked /\ TypeOK /\ [Next]_vars => TypeOK'
<1> SUFFICES ASSUME Marked, TypeOK, [Next]_vars PROVE TypeOK'
  OBVIOUS
<1>0. MaxQty \in Nat /\ MaxSales \in Nat
  OBVIOUS
<1>1. CASE Trade
  <2>1. PICK o \in Orders : Filled(o)
    BY <1>1, TradeIs
  <2>2. pos' \in [Instruments -> Int]
    BY NextMarked DEF Marked
  <2>3. \A i \in Instruments : Abs(pos'[i]) <= MaxQty
    BY <2>1 DEF Filled, Fill, InBounds
  <2>4. \A i \in Instruments : pos'[i] \in -MaxQty..MaxQty
    BY <1>0, <2>2, <2>3 DEF Abs
  <2>5. cash' \in Int
    <3>1. cash' = cash - CashOut(Downsized(o))
      BY <2>1 DEF Filled, Fill
    <3>2. CashOut(Downsized(o)) \in Int
      BY CashOutInt
    <3> QED
      BY <3>1, <3>2 DEF TypeOK
  <2>6. sold' \in 0..MaxSales
    <3>1. \/ sold' = sold
          \/ sold' = sold + 1 /\ sold < MaxSales
      BY <2>1 DEF Filled, Fill, InBounds, TypeOK
    <3> QED
      BY <1>0, <3>1 DEF TypeOK
  <2>7. crossed' \in BOOLEAN
    BY Zenon, <2>1 DEF Filled, Fill
  <2>8. /\ book' = book /\ bookCash' = bookCash /\ price' = price
    BY <2>1 DEF Filled, Fill
  <2> QED
    BY <2>2, <2>4, <2>5, <2>6, <2>7, <2>8 DEF TypeOK
<1>2. CASE NextPass
  <2>1. PICK i \in Instruments : \E p \in Prices[i] : price' = [price EXCEPT ![i] = p]
    BY <1>2 DEF NextPass
  <2>2. \A j \in Instruments : price'[j] \in Prices[j]
    BY <2>1 DEF TypeOK, Marked
  <2>3. sold' \in 0..MaxSales
    BY <1>0, <1>2 DEF NextPass
  <2> QED
    BY <1>2, <2>2, <2>3 DEF NextPass, TypeOK
<1>3. CASE UNCHANGED vars
  BY <1>3 DEF vars, TypeOK
<1> QED
  BY <1>1, <1>2, <1>3 DEF Next

LEMMA InitTyped == Init => TypeOK
<1> SUFFICES ASSUME Init PROVE TypeOK
  OBVIOUS
<1>1. MaxQty \in Nat /\ StartCash \in Nat /\ MaxSales \in Nat
  OBVIOUS
<1>2. 0 \in -MaxQty..MaxQty /\ 0 \in 0..MaxSales
  BY <1>1
<1>3. crossed \in BOOLEAN
  BY DEF Init
<1>4. /\ pos \in [Instruments -> -MaxQty..MaxQty]
      /\ book = pos /\ cash \in Int /\ bookCash = cash
  BY <1>1, <1>2 DEF Init
<1>5. \A i \in Instruments : price[i] \in Prices[i]
  BY DEF Init, Marks
<1>6. sold \in 0..MaxSales
  BY <1>2 DEF Init
<1> QED
  BY <1>3, <1>4, <1>5, <1>6 DEF TypeOK

(* Positions, cash and prices keep their types whatever is ordered.        *)
THEOREM Typed == Spec => []TypeOK
<1>1. Init => Marked /\ TypeOK
  BY InitMarked, InitTyped
<1>2. Marked /\ TypeOK /\ [Next]_vars => Marked' /\ TypeOK'
  BY NextMarked, NextTyped
<1> QED
  BY <1>1, <1>2, PTL DEF Spec

-----------------------------------------------------------------------------
(* Uncovered shorts *)

(* What a group holds, net, and what an order changes of it. *)
Held(p, g)   == SumFunctionOnSet(p, g)
Delta(o)     == [i \in Instruments |-> IF i \in DOMAIN o THEN o[i] ELSE 0]
Change(o, g) == SumFunctionOnSet(Delta(o), g)

(* Shorts less longs is what the group holds, net. *)
LEMMA UncoveredIsNet ==
    ASSUME NEW g \in Groups, NEW p, \A c \in g : p[c] \in Int
    PROVE  /\ SumFunctionOnSet(p, g) \in Int
           /\ Uncovered(g, p) = AtLeast0(-SumFunctionOnSet(p, g))
<1> DEFINE short == [c \in g |-> AtLeast0(-p[c])]
           long == [c \in g |-> AtLeast0(p[c])]
<1>1. IsFiniteSet(g)
  BY Parts
<1>2. \A c \in g : p[c] \in Int /\ short[c] \in Int /\ long[c] = p[c] + short[c]
  <2>1. ASSUME NEW c \in g
        PROVE  AtLeast0(-p[c]) \in Int /\ AtLeast0(p[c]) = p[c] + AtLeast0(-p[c])
    <3>1. p[c] \in Int
      OBVIOUS
    <3> QED
      BY <3>1 DEF AtLeast0
  <2> QED
    BY <2>1
<1>3. DOMAIN short = g /\ DOMAIN long = g
  OBVIOUS
<1>4. Uncovered(g, p) = AtLeast0(SumFunction(short) - SumFunction(long))
  BY DEF Uncovered
<1> HIDE DEF short, long
<1>5. /\ SumFunctionOnSet(p, g) \in Int /\ SumFunctionOnSet(short, g) \in Int
      /\ SumFunctionOnSet(long, g)
             = SumFunctionOnSet(p, g) + SumFunctionOnSet(short, g)
  BY <1>1, <1>2, SumInt, SumPlus
<1>6. /\ SumFunction(short) = SumFunctionOnSet(short, g)
      /\ SumFunction(long) = SumFunctionOnSet(long, g)
  BY <1>3, SumOfFunction
<1>7. SumFunction(short) - SumFunction(long) = -SumFunctionOnSet(p, g)
  BY <1>5, <1>6
<1> QED
  BY <1>4, <1>5, <1>7

(* The group after an order is what it was and what the order changes.     *)
LEMMA UncoveredAfter ==
    ASSUME NEW p, \A i \in Instruments : p[i] \in Int,
           NEW g \in Groups, NEW o, \A i \in DOMAIN o : o[i] \in Int
    PROVE  /\ Held(p, g) \in Int /\ Change(o, g) \in Int
           /\ \A i \in Instruments : After(p, o)[i] \in Int
           /\ Uncovered(g, p) = AtLeast0(-Held(p, g))
           /\ Uncovered(g, After(p, o)) = AtLeast0(-(Held(p, g) + Change(o, g)))
<1>1. IsFiniteSet(g) /\ \A c \in g : c \in Instruments
  BY Parts
<1>2. \A i \in Instruments : /\ p[i] \in Int /\ Delta(o)[i] \in Int
                             /\ After(p, o)[i] = p[i] + Delta(o)[i]
  BY DEF Delta, After
<1>3. \A i \in Instruments : After(p, o)[i] \in Int
  BY <1>2
<1>4. Held(p, g) \in Int /\ Change(o, g) \in Int
  BY <1>1, <1>2, SumInt DEF Held, Change
<1>5. SumFunctionOnSet(After(p, o), g) = Held(p, g) + Change(o, g)
  BY <1>1, <1>2, SumPlus DEF Held, Change
<1>6. Uncovered(g, p) = AtLeast0(-Held(p, g))
  BY <1>1, <1>2, UncoveredIsNet DEF Held
<1>7. Uncovered(g, After(p, o)) = AtLeast0(-SumFunctionOnSet(After(p, o), g))
  BY <1>1, <1>3, UncoveredIsNet
<1> QED
  BY <1>3, <1>4, <1>5, <1>6, <1>7

LEMMA UncoveredNat ==
    ASSUME NEW p, \A i \in Instruments : p[i] \in Int, NEW g \in Groups
    PROVE  Uncovered(g, p) \in Nat
<1>1. SumFunctionOnSet(p, g) \in Int /\ Uncovered(g, p) = AtLeast0(-SumFunctionOnSet(p, g))
  BY Parts, UncoveredIsNet
<1> QED
  BY <1>1 DEF AtLeast0

(* A group of which nothing was sold holds, net, no less than the book has.*)
LEMMA HeldAtLeast ==
    ASSUME Marked, NEW g \in Groups, \A c \in g : book[c] <= pos[c]
    PROVE  Held(book, g) <= Held(pos, g)
<1>1. IsFiniteSet(g) /\ \A c \in g : c \in Instruments
  BY Parts
<1>2. \A c \in g : book[c] \in Int /\ pos[c] \in Int /\ book[c] <= pos[c]
  BY <1>1 DEF Marked
<1> QED
  BY <1>1, <1>2, SumAtMost DEF Held

(* An order changes nothing of a group it does not touch, and of the group *)
(* of its only leg as much as that leg.                                    *)
LEMMA ChangeOf ==
    ASSUME NEW g \in Groups, NEW o, \A i \in DOMAIN o : o[i] \in Int
    PROVE  /\ g \cap DOMAIN o = {} => Change(o, g) = 0
           /\ \A i \in g : DOMAIN o = {i} => Change(o, g) = o[i]
<1>1. IsFiniteSet(g) /\ \A c \in g : c \in Instruments
  BY Parts
<1>2. ASSUME g \cap DOMAIN o = {} PROVE Change(o, g) = 0
  <2>1. \A c \in g : Delta(o)[c] = 0
    BY <1>1, <1>2 DEF Delta
  <2> QED
    BY <1>1, <2>1, SumZero DEF Change
<1>3. ASSUME NEW i \in g, DOMAIN o = {i} PROVE Change(o, g) = o[i]
  <2>1. Delta(o)[i] = o[i] /\ \A c \in g \ {i} : Delta(o)[c] = 0
    BY <1>1, <1>3 DEF Delta
  <2>2. IsFiniteSet(g \ {i})
    BY <1>1, FS_RemoveElement
  <2>3. SumFunctionOnSet(Delta(o), g \ {i}) = 0
    BY <2>1, <2>2, SumZero
  <2>4. o[i] \in Int /\ \A c \in g : Delta(o)[c] \in Int
    BY <1>3, <2>1
  <2>5. Change(o, g) = Delta(o)[i] + SumFunctionOnSet(Delta(o), g \ {i})
    BY <1>1, <2>4, SumRemove DEF Change
  <2> QED
    BY <2>1, <2>3, <2>4, <2>5
<1> QED
  BY <1>2, <1>3

(* A trade before which its pass sold none of a group leaves the group no  *)
(* more uncovered than it was, or the group was judged, on at least as many*)
(* shorts as the trade leaves uncovered.                                   *)
LEMMA CoveredOrJudged ==
    ASSUME Marked, NEW o \in Orders, FitsOrderLimit(o), NEW g \in Groups,
           \A c \in g : book[c] <= pos[c]
    PROVE  \/ Uncovered(g, After(pos, Downsized(o))) <= Uncovered(g, pos)
           \/ /\ g \in Judged(o)
              /\ Uncovered(g, After(pos, Downsized(o))) <= Uncovered(g, After(book, o))
<1> DEFINE d == Downsized(o)
           a == Held(pos, g)
           b == Held(book, g)
           U0 == Uncovered(g, pos)
           Ub == Uncovered(g, book)
           U1 == Uncovered(g, After(book, o))
           Ud == Uncovered(g, After(pos, d))
<1>0. /\ \A i \in Instruments : pos[i] \in Int
      /\ \A i \in Instruments : book[i] \in Int
  BY DEF Marked
<1>1. /\ DOMAIN d = DOMAIN o
      /\ \A i \in DOMAIN o : /\ d[i] \in Int /\ o[i] \in Int
                             /\ o[i] > 0 => 0 <= d[i] /\ d[i] <= o[i]
                             /\ o[i] < 0 => o[i] <= d[i] /\ d[i] <= 0
                             /\ o[i] # 0
  <2>1. DOMAIN d = DOMAIN o
    BY DEF Downsized
  <2> HIDE DEF d
  <2> QED
    BY <2>1, DownsizedSmaller DEF d
<1>2. /\ a \in Int /\ b \in Int /\ b <= a
      /\ Change(o, g) \in Int /\ Change(d, g) \in Int
      /\ U0 = AtLeast0(-a)
      /\ Ub = AtLeast0(-b)
      /\ U1 = AtLeast0(-(b + Change(o, g)))
      /\ Ud = AtLeast0(-(a + Change(d, g)))
  <2>1. b <= a
    BY HeldAtLeast
  <2>2. /\ b \in Int /\ Ub = AtLeast0(-b)
        /\ Change(o, g) \in Int /\ U1 = AtLeast0(-(b + Change(o, g)))
    BY <1>0, <1>1, UncoveredAfter
  <2>3. /\ a \in Int /\ U0 = AtLeast0(-a)
        /\ Change(d, g) \in Int /\ Ud = AtLeast0(-(a + Change(d, g)))
    <3> HIDE DEF d
    <3> QED
      BY <1>0, <1>1, UncoveredAfter
  <2> QED
    BY <2>1, <2>2, <2>3
<1>3. g \cap DOMAIN o # {} /\ U1 > 0 /\ U1 >= Ub => g \in Judged(o)
  BY DEF Judged
<1>4. /\ g \cap DOMAIN o = {} => Change(o, g) = 0 /\ Change(d, g) = 0
      /\ \A i \in g : DOMAIN o = {i} => Change(o, g) = o[i] /\ Change(d, g) = d[i]
  <2> HIDE DEF d
  <2> QED
    BY <1>1, ChangeOf
<1>5. CASE d = o
  <2>1. Change(d, g) = Change(o, g)
    BY <1>5
  <2> HIDE DEF d, a, b, U0, Ub, U1, Ud
  <2>2. CASE Change(o, g) >= 0
    <3>1. Ud <= U0
      BY <1>2, <2>1, <2>2 DEF AtLeast0
    <3> QED
      BY <3>1 DEF d, U0, Ud
  <2>3. CASE Change(o, g) < 0
    <3>1. g \cap DOMAIN o # {}
      BY <1>4, <2>3
    <3>2. U1 >= Ub /\ Ud <= U1 /\ (~(U1 > 0) => Ud <= U0)
      BY <1>2, <2>1, <2>3 DEF AtLeast0
    <3> QED
      BY <1>3, <3>1, <3>2 DEF d, U0, Ud, U1
  <2> QED
    BY <1>2, <2>2, <2>3
<1>6. CASE \E i \in DOMAIN o : DOMAIN o = {i}
  <2>1. PICK i \in DOMAIN o : DOMAIN o = {i}
    BY <1>6
  <2> HIDE DEF d, a, b, U0, Ub, U1, Ud
  <2>2. Ud <= U0 \/ (g \in Judged(o) /\ Ud <= U1)
    <3>1. CASE i \notin g
      BY <1>2, <1>4, <2>1, <3>1 DEF AtLeast0
    <3>2. CASE i \in g /\ o[i] > 0
      BY <1>1, <1>2, <1>4, <2>1, <3>2 DEF AtLeast0
    <3>3. CASE i \in g /\ o[i] < 0
      <4>1. Ud <= U1 /\ Ub <= U1 /\ (~(U1 > 0) => Ud <= U0)
        BY <1>1, <1>2, <1>4, <2>1, <3>3 DEF AtLeast0
      <4>2. g \cap DOMAIN o # {}
        BY <2>1, <3>3
      <4> QED
        BY <1>3, <4>1, <4>2
    <3> QED
      BY <1>1, <3>1, <3>2, <3>3
  <2> QED
    BY <2>2 DEF d, U0, U1, Ud
<1> QED
  BY <1>5, <1>6, CutIsSingle

-----------------------------------------------------------------------------
(* Calls *)

LEMMA NextCovered ==
    ASSUME Marked, [Next]_vars, NEW g \in Groups,
           RightOf(g) = "call", pos'[Shares] = pos[Shares],
           \A i \in g \cup {Shares} : pos[i] >= book[i]
    PROVE  Naked(g, pos') <= Naked(g, pos)
<1>0. /\ \A i \in Instruments : pos[i] \in Int
      /\ \A i \in Instruments : book[i] \in Int
      /\ Shares \in Instruments
  BY DEF Marked
<1>1. CASE Trade
  <2>1. PICK o \in Orders : Passed(o) /\ Filled(o)
    BY <1>1, TradeIs
  <2> DEFINE d == Downsized(o)
             calls == {h \in Judged(o) : RightOf(h) = "call"}
             u == [h \in calls |-> Uncovered(h, After(book, o))]
             U0 == Uncovered(g, pos)
             U1 == Uncovered(g, After(book, o))
             Ud == Uncovered(g, After(pos, d))
  <2>2. /\ \A i \in DOMAIN o : o[i] \in Int
        /\ DOMAIN d = DOMAIN o /\ \A i \in DOMAIN d : d[i] \in Int
    <3>1. DOMAIN d = DOMAIN o
      BY DEF Downsized
    <3> HIDE DEF d
    <3> QED
      BY <3>1, DownsizedSmaller DEF d
  <2>3. /\ U0 \in Nat /\ Ud \in Nat
        /\ \A h \in Groups : Uncovered(h, After(book, o)) \in Nat
    <3>1. \A i \in Instruments : After(book, o)[i] \in Int
      BY <1>0, <2>2, UncoveredAfter
    <3>2. \A i \in Instruments : After(pos, d)[i] \in Int
      <4> HIDE DEF d
      <4> QED
        BY <1>0, <2>2, UncoveredAfter
    <3>3. Ud \in Nat
      BY <3>2, UncoveredNat
    <3> QED
      BY <1>0, <3>1, <3>3, UncoveredNat
  <2>4. /\ pos[Shares] \in Int /\ book[Shares] \in Int
        /\ book[Shares] <= pos[Shares]
    BY <1>0
  <2>5. Naked(g, pos) = AtLeast0(U0 - pos[Shares])
    BY DEF Naked
  <2>6. Naked(g, pos') = AtLeast0(Ud - pos[Shares])
    BY <2>1 DEF Naked, Filled, Fill
  <2>7. Ud <= U0 \/ Ud <= pos[Shares]
    <3>1. CASE Ud <= U0
      BY <3>1
    <3>2. CASE g \in Judged(o) /\ Ud <= U1
      <4>1. g \in calls /\ SumFunction(u) <= book[Shares]
        BY <2>1, <3>2 DEF Passed, DefinedRisk
      <4>2. IsFiniteSet(calls) /\ \A h \in calls : u[h] \in Nat
        <5>1. calls \subseteq Groups
          BY DEF Judged
        <5>2. IsFiniteSet(calls)
          BY <5>1, Parts, FS_Subset
        <5> QED
          BY <2>3, <5>1, <5>2
      <4>3. u[g] = U1 /\ DOMAIN u = calls
        BY <4>1
      <4> HIDE DEF calls, u, U1, Ud, U0
      <4>4. SumFunction(u) = SumFunctionOnSet(u, calls)
        BY <4>3, SumOfFunction
      <4>5. u[g] <= SumFunctionOnSet(u, calls)
        BY <4>1, <4>2, SumOfOne
      <4>6. SumFunctionOnSet(u, calls) \in Nat
        BY <4>2, SumNat
      <4>7. U1 \in Nat
        BY <4>1, <4>2, <4>3
      <4> QED
        BY <2>3, <2>4, <3>2, <4>1, <4>3, <4>4, <4>5, <4>6, <4>7
    <3>3. FitsOrderLimit(o)
      BY <2>1 DEF Passed
    <3>4. \A c \in g : book[c] <= pos[c]
      BY <1>0, Parts
    <3> QED
      BY <3>1, <3>2, <3>3, <3>4, CoveredOrJudged
  <2> HIDE DEF U0, Ud
  <2> QED
    BY <2>3, <2>4, <2>5, <2>6, <2>7 DEF AtLeast0
<1>2. CASE NextPass \/ UNCHANGED vars
  <2>1. pos' = pos
    BY <1>2 DEF NextPass, vars
  <2>2. Naked(g, pos') = Naked(g, pos)
    BY <2>1
  <2>3. Naked(g, pos) \in Int
    <3>1. Uncovered(g, pos) \in Nat
      BY <1>0, UncoveredNat
    <3> QED
      BY <1>0, <3>1 DEF Naked, AtLeast0
  <2> QED
    BY <2>2, <2>3
<1> QED
  BY <1>1, <1>2 DEF Next

(* No trade that leaves the shares alone makes a call group more naked,    *)
(* whatever its legs and however many groups it touches, if it is the      *)
(* first of its pass to sell of the group or the shares.                   *)
THEOREM TradesStayCovered == Spec => OptionTradesStayCovered
<1> DEFINE Step ==
        \A g \in Groups :
            RightOf(g) = "call" /\ pos'[Shares] = pos[Shares]
            /\ (\A i \in g \cup {Shares} : pos[i] >= book[i])
                => Naked(g, pos') <= Naked(g, pos)
<1>1. Init => Marked
  BY InitMarked
<1>2. Marked /\ [Next]_vars => Marked'
  BY NextMarked
<1>3. Marked /\ [Next]_vars => [Step]_vars
  BY NextCovered
<1> HIDE DEF Step
<1>4. Spec => [][Step]_vars
  BY <1>1, <1>2, <1>3, PTL DEF Spec
<1> QED
  BY <1>4 DEF OptionTradesStayCovered, Step

-----------------------------------------------------------------------------
(* Collateral *)

(* Strikes of the short puts of the account, and of the contracts of a     *)
(* group.                                                                  *)
ShortPuts(p)  == {c \in Contracts : Right[c] = "put" /\ p[c] < 0}
StrikeOf(p)   == [c \in Contracts |-> Strike[c] * Abs(p[c])]
Secured(g, p) == SumFunctionOnSet(StrikeOf(p), g)

LEMMA StrikeTerms ==
    ASSUME NEW p, \A c \in Contracts : p[c] \in Int
    PROVE  /\ \A c \in Contracts : StrikeOf(p)[c] \in Nat
           /\ \A c \in Contracts : p[c] = 0 => StrikeOf(p)[c] = 0
           /\ Committed(p) = SumFunctionOnSet(StrikeOf(p), ShortPuts(p))
           /\ Committed(p) \in Nat
           /\ \A g \in Groups :
                  /\ SumFunction([c \in g |-> Strike[c] * Abs(p[c])]) = Secured(g, p)
                  /\ Secured(g, p) \in Nat
<1>1. ASSUME NEW c \in Contracts
      PROVE  /\ StrikeOf(p)[c] = Strike[c] * Abs(p[c]) /\ StrikeOf(p)[c] \in Nat
             /\ p[c] = 0 => StrikeOf(p)[c] = 0
  <2>1. StrikeOf(p)[c] = Strike[c] * Abs(p[c])
    BY DEF StrikeOf
  <2>2. Strike[c] \in Nat /\ p[c] \in Int
    OBVIOUS
  <2>3. Abs(p[c]) \in Nat /\ (p[c] = 0 => Abs(p[c]) = 0)
    BY <2>2 DEF Abs
  <2> QED
    BY <2>1, <2>2, <2>3, TimesNat
<1>2. ASSUME NEW S, IsFiniteSet(S), \A c \in S : c \in Contracts
      PROVE  /\ SumFunction([c \in S |-> Strike[c] * Abs(p[c])])
                    = SumFunctionOnSet(StrikeOf(p), S)
             /\ SumFunctionOnSet(StrikeOf(p), S) \in Nat
  <2> DEFINE f == [c \in S |-> Strike[c] * Abs(p[c])]
  <2>1. \A c \in S : f[c] = StrikeOf(p)[c]
    BY <1>1, <1>2
  <2>2. DOMAIN f = S
    OBVIOUS
  <2>3. SumFunctionOnSet(StrikeOf(p), S) \in Nat
    BY <1>1, <1>2, SumNat
  <2> HIDE DEF f
  <2>4. SumFunction(f) = SumFunctionOnSet(StrikeOf(p), S)
    <3>1. SumFunctionOnSet(f, S) = SumFunctionOnSet(StrikeOf(p), S)
      BY <1>2, <2>1, SumSame
    <3>2. SumFunction(f) = SumFunctionOnSet(f, S)
      BY <2>2, SumOfFunction
    <3> QED
      BY <3>1, <3>2
  <2> QED
    BY <2>3, <2>4 DEF f
<1>3. IsFiniteSet(ShortPuts(p)) /\ \A c \in ShortPuts(p) : c \in Contracts
  <2>1. ShortPuts(p) \subseteq Contracts
    BY DEF ShortPuts
  <2> QED
    BY <2>1, Parts, FS_Subset
<1>4. Committed(p) = SumFunction([c \in ShortPuts(p) |-> Strike[c] * Abs(p[c])])
  BY DEF Committed, ShortPuts
<1>5. \A g \in Groups : IsFiniteSet(g) /\ \A c \in g : c \in Contracts
  BY Parts
<1>6. /\ Committed(p) = SumFunctionOnSet(StrikeOf(p), ShortPuts(p))
      /\ Committed(p) \in Nat
  BY <1>2, <1>3, <1>4
<1>7. \A g \in Groups :
          /\ SumFunction([c \in g |-> Strike[c] * Abs(p[c])]) = Secured(g, p)
          /\ Secured(g, p) \in Nat
  BY <1>2, <1>5 DEF Secured
<1> QED
  BY <1>1, <1>6, <1>7

(* The collateral of the book is at least that of a group of short puts.   *)
LEMMA GroupInBook ==
    ASSUME NEW p, \A c \in Contracts : p[c] \in Int,
           NEW g \in Groups, RightOf(g) = "put", \A c \in g : p[c] <= 0
    PROVE  Secured(g, p) <= Committed(p)
<1>1. IsFiniteSet(g) /\ IsFiniteSet(ShortPuts(p))
  <2>1. ShortPuts(p) \subseteq Contracts
    BY DEF ShortPuts
  <2> QED
    BY <2>1, Parts, FS_Subset
<1>2. \A c \in g \cup ShortPuts(p) : StrikeOf(p)[c] \in Nat
  BY Parts, StrikeTerms DEF ShortPuts
<1>3. \A c \in g \ ShortPuts(p) : StrikeOf(p)[c] = 0
  <2> SUFFICES ASSUME NEW c \in g, c \notin ShortPuts(p)
               PROVE  StrikeOf(p)[c] = 0
    OBVIOUS
  <2>1. c \in Contracts /\ Right[c] = "put"
    BY Parts
  <2>2. p[c] \in Int /\ p[c] <= 0 /\ ~(p[c] < 0)
    BY <2>1 DEF ShortPuts
  <2>3. p[c] = 0
    BY <2>2
  <2> QED
    BY <2>1, <2>3, StrikeTerms
<1>4. SumFunctionOnSet(StrikeOf(p), g) <= SumFunctionOnSet(StrikeOf(p), ShortPuts(p))
  BY <1>1, <1>2, <1>3, SumOfCover
<1> QED
  BY <1>4, StrikeTerms DEF Secured

(* A trade that costs money costs no more than what the book has in cash   *)
(* beyond the collateral of its puts.                                      *)
LEMMA SpendsFreeCash ==
    ASSUME Marked, bookCash \in Int, NEW o \in Orders, Passed(o),
           CashOut(Downsized(o)) > 0
    PROVE  CashOut(Downsized(o)) <= bookCash - Committed(book)
<1> DEFINE spent == CashOut(Downsized(o))
           worth == [i \in Instruments |-> book[i] * price[i]]
<1>1. Equity \in Int /\ Equity > 0
  <2>1. \A i \in Instruments : worth[i] \in Int
    BY DEF Marked
  <2>2. DOMAIN worth = Instruments /\ Equity = bookCash + SumFunction(worth)
    BY DEF Equity
  <2> HIDE DEF worth
  <2>3. SumFunctionOnSet(worth, Instruments) \in Int
    BY <2>1, Parts, SumInt
  <2>4. SumFunction(worth) = SumFunctionOnSet(worth, Instruments)
    BY <2>2, SumOfFunction
  <2>5. Equity > 0
    BY DEF Passed
  <2> QED
    BY <2>2, <2>3, <2>4, <2>5
<1>2. (bookCash - Committed(book) - spent) * 100 >= BufferPct * Equity
  BY DEF Passed, FitsCash
<1>3. BufferPct * Equity \in Nat
  <2>1. Equity \in Nat /\ BufferPct \in Nat
    BY <1>1
  <2> QED
    BY <2>1, TimesNat
<1>4. spent \in Int
  BY CashOutInt
<1>5. Committed(book) \in Int
  <2>1. \A c \in Contracts : book[c] \in Int
    BY DEF Marked
  <2> QED
    BY <2>1, StrikeTerms
<1> HIDE DEF spent
<1>6. spent <= bookCash - Committed(book)
  BY <1>2, <1>3, <1>4, <1>5
<1> QED
  BY <1>6 DEF spent

LEMMA NextSpending ==
    ASSUME Marked, TypeOK, [Next]_vars,
           cash' < cash, Committed(pos') <= Committed(pos),
           Free(bookCash, book) <= Free(cash, pos)
    PROVE  cash' >= Committed(pos')
<1>1. Trade
  <2>1. cash \in Int
    BY DEF TypeOK
  <2> QED
    BY <2>1 DEF Next, NextPass, vars
<1>2. PICK o \in Orders : Passed(o) /\ Filled(o)
  BY <1>1, TradeIs
<1> DEFINE spent == CashOut(Downsized(o))
<1>3. cash \in Int /\ bookCash \in Int /\ spent \in Int
  BY CashOutInt DEF TypeOK
<1>4. cash' = cash - spent
  BY <1>2 DEF Filled, Fill
<1>5. spent > 0 => spent <= bookCash - Committed(book)
  BY <1>2, <1>3, SpendsFreeCash
<1>6. /\ Committed(pos) \in Int /\ Committed(pos') \in Int
      /\ Committed(book) \in Int
  <2>1. \A c \in Contracts : pos[c] \in Int
    BY DEF Marked
  <2>2. \A c \in Contracts : pos'[c] \in Int
    BY NextMarked DEF Marked
  <2>3. \A c \in Contracts : book[c] \in Int
    BY DEF Marked
  <2> QED
    BY <2>1, <2>2, <2>3, StrikeTerms
<1>7. bookCash - Committed(book) <= cash - Committed(pos)
  BY DEF Free
<1> HIDE DEF spent
<1>8. spent > 0
  BY <1>3, <1>4
<1> QED
  BY <1>3, <1>4, <1>5, <1>6, <1>7, <1>8

(* Money is never spent out of the collateral of the put book, whatever    *)
(* the strikes, the prices and the buffer, unless the pass has already left*)
(* less free cash than its book shows.                                     *)
THEOREM CollateralKept == Spec => SpendingKeepsCollateral
<1> DEFINE Step == cash' < cash /\ Committed(pos') <= Committed(pos)
                       /\ Free(bookCash, book) <= Free(cash, pos)
                       => cash' >= Committed(pos')
<1>1. Init => Marked /\ TypeOK
  BY InitMarked, InitTyped
<1>2. Marked /\ TypeOK /\ [Next]_vars => Marked' /\ TypeOK'
  BY NextMarked, NextTyped
<1>3. Marked /\ TypeOK /\ [Next]_vars => [Step]_vars
  BY NextSpending
<1> HIDE DEF Step
<1>4. Spec => [][Step]_vars
  BY <1>1, <1>2, <1>3, PTL DEF Spec
<1> QED
  BY <1>4 DEF SpendingKeepsCollateral, Step

-----------------------------------------------------------------------------
(* Put groups *)

LEMMA WriterCollects ==
    ASSUME Marked, TypeOK, WritersSell, NEW o \in Orders, FitsOrderLimit(o),
           WritesPut(o)
    PROVE  CashOut(Downsized(o)) <= 0
<1>1. CASE Downsized(o) = o
  <2>1. price \in Marks
    BY DEF Marks, TypeOK, Marked
  <2>2. SumFunction([i \in DOMAIN o |-> o[i] * price[i]]) <= 0
    BY <2>1 DEF WritersSell
  <2> QED
    BY <1>1, <2>2 DEF CashOut
<1>2. CASE \E i \in DOMAIN o : DOMAIN o = {i}
  <2>1. \A i \in DOMAIN o : o[i] < 0
    BY <1>2 DEF WritesPut
  <2> QED
    BY <2>1, CashOutInt
<1> QED
  BY <1>1, <1>2, CutIsSingle

(* What a trade does to one instrument. *)
LEMMA LegOf ==
    ASSUME Marked, NEW o \in Orders, Filled(o), NEW i \in Instruments
    PROVE  /\ pos[i] \in Int /\ pos'[i] \in Int
           /\ i \notin DOMAIN o => pos'[i] = pos[i]
           /\ i \in DOMAIN o => /\ o[i] \in Int
                                /\ o[i] >= 0 => pos'[i] >= pos[i]
                                /\ o[i] <= 0 => pos'[i] <= pos[i]
<1> DEFINE d == Downsized(o)
<1>1. DOMAIN d = DOMAIN o
  BY DEF Downsized
<1>2. pos'[i] = pos[i] + IF i \in DOMAIN o THEN d[i] ELSE 0
  BY <1>1 DEF Filled, Fill, After
<1>3. i \in DOMAIN o => /\ d[i] \in Int /\ o[i] \in Int /\ o[i] # 0
                        /\ o[i] > 0 => 0 <= d[i]
                        /\ o[i] < 0 => d[i] <= 0
  BY DownsizedSmaller
<1>4. pos[i] \in Int
  BY DEF Marked
<1> HIDE DEF d
<1> QED
  BY <1>2, <1>3, <1>4

(* An order that writes puts as it goes out wrote them as it was sent, and *)
(* one that writes none lowers none.                                       *)
LEMMA DownsizedWrites ==
    ASSUME Marked, NEW o \in Orders, WritesPut(Downsized(o))
    PROVE  WritesPut(o)
<1> DEFINE d == Downsized(o)
<1>1. DOMAIN d = DOMAIN o
  BY DEF Downsized
<1>2. PICK c \in DOMAIN d \cap Contracts : Right[c] = "put" /\ d[c] < 0
  BY DEF WritesPut
<1>3. o[c] \in Int /\ o[c] # 0 /\ d[c] \in Int /\ (o[c] > 0 => 0 <= d[c])
  BY <1>1, <1>2, DownsizedSmaller
<1> HIDE DEF d
<1>4. o[c] < 0
  BY <1>2, <1>3
<1> QED
  BY <1>1, <1>2, <1>4 DEF WritesPut

LEMMA KeepsPuts ==
    ASSUME Marked, NEW o \in Orders, Filled(o), ~WritesPut(Downsized(o)),
           NEW c \in Contracts, Right[c] = "put"
    PROVE  pos[c] <= pos'[c]
<1> DEFINE d == Downsized(o)
<1>1. DOMAIN d = DOMAIN o
  BY DEF Downsized
<1>2. pos'[c] = pos[c] + IF c \in DOMAIN o THEN d[c] ELSE 0
  BY <1>1 DEF Filled, Fill, After
<1>3. c \in DOMAIN o => d[c] \in Int
  BY DownsizedSmaller
<1>4. c \in DOMAIN o => ~(d[c] < 0)
  BY <1>1 DEF WritesPut
<1>5. pos[c] \in Int
  BY DEF Marked
<1> HIDE DEF d
<1> QED
  BY <1>2, <1>3, <1>4, <1>5

(* What a group of short puts needs is at most what it needed, when no leg *)
(* of it was sold.                                                         *)
LEMMA SmallerGroup ==
    ASSUME NEW g \in Groups, NEW p, NEW q,
           \A c \in Contracts : p[c] \in Int /\ q[c] \in Int,
           \A c \in g : q[c] <= 0 /\ p[c] <= q[c]
    PROVE  Secured(g, q) <= Secured(g, p)
<1>1. IsFiniteSet(g) /\ \A c \in g : c \in Contracts
  BY Parts
<1>2. \A c \in g : /\ StrikeOf(p)[c] \in Int /\ StrikeOf(q)[c] \in Int
                   /\ StrikeOf(q)[c] <= StrikeOf(p)[c]
  <2> SUFFICES ASSUME NEW c \in g
               PROVE  /\ StrikeOf(p)[c] \in Int /\ StrikeOf(q)[c] \in Int
                      /\ StrikeOf(q)[c] <= StrikeOf(p)[c]
    OBVIOUS
  <2>1. /\ c \in Contracts /\ Strike[c] \in Nat
        /\ p[c] \in Int /\ q[c] \in Int /\ q[c] <= 0 /\ p[c] <= q[c]
    BY <1>1
  <2>2. Abs(p[c]) \in Nat /\ Abs(q[c]) \in Nat /\ Abs(q[c]) <= Abs(p[c])
    BY <2>1 DEF Abs
  <2>3. Strike[c] * Abs(q[c]) <= Strike[c] * Abs(p[c])
    BY <2>1, <2>2, TimesMore
  <2>4. /\ StrikeOf(p)[c] = Strike[c] * Abs(p[c])
        /\ StrikeOf(q)[c] = Strike[c] * Abs(q[c])
    BY <2>1 DEF StrikeOf
  <2>5. StrikeOf(p)[c] \in Nat /\ StrikeOf(q)[c] \in Nat
    BY <2>1, StrikeTerms
  <2> QED
    BY <2>3, <2>4, <2>5
<1> QED
  BY <1>1, <1>2, SumAtMost DEF Secured

(* What a put group reserves is a strike for every uncovered contract, no  *)
(* less than that of any short in the book or written.                            *)
LEMMA ReserveIs ==
    ASSUME NEW o \in Orders, NEW g \in Groups, Uncovered(g, After(book, o)) \in Nat
    PROVE  \E m \in Nat :
               /\ Reserve(g, o) = m * Uncovered(g, After(book, o))
               /\ \A c \in g : book[c] < 0 \/ (c \in DOMAIN o /\ o[c] < 0)
                                   => Strike[c] <= m
<1> DEFINE short == {c \in g : book[c] < 0 \/ (c \in DOMAIN o /\ o[c] < 0)}
           strikes == {Strike[c] : c \in short}
           U1 == Uncovered(g, After(book, o))
<1>0. IsFiniteSet(g) /\ \A c \in g : c \in Contracts /\ Strike[c] \in Nat
  BY Parts
<1>1. \E m \in Nat : Reserve(g, o) = m * U1 /\ \A c \in short : Strike[c] <= m
  <2>1. CASE short = {}
    <3>1. Reserve(g, o) = 0
      BY <2>1 DEF Reserve
    <3>2. 0 * U1 = 0
      OBVIOUS
    <3> HIDE DEF short
    <3> QED
      BY <2>1, <3>1, <3>2
  <2>2. CASE short # {}
    <3>1. Reserve(g, o) = Max(strikes) * U1
      BY <2>2 DEF Reserve
    <3>2. IsFiniteSet(strikes) /\ strikes # {} /\ \A x \in strikes : x \in Nat
      <4>1. IsFiniteSet(short)
        BY <1>0, FS_Subset
      <4>2. IsFiniteSet(strikes)
        <5> DEFINE f == [c \in short |-> Strike[c]]
        <5>1. f \in Surjection(short, strikes)
          BY DEF Surjection
        <5> HIDE DEF short, strikes, f
        <5> QED
          BY <4>1, <5>1, FS_Surjection
      <4> QED
        BY <1>0, <2>2, <4>2
    <3>3. Max(strikes) \in strikes /\ \A x \in strikes : x <= Max(strikes)
      <4> HIDE DEF strikes
      <4>1. \A x \in strikes : x \in Int
        BY <3>2
      <4> QED
        BY <3>2, <4>1, MaxOf
    <3>4. \A c \in short : Strike[c] <= Max(strikes)
      BY <3>3
    <3> HIDE DEF short, strikes
    <3> QED
      BY <3>1, <3>2, <3>3, <3>4
  <2> QED
    BY <2>1, <2>2
<1> QED
  BY <1>1

(* A group left without longs has as many uncovered contracts as shorts,   *)
(* and needs no more than the strike of its reserve for each of them.      *)
LEMMA ReserveCovers ==
    ASSUME Marked, NEW o \in Orders, Filled(o), NEW g \in Groups,
           \A c \in g : pos'[c] <= 0 /\ book[c] <= pos[c], Uncovered(g, After(book, o)) \in Nat
    PROVE  \E m \in Nat : /\ Reserve(g, o) = m * Uncovered(g, After(book, o))
                          /\ Secured(g, pos') <= m * Uncovered(g, pos')
                          /\ Uncovered(g, pos') \in Nat
<1> DEFINE short == {c \in g : book[c] < 0 \/ (c \in DOMAIN o /\ o[c] < 0)}
           size == [c \in g |-> (-1) * pos'[c]]
           U1 == Uncovered(g, After(book, o))
           Ud == Uncovered(g, pos')
<1>1. IsFiniteSet(g) /\ \A c \in g : c \in Contracts /\ c \in Instruments
  BY Parts
<1>2. \A c \in g : /\ pos[c] \in Int /\ pos'[c] \in Int /\ pos'[c] <= 0
                   /\ book[c] \in Int /\ book[c] <= pos[c] /\ Strike[c] \in Nat
  BY <1>1, LegOf DEF Marked
<1>3. \A c \in g : pos'[c] # 0 => c \in short
  BY <1>1, <1>2, LegOf
<1>4. PICK m \in Nat : /\ Reserve(g, o) = m * U1
                       /\ \A c \in short : Strike[c] <= m
  BY ReserveIs
<1>5. Ud \in Nat /\ Ud = SumFunctionOnSet(size, g)
  <2>1. \A c \in g : size[c] \in Nat /\ size[c] = (-1) * pos'[c]
    BY <1>2
  <2>2. /\ SumFunctionOnSet(pos', g) \in Int
        /\ Ud = AtLeast0(-SumFunctionOnSet(pos', g))
    BY <1>2, UncoveredIsNet
  <2>3. \A c \in g : pos'[c] \in Int
    BY <1>2
  <2> HIDE DEF size, Ud
  <2>4. (-1) \in Int
    OBVIOUS
  <2>5. SumFunctionOnSet(size, g) = (-1) * SumFunctionOnSet(pos', g)
    BY <1>1, <2>1, <2>3, <2>4, SumTimes
  <2>6. SumFunctionOnSet(size, g) \in Nat
    BY <1>1, <2>1, SumNat
  <2> QED
    BY <2>2, <2>5, <2>6 DEF AtLeast0
<1>6. Secured(g, pos') <= m * Ud
  <2> DEFINE most == [c \in g |-> m * size[c]]
  <2>1. ASSUME NEW c \in g
        PROVE  /\ size[c] \in Int /\ most[c] = m * size[c] /\ most[c] \in Int
               /\ StrikeOf(pos')[c] \in Int /\ StrikeOf(pos')[c] <= most[c]
    <3>1. /\ pos'[c] \in Int /\ pos'[c] <= 0 /\ Strike[c] \in Nat
          /\ size[c] = -pos'[c] /\ most[c] = m * size[c]
      BY <1>2
    <3>2. /\ StrikeOf(pos')[c] = Strike[c] * Abs(pos'[c])
          /\ StrikeOf(pos')[c] \in Nat
      <4>1. \A k \in Contracts : pos'[k] \in Int
        BY LegOf
      <4>2. StrikeOf(pos')[c] = Strike[c] * Abs(pos'[c])
        BY <1>1 DEF StrikeOf
      <4> QED
        BY <1>1, <4>1, <4>2, StrikeTerms
    <3>3. Abs(pos'[c]) = size[c] /\ size[c] \in Nat
      BY <3>1 DEF Abs
    <3>4. CASE pos'[c] = 0
      <4>1. \A k \in Contracts : pos'[k] \in Int
        BY LegOf
      <4>2. StrikeOf(pos')[c] = 0
        BY <1>1, <3>4, <4>1, StrikeTerms
      <4> HIDE DEF size, most
      <4>3. m * size[c] \in Nat
        BY <3>3, TimesNat
      <4> QED
        BY <3>1, <3>3, <4>2, <4>3
    <3>5. CASE pos'[c] # 0
      <4>1. Strike[c] <= m
        BY <1>3, <1>4, <3>5
      <4> HIDE DEF size, most
      <4>2. size[c] * Strike[c] <= size[c] * m
        BY <3>1, <3>3, <4>1, TimesMore
      <4>3. /\ size[c] * Strike[c] = Strike[c] * size[c]
            /\ size[c] * m = m * size[c]
            /\ m * size[c] \in Nat
        BY <3>1, <3>3
      <4> QED
        BY <3>1, <3>2, <3>3, <4>2, <4>3
    <3> QED
      BY <3>4, <3>5
  <2>2. SumFunctionOnSet(StrikeOf(pos'), g) <= SumFunctionOnSet(most, g)
    <3> HIDE DEF size, most
    <3> QED
      BY <1>1, <2>1, SumAtMost
  <2>3. SumFunctionOnSet(most, g) = m * SumFunctionOnSet(size, g)
    <3> HIDE DEF size, most
    <3>1. m \in Int
      OBVIOUS
    <3> QED
      BY <1>1, <2>1, <3>1, SumTimes
  <2> HIDE DEF most, size
  <2> QED
    BY <1>5, <2>2, <2>3 DEF Secured
<1> HIDE DEF U1, Ud
<1> QED
  BY <1>4, <1>5, <1>6 DEF U1, Ud

(* Every judged put group is in reserve out of the book's cash.          *)
LEMMA ReserveInCash ==
    ASSUME Marked, NEW o \in Orders, Passed(o), NEW g \in Judged(o),
           RightOf(g) = "put", bookCash \in Int
    PROVE  Reserve(g, o) <= bookCash
<1> DEFINE puts == {h \in Judged(o) : RightOf(h) = "put"}
           f == [h \in puts |-> Reserve(h, o)]
<1>1. g \in puts /\ SumFunction(f) <= bookCash
  BY DEF Passed, DefinedRisk
<1>2. puts \subseteq Groups /\ IsFiniteSet(puts)
  <2>1. puts \subseteq Groups
    BY DEF Judged
  <2> QED
    BY <2>1, Parts, FS_Subset
<1>3. \A h \in puts : f[h] \in Nat
  <2> SUFFICES ASSUME NEW h \in puts PROVE Reserve(h, o) \in Nat
    OBVIOUS
  <2>1. h \in Groups
    BY <1>2
  <2>2. Uncovered(h, After(book, o)) \in Nat
    <3>1. \A i \in Instruments : book[i] \in Int
      BY DEF Marked
    <3>2. \A i \in Instruments : After(book, o)[i] \in Int
      BY <2>1, <3>1, UncoveredAfter
    <3> QED
      BY <2>1, <3>2, UncoveredNat
  <2>3. PICK m \in Nat : Reserve(h, o) = m * Uncovered(h, After(book, o))
    BY <2>1, <2>2, ReserveIs
  <2> QED
    BY <2>2, <2>3, TimesNat
<1>4. DOMAIN f = puts /\ f[g] = Reserve(g, o)
  BY <1>1
<1> HIDE DEF f, puts
<1>5. f[g] <= SumFunctionOnSet(f, puts) /\ SumFunctionOnSet(f, puts) \in Nat
  BY <1>1, <1>2, <1>3, SumOfOne, SumNat
<1>6. SumFunction(f) = SumFunctionOnSet(f, puts)
  BY <1>4, SumOfFunction
<1> QED
  BY <1>1, <1>3, <1>4, <1>5, <1>6

(* An order that writes puts leaves every put group it touches, and of     *)
(* which its pass had sold nothing, secured by the cash of the book.       *)
LEMMA WrittenSecured ==
    ASSUME Marked, WritersSell, bookCash \in Int, bookCash >= 0,
           NEW o \in Orders, Passed(o), Filled(o), WritesPut(o),
           NEW g \in Groups, RightOf(g) = "put", g \cap DOMAIN o # {},
           \A c \in g : pos'[c] <= 0 /\ book[c] <= pos[c]
    PROVE  Secured(g, pos') <= bookCash
<1> DEFINE U0 == Uncovered(g, pos)
           Ub == Uncovered(g, book)
           U1 == Uncovered(g, After(book, o))
           Ud == Uncovered(g, pos')
<1>1. /\ \A i \in DOMAIN o : o[i] \in Int
      /\ \A i \in Instruments : pos[i] \in Int
      /\ \A i \in Instruments : book[i] \in Int
  BY DEF Marked
<1>2. Change(o, g) <= 0
  <2> DEFINE f == [c \in g |-> IF c \in DOMAIN o THEN o[c] ELSE 0]
  <2>1. IsFiniteSet(g) /\ \A c \in g : c \in Instruments
    BY Parts
  <2>2. SumFunction(f) <= 0
    BY DEF WritersSell
  <2>3. DOMAIN f = g /\ \A c \in g : f[c] = Delta(o)[c]
    BY <2>1 DEF Delta
  <2> HIDE DEF f
  <2>4. SumFunction(f) = SumFunctionOnSet(Delta(o), g)
    <3>1. SumFunctionOnSet(f, g) = SumFunctionOnSet(Delta(o), g)
      BY <2>1, <2>3, SumSame
    <3>2. SumFunction(f) = SumFunctionOnSet(f, g)
      BY <2>3, SumOfFunction
    <3> QED
      BY <3>1, <3>2
  <2> QED
    BY <2>2, <2>4 DEF Change
<1>3. U0 \in Nat /\ U1 \in Nat /\ U0 <= U1 /\ Ub <= U1
  <2>1. /\ Held(book, g) \in Int /\ Change(o, g) \in Int
        /\ Ub = AtLeast0(-Held(book, g))
        /\ U1 = AtLeast0(-(Held(book, g) + Change(o, g)))
    BY <1>1, UncoveredAfter
  <2>2. Held(pos, g) \in Int /\ U0 = AtLeast0(-Held(pos, g))
    BY <1>1, UncoveredAfter
  <2>3. Held(book, g) <= Held(pos, g)
    BY HeldAtLeast
  <2> HIDE DEF U0, U1, Ub
  <2> QED
    BY <1>2, <2>1, <2>2, <2>3 DEF AtLeast0
<1>4. PICK m \in Nat : /\ Reserve(g, o) = m * U1
                       /\ Secured(g, pos') <= m * Ud
                       /\ Ud \in Nat
  BY <1>3, ReserveCovers
<1>5. Ud <= U1 /\ (U1 > 0 => g \in Judged(o))
  <2>1. pos' = After(pos, Downsized(o)) /\ FitsOrderLimit(o)
    BY DEF Passed, Filled, Fill
  <2>2. Ud <= U0 \/ (g \in Judged(o) /\ Ud <= U1)
    BY <2>1, CoveredOrJudged
  <2>3. U1 > 0 => g \in Judged(o)
    BY <1>3 DEF Judged
  <2> HIDE DEF U0, U1, Ud
  <2> QED
    BY <1>3, <1>4, <2>2, <2>3
<1>6. Secured(g, pos') \in Nat
  <2>1. \A c \in Contracts : pos'[c] \in Int
    BY LegOf
  <2> QED
    BY <2>1, StrikeTerms
<1>7. CASE U1 > 0
  <2>1. Reserve(g, o) <= bookCash
    BY <1>5, <1>7, ReserveInCash
  <2> HIDE DEF U0, U1, Ud
  <2>2. m * Ud <= m * U1 /\ m * Ud \in Nat /\ m * U1 \in Nat
    BY <1>3, <1>4, <1>5, TimesMore, TimesNat
  <2> QED
    BY <1>4, <1>6, <2>1, <2>2
<1>8. CASE U1 = 0
  <2> HIDE DEF U0, U1, Ud
  <2>1. Ud = 0
    BY <1>4, <1>5, <1>8
  <2>2. m * Ud = 0
    BY <2>1
  <2> QED
    BY <1>4, <1>6, <2>2
<1> HIDE DEF U1
<1> QED
  BY <1>3, <1>7, <1>8

(* What the groups of short puts need, and cash that is not overdrawn, as  *)
(* long as no order has drawn on what one before it in its pass had.       *)
Solvent == (~crossed => cash >= 0) /\ PutGroupsSecured

(* An order that takes nothing from cash or collateral leaves the groups   *)
(* as they were.                                                           *)
LEMMA UndrawnSecured ==
    ASSUME Marked, TypeOK, NEW o \in Orders, Filled(o),
           ~Draws(Downsized(o)), cash >= 0,
           NEW g \in Groups, RightOf(g) = "put", \A c \in g : pos'[c] <= 0,
           (\A c \in g : pos[c] <= 0) => Secured(g, pos) <= cash
    PROVE  Secured(g, pos') <= cash'
<1> DEFINE spent == CashOut(Downsized(o))
<1>1. /\ \A c \in Contracts : pos[c] \in Int /\ pos'[c] \in Int
      /\ cash \in Int /\ spent \in Int
  BY LegOf, CashOutInt DEF TypeOK
<1>2. cash' = cash - spent /\ ~(spent > 0)
  BY DEF Filled, Fill, Draws
<1>3. \A c \in g : pos[c] <= pos'[c] /\ pos[c] <= 0
  <2> SUFFICES ASSUME NEW c \in g PROVE pos[c] <= pos'[c] /\ pos[c] <= 0
    OBVIOUS
  <2>1. c \in Contracts /\ Right[c] = "put"
    BY Parts
  <2>2. pos[c] <= pos'[c]
    BY <1>1, <2>1, KeepsPuts DEF Draws
  <2> QED
    BY <1>1, <2>1, <2>2
<1>4. Secured(g, pos') <= Secured(g, pos)
  BY <1>1, <1>3, SmallerGroup
<1>5. Secured(g, pos) \in Nat /\ Secured(g, pos') \in Nat
  BY <1>1, StrikeTerms
<1>6. Secured(g, pos) <= cash
  BY <1>3
<1> HIDE DEF spent
<1> QED
  BY <1>1, <1>2, <1>4, <1>5, <1>6

(* An order that does, the first of its pass to do so, leaves them secured *)
(* by the cash of the book or out of the cash beyond its collateral.       *)
LEMMA DrawnSecured ==
    ASSUME Marked, TypeOK, WritersSell, NEW o \in Orders, Passed(o), Filled(o),
           ~Drawn, cash >= 0, bookCash >= 0,
           NEW g \in Groups, RightOf(g) = "put", \A c \in g : pos'[c] <= 0,
           (\A c \in g : pos[c] <= 0) => Secured(g, pos) <= cash,
           Draws(Downsized(o))
    PROVE  Secured(g, pos') <= cash'
<1> DEFINE spent == CashOut(Downsized(o))
<1>1. /\ \A c \in Contracts : pos[c] \in Int /\ pos'[c] \in Int /\ book[c] \in Int
      /\ cash \in Int /\ bookCash \in Int /\ spent \in Int
  BY LegOf, CashOutInt DEF TypeOK, Marked
<1>2. cash' = cash - spent /\ FitsOrderLimit(o)
  BY DEF Filled, Fill, Passed
<1>3. bookCash <= cash /\ \A c \in g : book[c] <= pos[c]
  <2>1. \A c \in g : c \in Contracts /\ Right[c] = "put"
    BY Parts
  <2> QED
    BY <1>1, <2>1 DEF Drawn
<1>4. /\ Committed(book) \in Nat
      /\ Secured(g, pos) \in Nat /\ Secured(g, pos') \in Nat
      /\ Secured(g, book) \in Nat
  BY <1>1, StrikeTerms
<1>5. CASE WritesPut(o)
  <2>1. spent <= 0
    BY <1>2, <1>5, WriterCollects
  <2>2. CASE g \cap DOMAIN o # {}
    <3>1. Secured(g, pos') <= bookCash
      BY <1>1, <1>3, <1>5, <2>2, WrittenSecured
    <3> HIDE DEF spent
    <3> QED
      BY <1>1, <1>2, <1>3, <1>4, <2>1, <3>1
  <2>3. CASE g \cap DOMAIN o = {}
    <3>1. \A c \in g : pos'[c] = pos[c]
      BY <2>3, Parts, LegOf
    <3>2. \A c \in g : pos[c] <= 0 /\ pos[c] <= pos'[c]
      BY <1>1, <3>1, Parts
    <3>3. Secured(g, pos') <= Secured(g, pos)
      BY <1>1, <3>2, SmallerGroup
    <3>4. Secured(g, pos) <= cash
      BY <3>2
    <3> HIDE DEF spent
    <3> QED
      BY <1>1, <1>2, <1>4, <2>1, <3>3, <3>4
  <2> QED
    BY <2>2, <2>3
<1>6. CASE ~WritesPut(o)
  <2>1. ~WritesPut(Downsized(o))
    BY <1>6, DownsizedWrites
  <2>2. spent > 0
    BY <2>1 DEF Draws
  <2>3. spent <= bookCash - Committed(book)
    BY <1>1, <2>2, SpendsFreeCash
  <2>4. \A c \in g : book[c] <= pos'[c] /\ book[c] <= 0
    <3> SUFFICES ASSUME NEW c \in g PROVE book[c] <= pos'[c] /\ book[c] <= 0
      OBVIOUS
    <3>1. c \in Contracts /\ Right[c] = "put"
      BY Parts
    <3>2. pos[c] <= pos'[c]
      BY <2>1, <3>1, KeepsPuts
    <3> QED
      BY <1>1, <1>3, <3>1, <3>2
  <2>5. Secured(g, pos') <= Secured(g, book)
    BY <1>1, <2>4, SmallerGroup
  <2>6. Secured(g, book) <= Committed(book)
    BY <1>1, <2>4, GroupInBook
  <2> HIDE DEF spent
  <2> QED
    BY <1>1, <1>2, <1>3, <1>4, <2>3, <2>5, <2>6
<1> QED
  BY <1>5, <1>6

(* Neither is the cash overdrawn nor a group left short of it.             *)
LEMMA NextSecured ==
    ASSUME Marked, TypeOK, WritersSell, Solvent, ~crossed => bookCash >= 0,
           [Next]_vars
    PROVE  Solvent' /\ (~crossed' => bookCash' >= 0)
<1>0. /\ \A c \in Contracts : pos[c] \in Int /\ pos'[c] \in Int
      /\ cash \in Int /\ bookCash \in Int
  BY NextMarked, Parts DEF TypeOK, Marked
<1>1. CASE Trade
  <2>1. PICK o \in Orders : Passed(o) /\ Filled(o)
    BY <1>1, TradeIs
  <2>2. bookCash' = bookCash
    BY <2>1 DEF Filled, Fill
  <2>3. CASE crossed'
    BY <2>3 DEF Solvent, PutGroupsSecured
  <2>4. CASE ~crossed'
    <3>1. ~crossed /\ (Draws(Downsized(o)) => ~Drawn)
      BY Zenon, <2>1, <2>4 DEF Filled, Fill
    <3>2. cash >= 0 /\ bookCash >= 0
      BY <3>1 DEF Solvent
    <3>3. cash' >= 0
      <4> DEFINE spent == CashOut(Downsized(o))
      <4>1. spent \in Int /\ cash' = cash - spent
        BY <2>1, CashOutInt DEF Filled, Fill
      <4>2. spent > 0 => spent <= bookCash - Committed(book) /\ bookCash <= cash
        <5> SUFFICES ASSUME spent > 0
                     PROVE  spent <= bookCash - Committed(book) /\ bookCash <= cash
          OBVIOUS
        <5>1. ~Drawn
          BY <3>1 DEF Draws
        <5>2. spent <= bookCash - Committed(book)
          BY <1>0, <2>1, SpendsFreeCash
        <5> QED
          BY <1>0, <5>1, <5>2 DEF Drawn
      <4>3. Committed(book) \in Nat
        <5>1. \A c \in Contracts : book[c] \in Int
          BY DEF Marked
        <5> QED
          BY <5>1, StrikeTerms
      <4> HIDE DEF spent
      <4> QED
        BY <1>0, <3>2, <4>1, <4>2, <4>3
    <3>4. ASSUME NEW g \in Groups, RightOf(g) = "put", \A c \in g : pos'[c] <= 0
          PROVE  SumFunction([c \in g |-> Strike[c] * Abs(pos'[c])]) <= cash'
      <4>1. (\A c \in g : pos[c] <= 0) => Secured(g, pos) <= cash
        <5> SUFFICES ASSUME \A c \in g : pos[c] <= 0 PROVE Secured(g, pos) <= cash
          OBVIOUS
        <5>1. SumFunction([c \in g |-> Strike[c] * Abs(pos[c])]) <= cash
          BY <3>1, <3>4 DEF Solvent, PutGroupsSecured
        <5> QED
          BY <1>0, <5>1, StrikeTerms
      <4>2. Secured(g, pos') <= cash'
        <5>1. CASE Draws(Downsized(o))
          BY <2>1, <3>1, <3>2, <3>4, <4>1, <5>1, DrawnSecured
        <5>2. CASE ~Draws(Downsized(o))
          BY <2>1, <3>2, <3>4, <4>1, <5>2, UndrawnSecured
        <5> QED
          BY <5>1, <5>2
      <4> QED
        BY <1>0, <4>2, StrikeTerms
    <3> QED
      BY <2>2, <3>2, <3>3, <3>4 DEF Solvent, PutGroupsSecured
  <2> QED
    BY <2>3, <2>4
<1>2. CASE NextPass
  <2>1. pos' = pos /\ cash' = cash /\ bookCash' = cash /\ crossed' = crossed
    BY <1>2 DEF NextPass
  <2> QED
    BY <2>1 DEF Solvent, PutGroupsSecured
<1>3. CASE UNCHANGED vars
  <2>1. pos' = pos /\ cash' = cash /\ bookCash' = bookCash /\ crossed' = crossed
    BY <1>3 DEF vars
  <2> QED
    BY <2>1 DEF Solvent, PutGroupsSecured
<1> QED
  BY <1>1, <1>2, <1>3 DEF Next

LEMMA InitSecured == Init => Solvent /\ bookCash >= 0
<1> SUFFICES ASSUME Init PROVE Solvent /\ bookCash >= 0
  OBVIOUS
<1>1. cash \in Nat /\ bookCash = cash
  BY DEF Init
<1>2. \A c \in Contracts : pos[c] \in Int /\ pos[c] = 0
  BY DEF Init
<1>3. ASSUME NEW g \in Groups
      PROVE  SumFunction([c \in g |-> Strike[c] * Abs(pos[c])]) <= cash
  <2>1. IsFiniteSet(g) /\ \A c \in g : StrikeOf(pos)[c] = 0
    BY <1>2, Parts, StrikeTerms
  <2>2. Secured(g, pos) = 0
    BY <2>1, SumZero DEF Secured
  <2>3. \A c \in Contracts : pos[c] \in Int
    BY <1>2
  <2>4. SumFunction([c \in g |-> Strike[c] * Abs(pos[c])]) = Secured(g, pos)
    BY <2>3, StrikeTerms
  <2> QED
    BY <1>1, <2>2, <2>4
<1> QED
  BY <1>1, <1>3 DEF PutGroupsSecured, Solvent

(* Every put group without longs, taken alone, is good for assignment,     *)
(* whatever was traded before: for orders that pay for nothing with the    *)
(* puts they write, such as every order of a single leg, and until a pass  *)
(* spends or writes after an order of its own that had done so.            *)
THEOREM GroupsSecured ==
    ASSUME WritersSell
    PROVE  Spec => []PutGroupsSecured
<1> DEFINE Inv == Marked /\ TypeOK /\ Solvent /\ (~crossed => bookCash >= 0)
<1>1. Init => Inv
  BY InitMarked, InitTyped, InitSecured
<1>2. Inv /\ [Next]_vars => Inv'
  BY NextMarked, NextTyped, NextSecured
<1>3. Inv => PutGroupsSecured
  BY DEF Solvent
<1> HIDE DEF Inv
<1> QED
  BY <1>1, <1>2, <1>3, PTL DEF Spec
=============================================================================
