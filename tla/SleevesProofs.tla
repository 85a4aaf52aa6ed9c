----------------------------- MODULE SleevesProofs -----------------------------
(***************************************************************************)
(* Theorems about Sleeves, for any names, contracts, sizes and limits, any *)
(* number of days and whatever gets through of the orders.                 *)
(***************************************************************************)
EXTENDS Sleeves, Arithmetic, FiniteSetTheorems

USE SleevesAssumption DEF SleevesAssumption

-----------------------------------------------------------------------------
(* Type correctness *)

(* There are finitely many names, and any set of them and any set of       *)
(* instruments has a size.                                                 *)
LEMMA FiniteNames ==
    Len(Names) \in Nat /\ DOMAIN Names = 1..Len(Names) /\ IsFiniteSet(Underlyings)
<1>1. Len(Names) \in Nat /\ DOMAIN Names = 1..Len(Names)
  OBVIOUS
<1>2. Names \in Surjection(1..Len(Names), Underlyings)
  <2>1. Names \in [1..Len(Names) -> Underlyings]
    BY <1>1 DEF Underlyings
  <2>2. \A u \in Underlyings : \E i \in 1..Len(Names) : Names[i] = u
    BY <1>1 DEF Underlyings
  <2> QED
    BY <2>1, <2>2 DEF Surjection
<1>3. IsFiniteSet(1..Len(Names))
  BY <1>1, FS_Interval
<1> QED
  BY <1>1, <1>2, <1>3, FS_Surjection

LEMMA SizesOfSets ==
    /\ Len(Names) \in Nat /\ DOMAIN Names = 1..Len(Names)
    /\ \A S \in SUBSET Underlyings : Cardinality(S) \in Nat
    /\ \A S \in SUBSET Instruments : Cardinality(S) \in Nat
<1>1. IsFiniteSet(Instruments)
  OBVIOUS
<1> QED
  BY <1>1, FiniteNames, FS_Subset, FS_CardinalityType

(* The parts of the type invariant that different steps disturb.           *)
RightNames == Underlyings \X {"call", "put", "share"}

ClockOK   == /\ day \in 1..(LastDay + 1)
             /\ session \in {Sessions[i] : i \in DOMAIN Sessions}
BookOK    == /\ book \in [Instruments -> Int]
             /\ sent \in [Instruments -> Int]
             /\ target \in [Instruments -> Int]
MemoryOK  == entries \in Nat /\ entryDay \in 0..day
PlanOK    == /\ at \in 1..(Len(Names) + 1) /\ slots \in Nat
             /\ candidates \subseteq RightNames
PlaceOK   == /\ setup \in Setups /\ pc \in {"idle", "entries", "orders"}
             /\ capital \in Capitals \cup {0} /\ closing \subseteq Instruments
FlagsOK   == atEnd \in BOOLEAN /\ flatPass \in BOOLEAN
IdleOK    == pc = "idle" => closing = {} /\ target = None /\ sent = None

LEMMA TypeParts ==
    TypeOK <=> /\ ClockOK /\ BookOK /\ MemoryOK /\ PlanOK /\ PlaceOK
               /\ FlagsOK /\ IdleOK
  BY DEF TypeOK, ClockOK, BookOK, MemoryOK, PlanOK, PlaceOK, FlagsOK, IdleOK,
         RightNames

LEMMA NoneTyped == None \in [Instruments -> Int]
  BY DEF None

LEMMA InitTyped == Init => TypeOK
<1> SUFFICES ASSUME Init PROVE TypeOK
  OBVIOUS
<1>1. ClockOK /\ MemoryOK /\ PlaceOK /\ IdleOK
  BY DEF Init, ClockOK, MemoryOK, PlaceOK, IdleOK, Sessions
<1>2. PlanOK
  BY SizesOfSets DEF Init, PlanOK
<1>3. BookOK
  BY NoneTyped DEF Init, BookOK
<1>4. FlagsOK
  BY DEF Init, FlagsOK
<1> QED
  BY <1>1, <1>2, <1>3, <1>4, TypeParts

(* A pass that begins leaves a plan that is well typed.                    *)
LEMMA BeginTyped ==
    ASSUME TypeOK, NEW exits \in SUBSET Instruments, NEW room \in Nat,
           NEW open \in SUBSET RightNames, Begin(exits, room, open), MemoryOK'
    PROVE  TypeOK'
<1>1. ClockOK /\ BookOK /\ MemoryOK /\ PlanOK /\ PlaceOK /\ FlagsOK /\ IdleOK
  BY TypeParts
<1>2. PICK allotted \in Capitals :
          /\ capital' = allotted
          /\ IF room = 0 \/ open = {} \/ allotted = 0
             THEN pc' = "orders" /\ UNCHANGED plan
             ELSE /\ pc' = "entries"
                  /\ at' = 1 /\ slots' = room /\ candidates' = open
  BY Zenon DEF Begin
<1>3. PlanOK'
  BY <1>1, <1>2, SizesOfSets DEF PlanOK, plan
<1>4. PlaceOK'
  BY <1>1, <1>2 DEF PlaceOK, Begin
<1>5. ClockOK' /\ BookOK'
  BY <1>1 DEF ClockOK, BookOK, Begin, clock
<1>6. FlagsOK'
  BY <1>1, Zenon DEF FlagsOK, Begin
<1>7. IdleOK'
  BY <1>2 DEF IdleOK
<1> QED
  BY <1>3, <1>4, <1>5, <1>6, <1>7, TypeParts, PTL

(* Whole orders, in either direction.                                      *)
LEMMA OrderTyped ==
    ASSUME NEW t \in Int, NEW held \in Int
    PROVE  /\ OrderQty(t, held) \in Int
           /\ t >= 0 /\ held >= 0 => OrderQty(t, held) >= -held
           /\ t <= 0 /\ held <= 0 => OrderQty(t, held) <= -held
<1> DEFINE delta == t - 1000 * held
           whole == Abs(delta) \div 1000
<1>1. delta \in Int /\ Abs(delta) \in Nat
  BY DEF Abs
<1>2. whole \in Nat
  BY <1>1, DivBounds
<1>3. delta > 0 => OrderQty(t, held) \in {0, whole}
  <2>1. delta > 0 => OrderQty(t, held) \in {0, whole * 1}
    BY DEF OrderQty
  <2> HIDE DEF whole, delta
  <2> QED
    BY <1>2, <2>1
<1>4. delta <= 0 => OrderQty(t, held) \in {0, -whole}
  <2>1. ~(delta > 0) => OrderQty(t, held) \in {0, whole * (-1)}
    BY DEF OrderQty
  <2> HIDE DEF whole
  <2> QED
    BY <1>1, <1>2, <2>1
<1>5. ASSUME t >= 0, held >= 0, delta <= 0 PROVE whole <= held
  <2>1. Abs(delta) <= held * 1000
    BY <1>5 DEF Abs
  <2> HIDE DEF delta
  <2> QED
    BY <1>1, <1>5, <2>1, DivAtMost
<1>6. ASSUME t <= 0, held <= 0, delta > 0 PROVE whole <= -held
  <2>1. Abs(delta) <= (-held) * 1000 /\ -held \in Nat
    BY <1>6 DEF Abs
  <2> HIDE DEF delta
  <2> QED
    BY <1>1, <1>6, <2>1, DivAtMost
<1> HIDE DEF whole, delta
<1>7. delta > 0 \/ delta <= 0
  BY <1>1
<1>8. OrderQty(t, held) \in Int
  BY <1>2, <1>3, <1>4, <1>7
<1>9. ASSUME t >= 0, held >= 0 PROVE OrderQty(t, held) >= -held
  BY <1>2, <1>3, <1>4, <1>5, <1>7, <1>9
<1>10. ASSUME t <= 0, held <= 0 PROVE OrderQty(t, held) <= -held
  BY <1>2, <1>3, <1>4, <1>6, <1>7, <1>10
<1> QED
  BY <1>8, <1>9, <1>10

(* What gets through of an order is between nothing and all of it.         *)
LEMMA ThroughTyped ==
    ASSUME NEW c, NEW qty \in Int, NEW q \in GetsThrough(c, qty)
    PROVE  /\ q \in Int
           /\ qty >= 0 => 0 <= q /\ q <= qty
           /\ qty <= 0 => qty <= q /\ q <= 0
<1>1. CASE q = 0
  BY <1>1
<1>2. CASE q # 0
  <2>1. q \in -Abs(qty)..Abs(qty) /\ q * qty >= 0
    BY <1>2 DEF GetsThrough
  <2>2. Abs(qty) \in Nat
    BY DEF Abs
  <2>3. q \in Int /\ -Abs(qty) <= q /\ q <= Abs(qty)
    BY <2>1, <2>2
  <2>4. CASE qty > 0
    <3>1. q >= 0
      BY <2>1, <2>3, <2>4
    <3> QED
      BY <2>3, <2>4, <3>1 DEF Abs
  <2>5. CASE qty < 0
    <3>1. q <= 0
      BY <2>1, <2>3, <2>5
    <3> QED
      BY <2>3, <2>5, <3>1 DEF Abs
  <2>6. CASE qty = 0
    BY <2>3, <2>6 DEF Abs
  <2> QED
    BY <2>4, <2>5, <2>6
<1> QED
  BY <1>1, <1>2

(* A signal states a whole target, short for put_income, else long.        *)
LEMMA SizesTyped ==
    ASSUME NEW c \in Instruments, NEW t \in Sizes(c)
    PROVE  /\ t \in Int /\ t # 0
           /\ setup.kind = "put_income" => t < 0
           /\ setup.kind # "put_income" => t > 0
<1>1. CASE setup.kind = "put_income"
  <2> DEFINE fit == {n \in 1..PerNameCap : Strike[c] * n <= Budget}
             most == {m \in fit : \A k \in fit : k <= m}
  <2>1. Sizes(c) = {-1001 * n : n \in most}
    BY <1>1, Zenon DEF Sizes
  <2>2. \A n \in most : n \in Int /\ n >= 1
    BY DEF SleevesAssumption
  <2> HIDE DEF most
  <2>3. PICK n \in most : t = -1001 * n
    BY <2>1
  <2> QED
    BY <1>1, <2>2, <2>3
<1>2. CASE setup.kind # "put_income"
  <2>1. t \in Targets \/ t \in {1001 * n : n \in Lots}
    BY <1>2, Zenon DEF Sizes
  <2>2. Targets \subseteq Nat \ {0} /\ Lots \subseteq Nat \ {0}
    OBVIOUS
  <2>3. \A n \in Nat \ {0} : 1001 * n \in Nat \ {0}
    OBVIOUS
  <2>4. t \in Nat \ {0}
    <3>1. CASE t \in Targets
      BY <2>2, <3>1
    <3>2. CASE t \in {1001 * n : n \in Lots}
      BY <2>2, <2>3, <3>2
    <3> QED
      BY <2>1, <3>1, <3>2
  <2> QED
    BY <1>2, <2>4
<1> QED
  BY <1>1, <1>2

LEMMA ManagedTyped == Managed \subseteq Instruments
  BY DEF Managed

(* The passes of every sleeve begin well typed.                            *)
LEMMA BeginsTyped ==
    ASSUME TypeOK,
           \/ BeginZeroDte \/ BeginPutIncome \/ BeginConvexity
           \/ BeginMomentum \/ BeginMeanReversion
    PROVE  TypeOK'
<1>1. MemoryOK /\ ClockOK
  BY TypeParts
<1>2. ASSUME UNCHANGED memory, day' = day PROVE MemoryOK'
  BY <1>1, <1>2 DEF MemoryOK, memory
<1>3. CASE BeginZeroDte
  <2> DEFINE today == IF entryDay = day THEN entries ELSE 0
  <2>1. PICK exits \in SUBSET Managed :
            Begin(exits,
                  RoomForZeroDte(Cardinality(Managed \ exits), today),
                  (Underlyings \ Held(exits)) \X Directions)
    BY <1>3, Zenon DEF BeginZeroDte
  <2>2. MemoryOK'
    <3>1. entries' = today /\ entryDay' = day
      BY <1>3 DEF BeginZeroDte
    <3>2. day' = day
      BY <2>1 DEF Begin, clock
    <3> QED
      BY <1>1, <3>1, <3>2 DEF MemoryOK, ClockOK
  <2>3. RoomForZeroDte(Cardinality(Managed \ exits), today) \in Nat
    <3>1. Cardinality(Managed \ exits) \in Nat
      BY ManagedTyped, SizesOfSets
    <3>2. MaxNames \in Nat
      OBVIOUS
    <3> HIDE DEF today
    <3> QED
      BY <3>1, <3>2 DEF RoomForZeroDte
  <2>4. (Underlyings \ Held(exits)) \X Directions \in SUBSET RightNames
    BY DEF Directions, RightNames
  <2> QED
    BY <2>1, <2>2, <2>3, <2>4, ManagedTyped, BeginTyped
<1>4. CASE BeginPutIncome
  <2>0. PICK exits \in SUBSET Managed :
            \E occupied \in Occupied(exits), highVol \in BOOLEAN :
                Begin(exits,
                      IF highVol \/ Cardinality(occupied) >= MaxNames THEN 0
                      ELSE MaxNames - Cardinality(occupied),
                      (Underlyings \ occupied) \X {"put"})
    BY <1>4, Zenon DEF BeginPutIncome
  <2>1. PICK occupied \in Occupied(exits), highVol \in BOOLEAN :
            Begin(exits,
                  IF highVol \/ Cardinality(occupied) >= MaxNames THEN 0
                  ELSE MaxNames - Cardinality(occupied),
                  (Underlyings \ occupied) \X {"put"})
    BY <2>0
  <2>2. MemoryOK'
    BY <1>2, <1>4, <2>1 DEF BeginPutIncome, Begin, clock
  <2>3. Cardinality(occupied) \in Nat
    <3>1. occupied \subseteq Underlyings
      BY ManagedTyped DEF Occupied, NamesOf
    <3> QED
      BY <3>1, SizesOfSets
  <2>4. (IF highVol \/ Cardinality(occupied) >= MaxNames THEN 0
         ELSE MaxNames - Cardinality(occupied)) \in Nat
    BY <2>3
  <2>5. (Underlyings \ occupied) \X {"put"} \in SUBSET RightNames
    BY DEF RightNames
  <2> QED
    BY <2>1, <2>2, <2>4, <2>5, ManagedTyped, BeginTyped
<1>5. CASE BeginConvexity
  <2>1. PICK exits \in SUBSET Managed, longs \in SUBSET Underlyings,
             shorts \in SUBSET Underlyings :
            Begin(exits, Len(Names), (longs \X {"call"}) \cup (shorts \X {"put"}))
    BY <1>5 DEF BeginConvexity
  <2>2. MemoryOK'
    BY <1>2, <1>5, <2>1 DEF BeginConvexity, Begin, clock
  <2>3. (longs \X {"call"}) \cup (shorts \X {"put"}) \in SUBSET RightNames
    BY DEF RightNames
  <2> QED
    BY <2>1, <2>2, <2>3, SizesOfSets, ManagedTyped, BeginTyped
<1>6. CASE BeginMomentum
  <2>1. day' = day
    BY <1>6 DEF BeginMomentum, Begin, clock
  <2>2. MemoryOK'
    BY <1>2, <1>6, <2>1 DEF BeginMomentum
  <2>3. CASE Begin({}, 0, {})
    BY <2>2, <2>3, BeginTyped
  <2>4. ASSUME NEW top \in SUBSET Underlyings,
               Begin({c \in Managed : Under[c] \notin top \/ Leaving(c)},
                     Len(Names),
                     top \X {IF setup.kind = "momentum_equity"
                             THEN "share" ELSE "call"})
        PROVE  TypeOK'
    <3>1. top \X {IF setup.kind = "momentum_equity" THEN "share" ELSE "call"}
              \in SUBSET RightNames
      BY DEF RightNames
    <3>2. {c \in Managed : Under[c] \notin top \/ Leaving(c)} \in SUBSET Instruments
      BY ManagedTyped
    <3> QED
      BY <2>2, <2>4, <3>1, <3>2, SizesOfSets, BeginTyped
  <2> QED
    BY <1>6, <2>3, <2>4 DEF BeginMomentum
<1>7. CASE BeginMeanReversion
  <2>1. PICK exits \in SUBSET Managed, washouts \in SUBSET Underlyings :
            Begin(exits, Len(Names), washouts \X {"share"})
    BY <1>7, Zenon DEF BeginMeanReversion
  <2>2. MemoryOK'
    BY <1>2, <1>7, <2>1 DEF BeginMeanReversion, Begin, clock
  <2>3. washouts \X {"share"} \in SUBSET RightNames
    BY DEF RightNames
  <2> QED
    BY <2>1, <2>2, <2>3, SizesOfSets, ManagedTyped, BeginTyped
<1> QED
  BY <1>3, <1>4, <1>5, <1>6, <1>7

(* Orders move what the pass has traded by whole contracts or shares.      *)
LEMMA TradeTyped ==
    ASSUME BookOK, NEW c \in Instruments, NEW qty \in Int,
           NEW q \in GetsThrough(c, qty), Trade(c, q)
    PROVE  /\ sent' \in [Instruments -> Int] /\ q \in Int
           /\ sent'[c] = sent[c] + q
           /\ \A d \in Instruments : d # c => sent'[d] = sent[d]
  BY ThroughTyped DEF BookOK, Trade

LEMMA NextTyped == TypeOK /\ [Next]_vars => TypeOK'
<1> SUFFICES ASSUME TypeOK, [Next]_vars PROVE TypeOK'
  OBVIOUS
<1>1. ClockOK /\ BookOK /\ MemoryOK /\ PlanOK /\ PlaceOK /\ FlagsOK /\ IdleOK
  BY TypeParts
<1> DEFINE AllOK == /\ ClockOK' /\ BookOK' /\ MemoryOK' /\ PlanOK' /\ PlaceOK'
                    /\ FlagsOK' /\ IdleOK'
<1> SUFFICES AllOK
  BY TypeParts, PTL
<1>2. CASE \/ BeginZeroDte \/ BeginPutIncome \/ BeginConvexity
          \/ BeginMomentum \/ BeginMeanReversion
  BY <1>2, BeginsTyped, TypeParts, PTL
<1>3. ASSUME NEW c \in Instruments, EnterName(c) PROVE AllOK
  <2>1. ClockOK' /\ FlagsOK'
    BY <1>1, <1>3, Zenon DEF EnterName, ClockOK, FlagsOK, clock
  <2>2. MemoryOK' /\ PlanOK'
    BY <1>1, <1>3, SizesOfSets DEF EnterName, MemoryOK, PlanOK, clock
  <2>3. PlaceOK' /\ IdleOK'
    BY <1>1, <1>3 DEF EnterName, PlaceOK, IdleOK
  <2>4. BookOK'
    <3>1. PICK t \in Sizes(c) : target' = [target EXCEPT ![c] = t]
      BY <1>3, Zenon DEF EnterName
    <3> QED
      BY <1>1, <1>3, <3>1, SizesTyped DEF EnterName, BookOK
  <2> QED
    BY <2>1, <2>2, <2>3, <2>4
<1>4. CASE SkipName
  <2>1. ClockOK' /\ FlagsOK'
    BY <1>1, <1>4, Zenon DEF SkipName, ClockOK, FlagsOK, clock
  <2>2. MemoryOK' /\ PlanOK'
    BY <1>1, <1>4, SizesOfSets DEF SkipName, MemoryOK, PlanOK, clock, memory
  <2>3. PlaceOK' /\ IdleOK' /\ BookOK'
    BY <1>1, <1>4 DEF SkipName, PlaceOK, IdleOK, BookOK, signals
  <2> QED
    BY <2>1, <2>2, <2>3
<1>5. CASE EntriesDone
  <2>1. ClockOK' /\ FlagsOK'
    BY <1>1, <1>5, Zenon DEF EntriesDone, ClockOK, FlagsOK, clock
  <2>2. MemoryOK' /\ PlanOK'
    BY <1>1, <1>5, SizesOfSets DEF EntriesDone, MemoryOK, PlanOK, clock, memory
  <2>3. PlaceOK' /\ IdleOK' /\ BookOK'
    BY <1>1, <1>5 DEF EntriesDone, PlaceOK, IdleOK, BookOK, signals
  <2> QED
    BY <2>1, <2>2, <2>3
<1>6. ASSUME NEW c \in Instruments, CloseOrder(c) PROVE AllOK
  <2>1. ClockOK' /\ FlagsOK'
    BY <1>1, <1>6, Zenon DEF CloseOrder, ClockOK, FlagsOK, clock
  <2>2. MemoryOK' /\ PlanOK'
    BY <1>1, <1>6 DEF CloseOrder, MemoryOK, PlanOK, clock, memory, plan
  <2>3. PlaceOK' /\ IdleOK'
    BY <1>1, <1>6 DEF CloseOrder, PlaceOK, IdleOK
  <2>4. BookOK'
    <3>1. PICK q \in GetsThrough(c, -book[c]) : Trade(c, q)
      BY <1>6, Zenon DEF CloseOrder
    <3>2. -book[c] \in Int
      BY <1>1 DEF BookOK
    <3>3. sent' \in [Instruments -> Int]
      BY <1>1, <3>1, <3>2, TradeTyped
    <3> QED
      BY <1>1, <1>6, <3>3 DEF CloseOrder, BookOK
  <2> QED
    BY <2>1, <2>2, <2>3, <2>4
<1>7. ASSUME NEW c \in Instruments, TargetOrder(c) PROVE AllOK
  <2>1. ClockOK' /\ FlagsOK'
    BY <1>1, <1>7, Zenon DEF TargetOrder, ClockOK, FlagsOK, clock
  <2>2. MemoryOK' /\ PlanOK'
    BY <1>1, <1>7 DEF TargetOrder, MemoryOK, PlanOK, clock, memory, plan
  <2>3. PlaceOK' /\ IdleOK'
    BY <1>1, <1>7 DEF TargetOrder, PlaceOK, IdleOK
  <2>4. BookOK'
    <3>1. PICK q \in GetsThrough(c, OrderQty(target[c], book[c])) : Trade(c, q)
      BY <1>7, Zenon DEF TargetOrder
    <3>2. OrderQty(target[c], book[c]) \in Int
      BY <1>1, OrderTyped DEF BookOK
    <3>3. sent' \in [Instruments -> Int]
      BY <1>1, <3>1, <3>2, TradeTyped
    <3>4. book' = book /\ target' = [target EXCEPT ![c] = 0]
      BY <1>7 DEF TargetOrder
    <3> QED
      BY <1>1, <3>3, <3>4 DEF BookOK
  <2> QED
    BY <2>1, <2>2, <2>3, <2>4
<1>8. CASE EndPass
  <2>1. FlagsOK'
    BY <1>1, <1>8, Zenon DEF EndPass, FlagsOK
  <2>2. ClockOK' /\ MemoryOK' /\ PlanOK'
    BY <1>1, <1>8 DEF EndPass, ClockOK, MemoryOK, PlanOK, clock, memory, plan
  <2>3. PlaceOK' /\ IdleOK'
    BY <1>1, <1>8 DEF EndPass, PlaceOK, IdleOK, signals
  <2>4. BookOK'
    <3>1. Account \in [Instruments -> Int]
      BY <1>1 DEF BookOK, Account
    <3>2. book' = Account /\ sent' = None /\ target' = target
      BY <1>8, Zenon DEF EndPass, signals
    <3> QED
      BY <1>1, <3>1, <3>2, NoneTyped DEF BookOK
  <2> QED
    BY <2>1, <2>2, <2>3, <2>4
<1>9. CASE SessionMoves
  <2>1. FlagsOK'
    BY <1>1, <1>9, Zenon DEF SessionMoves, FlagsOK
  <2>2. ClockOK'
    BY <1>1, <1>9 DEF SessionMoves, ClockOK, Sessions
  <2>3. MemoryOK' /\ PlanOK' /\ PlaceOK' /\ BookOK' /\ IdleOK'
    BY <1>1, <1>9 DEF SessionMoves, MemoryOK, PlanOK, PlaceOK, BookOK, IdleOK,
                      memory, plan, signals
  <2> QED
    BY <2>1, <2>2, <2>3
<1>10. CASE NextDay
  <2>1. FlagsOK'
    BY <1>1, <1>10, Zenon DEF NextDay, FlagsOK
  <2>2. ClockOK' /\ MemoryOK'
    BY <1>1, <1>10 DEF NextDay, ClockOK, MemoryOK, Sessions, memory
  <2>3. PlanOK' /\ PlaceOK' /\ BookOK' /\ IdleOK'
    BY <1>1, <1>10 DEF NextDay, PlanOK, PlaceOK, BookOK, IdleOK, plan, signals
  <2> QED
    BY <2>1, <2>2, <2>3
<1>11. CASE Restart
  <2>1. FlagsOK'
    BY <1>1, <1>11, Zenon DEF Restart, FlagsOK
  <2>2. ClockOK' /\ MemoryOK'
    BY <1>1, <1>11 DEF Restart, ClockOK, MemoryOK, clock
  <2>3. PlanOK' /\ PlaceOK' /\ IdleOK'
    BY <1>1, <1>11 DEF Restart, PlanOK, PlaceOK, IdleOK, plan, signals
  <2>4. BookOK'
    BY <1>1, <1>11 DEF Restart, BookOK, signals
  <2> QED
    BY <2>1, <2>2, <2>3, <2>4
<1>12. CASE UNCHANGED vars
  <2>1. FlagsOK'
    BY <1>1, <1>12, Zenon DEF vars, FlagsOK
  <2> QED
    BY <1>1, <1>12, <2>1
       DEF vars, clock, memory, plan, signals, ClockOK, MemoryOK, PlanOK,
           PlaceOK, BookOK, IdleOK
<1> QED
  BY <1>2, <1>3, <1>4, <1>5, <1>6, <1>7, <1>8, <1>9, <1>10, <1>11, <1>12
     DEF Next, Pass

(* Sizes, dates and the plan of a pass stay in their ranges, and between   *)
(* passes nothing is asked for or under way.                               *)
THEOREM Typed == Spec => []TypeOK
<1>1. Init => TypeOK
  BY InitTyped
<1>2. TypeOK /\ [Next]_vars => TypeOK'
  BY NextTyped
<1> QED
  BY <1>1, <1>2, PTL DEF Spec

-----------------------------------------------------------------------------
(* What a pass starts from *)

(* A name some contract of which may still be entered in this pass.        *)
Named(c) == \E r \in {"call", "put", "share"} : <<Under[c], r>> \in candidates

(* What a sleeve's rights allow it to hold.                                *)
Fits(c) ==
    /\ setup.kind = "put_income" => Right[c] = "put"
    /\ setup.kind \in {"zero_dte", "convexity"} => Right[c] # "share"

Begun(exits) ==
    /\ pc = "idle" /\ pc' \in {"entries", "orders"}
    /\ closing' = exits /\ atEnd' = (session = "flat")
    /\ setup' = setup /\ day' = day /\ session' = session
    /\ book' = book /\ target' = target /\ sent' = sent
    /\ flatPass' = flatPass
    /\ pc' = "entries" => at' = 1
    /\ pc' # "entries" => candidates' = candidates

(* What the sleeves leave to the entries.                                  *)
Opened(exits) ==
    /\ \A c \in Instruments : <<Under[c], Right[c]>> \in candidates' => Fits(c)
    /\ setup.kind \notin {"put_income", "convexity", "momentum_options"} =>
           \A c \in exits : <<Under[c], Right[c]>> \notin candidates'
    /\ setup.kind = "zero_dte" =>
           session = "entry" /\ \A c \in Managed : ~Named(c)'
    /\ setup.kind \in {"put_income", "convexity"} =>
           \A c \in Managed \ exits :
               Named(c)' => \E e \in exits : Under[e] = Under[c]

LEMMA BeginGives ==
    ASSUME NEW exits, NEW room, NEW open, Begin(exits, room, open)
    PROVE  /\ Begun(exits)
           /\ pc' = "entries" => candidates' = open /\ room # 0 /\ slots' = room
<1>1. PICK allotted \in Capitals :
          IF room = 0 \/ open = {} \/ allotted = 0
          THEN pc' = "orders" /\ UNCHANGED plan
          ELSE /\ pc' = "entries"
               /\ at' = 1 /\ slots' = room /\ candidates' = open
  BY Zenon DEF Begin
<1>2. /\ pc' \in {"entries", "orders"}
      /\ pc' = "entries" =>
             at' = 1 /\ candidates' = open /\ room # 0 /\ slots' = room
      /\ pc' # "entries" => candidates' = candidates
  BY <1>1 DEF plan
<1>3. atEnd' = (session = "flat")
  BY Zenon DEF Begin
<1>4. /\ pc = "idle" /\ closing' = exits
      /\ setup' = setup /\ day' = day /\ session' = session
      /\ book' = book /\ target' = target /\ sent' = sent
      /\ flatPass' = flatPass
  BY DEF Begin, clock
<1> QED
  BY <1>2, <1>3, <1>4, Zenon DEF Begun

(* A position that stays leaves its name only to one that is being closed. *)
LEMMA OccupiedKeeps ==
    ASSUME NEW exits, NEW occupied \in Occupied(exits), NEW c \in Managed \ exits,
           Under[c] \notin occupied
    PROVE  \E e \in exits : Under[e] = Under[c]
<1>1. PICK freed \in SUBSET NamesOf(exits) :
          occupied = NamesOf(Managed \ exits) \ freed
  BY Zenon DEF Occupied
<1>2. Under[c] \in NamesOf(Managed \ exits)
  BY DEF NamesOf
<1>3. Under[c] \in NamesOf(exits)
  BY <1>1, <1>2
<1> QED
  BY <1>3 DEF NamesOf

AnyBegin == \/ BeginZeroDte \/ BeginPutIncome \/ BeginConvexity
            \/ BeginMomentum \/ BeginMeanReversion

(* How every pass begins: with exits among the positions looked after, all *)
(* of them for zero_dte at the end of the session, and with names that the *)
(* exits leave open.                                                       *)
LEMMA Beginnings ==
    ASSUME TypeOK, AnyBegin
    PROVE  \E exits \in SUBSET Managed :
               /\ Begun(exits)
               /\ pc' = "entries" => Opened(exits)
               /\ setup.kind = "zero_dte" /\ session = "flat" => exits = Managed
<1>1. CASE BeginZeroDte
  <2> DEFINE today == IF entryDay = day THEN entries ELSE 0
  <2>1. PICK exits \in SUBSET Managed :
            /\ session = "flat" => exits = Managed
            /\ Begin(exits,
                     RoomForZeroDte(Cardinality(Managed \ exits), today),
                     (Underlyings \ Held(exits)) \X Directions)
    BY <1>1, Zenon DEF BeginZeroDte
  <2>2. Begun(exits)
    BY <2>1, BeginGives
  <2>3. ASSUME pc' = "entries" PROVE Opened(exits)
    <3>1. setup.kind = "zero_dte"
      BY <1>1 DEF BeginZeroDte
    <3>2. /\ candidates' = (Underlyings \ Held(exits)) \X Directions
          /\ RoomForZeroDte(Cardinality(Managed \ exits), today) # 0
      BY <2>1, <2>3, BeginGives
    <3>3. session = "entry"
      BY <3>2, Zenon DEF RoomForZeroDte
    <3>4. \A c \in Managed : Under[c] \in Held(exits)
      BY DEF Held, NamesOf
    <3>5. \A c \in Managed : ~Named(c)'
      BY <3>2, <3>4 DEF Named
    <3>6. \A c \in exits : <<Under[c], Right[c]>> \notin candidates'
      BY <3>2, <3>4
    <3>7. \A c \in Instruments : <<Under[c], Right[c]>> \in candidates' => Fits(c)
      BY <3>1, <3>2 DEF Fits, Directions
    <3> QED
      BY <3>1, <3>3, <3>5, <3>6, <3>7 DEF Opened
  <2> QED
    BY <2>1, <2>2, <2>3
<1>2. CASE BeginPutIncome
  <2>0. PICK exits \in SUBSET Managed :
            \E occupied \in Occupied(exits), highVol \in BOOLEAN :
                Begin(exits,
                      IF highVol \/ Cardinality(occupied) >= MaxNames THEN 0
                      ELSE MaxNames - Cardinality(occupied),
                      (Underlyings \ occupied) \X {"put"})
    BY <1>2, Zenon DEF BeginPutIncome
  <2>1. PICK occupied \in Occupied(exits), highVol \in BOOLEAN :
            Begin(exits,
                  IF highVol \/ Cardinality(occupied) >= MaxNames THEN 0
                  ELSE MaxNames - Cardinality(occupied),
                  (Underlyings \ occupied) \X {"put"})
    BY <2>0
  <2>2. setup.kind = "put_income"
    BY <1>2 DEF BeginPutIncome
  <2>3. Begun(exits)
    BY <2>1, BeginGives
  <2>4. ASSUME pc' = "entries" PROVE Opened(exits)
    <3>1. candidates' = (Underlyings \ occupied) \X {"put"}
      BY <2>1, <2>4, BeginGives
    <3>2. \A c \in Managed \ exits :
              Named(c)' => \E e \in exits : Under[e] = Under[c]
      BY <3>1, OccupiedKeeps DEF Named
    <3>3. \A c \in Instruments : <<Under[c], Right[c]>> \in candidates' => Fits(c)
      BY <2>2, <3>1 DEF Fits
    <3> QED
      BY <2>2, <3>2, <3>3 DEF Opened
  <2> QED
    BY <2>2, <2>3, <2>4
<1>3. CASE BeginConvexity
  <2>0. PICK exits \in SUBSET Managed :
            \E occupied \in Occupied(exits) :
            \E longs, shorts \in SUBSET (Underlyings \ occupied) :
                Begin(exits, Len(Names),
                      (longs \X {"call"}) \cup (shorts \X {"put"}))
    BY <1>3 DEF BeginConvexity
  <2>1. PICK occupied \in Occupied(exits) :
            \E longs, shorts \in SUBSET (Underlyings \ occupied) :
                Begin(exits, Len(Names),
                      (longs \X {"call"}) \cup (shorts \X {"put"}))
    BY <2>0
  <2>2. PICK longs \in SUBSET (Underlyings \ occupied),
             shorts \in SUBSET (Underlyings \ occupied) :
                Begin(exits, Len(Names),
                      (longs \X {"call"}) \cup (shorts \X {"put"}))
    BY <2>1
  <2>3. setup.kind = "convexity"
    BY <1>3 DEF BeginConvexity
  <2>4. Begun(exits)
    BY <2>2, BeginGives
  <2>5. ASSUME pc' = "entries" PROVE Opened(exits)
    <3>1. candidates' = (longs \X {"call"}) \cup (shorts \X {"put"})
      BY <2>2, <2>5, BeginGives
    <3>2. \A c \in Managed \ exits :
              Named(c)' => \E e \in exits : Under[e] = Under[c]
      BY <3>1, OccupiedKeeps DEF Named
    <3>3. \A c \in Instruments : <<Under[c], Right[c]>> \in candidates' => Fits(c)
      BY <2>3, <3>1 DEF Fits
    <3> QED
      BY <2>3, <3>2, <3>3 DEF Opened
  <2> QED
    BY <2>3, <2>4, <2>5
<1>4. CASE BeginMomentum
  <2>1. setup.kind \in {"momentum_equity", "momentum_options"}
    BY <1>4 DEF BeginMomentum
  <2>2. CASE Begin({}, 0, {})
    <3>1. Begun({}) /\ pc' # "entries"
      BY <2>2, BeginGives
    <3> QED
      BY <2>1, <3>1
  <2>3. ASSUME NEW top \in SUBSET Underlyings,
               Begin({c \in Managed : Under[c] \notin top \/ Leaving(c)},
                     Len(Names),
                     top \X {IF setup.kind = "momentum_equity"
                             THEN "share" ELSE "call"})
        PROVE  \E exits \in SUBSET Managed :
                   Begun(exits) /\ (pc' = "entries" => Opened(exits))
    <3> DEFINE exits == {c \in Managed : Under[c] \notin top \/ Leaving(c)}
    <3>1. Begun(exits)
      BY <2>3, BeginGives
    <3>2. ASSUME pc' = "entries" PROVE Opened(exits)
      <4>1. candidates' = top \X {IF setup.kind = "momentum_equity"
                                  THEN "share" ELSE "call"}
        BY <2>3, <3>2, BeginGives
      <4>2. ASSUME setup.kind = "momentum_equity", NEW c \in exits
            PROVE  <<Under[c], Right[c]>> \notin candidates'
        BY <4>1, <4>2 DEF Leaving
      <4> QED
        BY <2>1, <4>2 DEF Opened, Fits
    <3> QED
      BY <3>1, <3>2
  <2> QED
    BY <1>4, <2>1, <2>2, <2>3 DEF BeginMomentum
<1>5. CASE BeginMeanReversion
  <2> DEFINE held == NamesOf({c \in Instruments : book[c] # 0})
  <2>1. PICK exits \in SUBSET Managed, washouts \in SUBSET Underlyings :
            /\ washouts \cap held = {}
            /\ Begin(exits, Len(Names), washouts \X {"share"})
    BY <1>5, Zenon DEF BeginMeanReversion
  <2>2. setup.kind = "mean_reversion"
    BY <1>5 DEF BeginMeanReversion
  <2>3. Begun(exits)
    BY <2>1, BeginGives
  <2>4. ASSUME pc' = "entries" PROVE Opened(exits)
    <3>1. candidates' = washouts \X {"share"}
      BY <2>1, <2>4, BeginGives
    <3>2. \A c \in exits : Under[c] \in held
      BY DEF Managed, NamesOf
    <3>3. \A c \in exits : <<Under[c], Right[c]>> \notin candidates'
      BY <2>1, <3>1, <3>2
    <3> QED
      BY <2>2, <3>3 DEF Opened, Fits
  <2> QED
    BY <2>2, <2>3, <2>4
<1> QED
  BY <1>1, <1>2, <1>3, <1>4, <1>5 DEF AnyBegin

-----------------------------------------------------------------------------
(* What the steps of a pass do *)

Fixed == setup' = setup /\ day' = day /\ book' = book

(* An order moves one entry of sent by q.                                  *)
Moves(c, q) ==
    /\ pc = "orders" /\ pc' = "orders" /\ q \in Int
    /\ sent'[c] = sent[c] + q
    /\ \A d \in Instruments : d # c => sent'[d] = sent[d]

LEMMA CloseGives ==
    ASSUME TypeOK, NEW c \in Instruments, CloseOrder(c)
    PROVE  /\ Fixed /\ target' = target /\ session' = session
           /\ atEnd' = atEnd /\ flatPass' = flatPass
           /\ c \in closing /\ closing' = closing \ {c}
           /\ \E q \in Int :
                  /\ Moves(c, q)
                  /\ book[c] <= 0 => 0 <= q /\ q <= -book[c]
                  /\ book[c] >= 0 => -book[c] <= q /\ q <= 0
                  /\ setup.closes /\ Live(c) => q = -book[c]
<1>1. PICK q \in GetsThrough(c, -book[c]) :
          /\ setup.closes /\ Live(c) => q = -book[c]
          /\ Trade(c, q)
  BY Zenon DEF CloseOrder
<1>2. BookOK
  BY TypeParts
<1>3. book[c] \in Int /\ -book[c] \in Int
  BY <1>2 DEF BookOK
<1>4. /\ q \in Int
      /\ -book[c] >= 0 => 0 <= q /\ q <= -book[c]
      /\ -book[c] <= 0 => -book[c] <= q /\ q <= 0
  BY <1>3, ThroughTyped
<1>5. pc' = "orders" /\ pc = "orders"
  BY DEF CloseOrder
<1>6. Moves(c, q)
  BY <1>1, <1>2, <1>3, <1>5, TradeTyped DEF Moves
<1>7. atEnd' = atEnd /\ flatPass' = flatPass
  BY Zenon DEF CloseOrder
<1>8. /\ Fixed /\ target' = target /\ session' = session
      /\ c \in closing /\ closing' = closing \ {c}
  BY DEF CloseOrder, Fixed, clock
<1> QED
  BY <1>1, <1>3, <1>4, <1>6, <1>7, <1>8

LEMMA TargetGives ==
    ASSUME TypeOK, NEW c \in Instruments, TargetOrder(c)
    PROVE  /\ Fixed /\ session' = session
           /\ atEnd' = atEnd /\ flatPass' = flatPass
           /\ closing = {} /\ closing' = {}
           /\ target[c] # 0 /\ target' = [target EXCEPT ![c] = 0]
           /\ \E q \in Int :
                  /\ Moves(c, q)
                  /\ target[c] >= 0 /\ book[c] >= 0 => q >= -book[c]
                  /\ target[c] <= 0 /\ book[c] <= 0 => q <= -book[c]
<1> DEFINE qty == OrderQty(target[c], book[c])
<1>1. PICK q \in GetsThrough(c, qty) : Trade(c, q)
  BY Zenon DEF TargetOrder
<1>2. BookOK
  BY TypeParts
<1>3. book[c] \in Int /\ target[c] \in Int
  BY <1>2 DEF BookOK
<1>4. /\ qty \in Int
      /\ target[c] >= 0 /\ book[c] >= 0 => qty >= -book[c]
      /\ target[c] <= 0 /\ book[c] <= 0 => qty <= -book[c]
  BY <1>3, OrderTyped
<1> HIDE DEF qty
<1>5. /\ q \in Int
      /\ qty >= 0 => 0 <= q /\ q <= qty
      /\ qty <= 0 => qty <= q /\ q <= 0
  BY <1>4, ThroughTyped
<1>6. pc' = "orders" /\ pc = "orders"
  BY DEF TargetOrder
<1>7. Moves(c, q)
  BY <1>1, <1>2, <1>4, <1>6, TradeTyped DEF Moves
<1>8. atEnd' = atEnd /\ flatPass' = flatPass
  BY Zenon DEF TargetOrder
<1>9. /\ Fixed /\ session' = session
      /\ closing = {} /\ closing' = {}
      /\ target[c] # 0 /\ target' = [target EXCEPT ![c] = 0]
  BY DEF TargetOrder, Fixed, clock
<1>10. /\ target[c] >= 0 /\ book[c] >= 0 => q >= -book[c]
       /\ target[c] <= 0 /\ book[c] <= 0 => q <= -book[c]
  BY <1>3, <1>4, <1>5, SMTT(30)
<1> QED
  BY <1>5, <1>7, <1>8, <1>9, <1>10

LEMMA EnterGives ==
    ASSUME TypeOK, NEW c \in Instruments, EnterName(c)
    PROVE  /\ Fixed /\ session' = session /\ sent' = sent
           /\ closing' = closing /\ candidates' = candidates
           /\ atEnd' = atEnd /\ flatPass' = flatPass
           /\ pc = "entries" /\ pc' = "entries"
           /\ Offered(c) /\ at \in DOMAIN Names /\ at' = at + 1
           /\ \E t \in Sizes(c) : /\ t \in Int /\ t # 0
                                  /\ target' = [target EXCEPT ![c] = t]
<1>1. PICK t \in Sizes(c) : target' = [target EXCEPT ![c] = t]
  BY Zenon DEF EnterName
<1>2. atEnd' = atEnd /\ flatPass' = flatPass /\ Offered(c)
  BY Zenon DEF EnterName
<1>3. /\ Fixed /\ session' = session /\ sent' = sent
      /\ closing' = closing /\ candidates' = candidates
      /\ pc = "entries" /\ pc' = "entries"
      /\ at <= Len(Names) /\ at' = at + 1
  BY DEF EnterName, Fixed, clock
<1>4. at \in DOMAIN Names
  BY <1>3, TypeParts, SizesOfSets DEF PlanOK
<1>5. t \in Int /\ t # 0
  BY SizesTyped
<1> QED
  BY <1>1, <1>2, <1>3, <1>4, <1>5

LEMMA EndGives ==
    ASSUME TypeOK, EndPass
    PROVE  /\ setup' = setup /\ day' = day /\ session' = session
           /\ pc' = "idle" /\ closing = {} /\ closing' = {}
           /\ target = None /\ target' = None /\ sent' = None
           /\ \A c \in Instruments : book'[c] = book[c] + sent[c]
<1>1. /\ setup' = setup /\ day' = day /\ session' = session
      /\ pc' = "idle" /\ closing = {} /\ closing' = {}
      /\ target = None /\ target' = None /\ sent' = None
  BY DEF EndPass, clock, signals
<1>2. book' = Account
  BY DEF EndPass
<1> QED
  BY <1>1, <1>2 DEF Account

LEMMA RestartGives ==
    ASSUME TypeOK, Restart
    PROVE  /\ setup' = setup /\ day' = day /\ session' = session
           /\ pc = "idle" /\ pc' = "idle" /\ closing' = closing
           /\ target' = target /\ sent' = sent
           /\ \A c \in Instruments : book'[c] = IF Live(c) THEN book[c] ELSE 0
  BY DEF Restart, clock, signals

(* The steps that touch neither positions nor signals.                     *)
Quiet == SkipName \/ EntriesDone \/ SessionMoves \/ NextDay \/ UNCHANGED vars

LEMMA QuietGives ==
    ASSUME Quiet
    PROVE  /\ setup' = setup /\ book' = book /\ sent' = sent
           /\ target' = target /\ closing' = closing
           /\ pc' = "entries" => pc = "entries" /\ candidates' = candidates
           /\ at' # at => at' = at + 1 \/ pc' # "entries"
  BY DEF Quiet, SkipName, EntriesDone, SessionMoves, NextDay, vars, plan,
         signals, clock

LEMMA StepKinds ==
    ASSUME [Next]_vars
    PROVE  \/ AnyBegin \/ Quiet \/ EndPass \/ Restart
           \/ \E c \in Instruments : CloseOrder(c) \/ TargetOrder(c) \/ EnterName(c)
  BY DEF Next, Pass, AnyBegin, Quiet

-----------------------------------------------------------------------------
(* No sleeve gets on the wrong side *)

OnSide(n) == IF setup.kind = "put_income" THEN n <= 0 ELSE n >= 0

(* Nothing a sleeve does not trade is held, asked for or traded.           *)
Fitting ==
    /\ \A c \in Instruments :
           ~Fits(c) => book[c] = 0 /\ target[c] = 0 /\ sent[c] = 0
    /\ pc = "entries" =>
           \A c \in Instruments : <<Under[c], Right[c]>> \in candidates => Fits(c)

(* A position is closed or asked for, not both, and has not been traded    *)
(* yet in the pass.                                                        *)
Apart ==
    \A c \in Instruments :
        /\ c \in closing => book[c] # 0 /\ target[c] = 0 /\ sent[c] = 0
        /\ target[c] # 0 => sent[c] = 0

(* Before the orders nothing is traded, and no candidate is being closed.  *)
Entering ==
    pc = "entries" =>
        \A c \in Instruments :
            /\ sent[c] = 0
            /\ /\ c \in closing
               /\ setup.kind \notin {"put_income", "convexity", "momentum_options"}
               => <<Under[c], Right[c]>> \notin candidates

Sided ==
    \A c \in Instruments :
        OnSide(book[c]) /\ OnSide(target[c]) /\ OnSide(book[c] + sent[c])

Unrepicked ==
    ~(setup.repicks /\ setup.kind \in {"put_income", "convexity"})

SidesInv == Fitting /\ (Unrepicked => Apart /\ Entering /\ Sided)

LEMMA IdleNone ==
    ASSUME TypeOK, pc = "idle"
    PROVE  \A c \in Instruments : target[c] = 0 /\ sent[c] = 0
  BY TypeParts DEF IdleOK, None

LEMMA InitSides == Init => SidesInv
<1> SUFFICES ASSUME Init PROVE SidesInv
  OBVIOUS
<1>1. \A c \in Instruments : book[c] = 0 /\ target[c] = 0 /\ sent[c] = 0
  BY DEF Init, None
<1>2. pc = "idle" /\ closing = {}
  BY DEF Init
<1> QED
  BY <1>1, <1>2 DEF SidesInv, Fitting, Apart, Entering, Sided, OnSide

LEMMA NextFitting == TypeOK /\ Fitting /\ [Next]_vars => Fitting'
<1> SUFFICES ASSUME TypeOK, Fitting, [Next]_vars PROVE Fitting'
  OBVIOUS
<1>1. BookOK
  BY TypeParts
<1>2. CASE AnyBegin
  <2>1. PICK exits \in SUBSET Managed :
            Begun(exits) /\ (pc' = "entries" => Opened(exits))
    BY <1>2, Beginnings
  <2> QED
    BY <2>1 DEF Begun, Opened, Fitting, Fits
<1>3. CASE Quiet
  BY <1>3, QuietGives DEF Fitting, Fits
<1>4. CASE EndPass
  <2>1. target' = target /\ setup' = setup /\ pc' # "entries"
    BY <1>4, EndGives
  <2>2. ASSUME NEW c \in Instruments, ~Fits(c) PROVE book'[c] = 0
    <3>1. book'[c] = book[c] + sent[c]
      BY <1>4, EndGives
    <3>2. book[c] = 0 /\ sent[c] = 0
      BY <2>2 DEF Fitting
    <3> QED
      BY <3>1, <3>2
  <2>3. \A c \in Instruments : sent'[c] = 0
    BY <1>4, EndGives DEF None
  <2> QED
    BY <2>1, <2>2, <2>3 DEF Fitting, Fits
<1>5. CASE Restart
  BY <1>5, RestartGives DEF Fitting, Fits
<1>6. ASSUME NEW c \in Instruments, CloseOrder(c) PROVE Fitting'
  <2>1. PICK q \in Int :
            /\ Moves(c, q)
            /\ book[c] <= 0 => 0 <= q /\ q <= -book[c]
            /\ book[c] >= 0 => -book[c] <= q /\ q <= 0
    BY <1>6, CloseGives
  <2>2. Fixed /\ target' = target /\ pc' # "entries"
    BY <1>6, <2>1, CloseGives DEF Moves
  <2>3. ~Fits(c) => q = 0
    BY <2>1 DEF Fitting
  <2>4. ASSUME NEW d \in Instruments, ~Fits(d) PROVE sent'[d] = 0
    <3>1. sent[d] = 0
      BY <2>4 DEF Fitting
    <3>2. CASE d = c
      <4>1. sent'[c] = sent[c] + q /\ q = 0
        BY <2>1, <2>3, <2>4, <3>2 DEF Moves
      <4> QED
        BY <3>1, <3>2, <4>1
    <3>3. CASE d # c
      BY <2>1, <3>1, <3>3 DEF Moves
    <3> QED
      BY <3>2, <3>3
  <2> QED
    BY <2>2, <2>4 DEF Fitting, Fits, Fixed
<1>7. ASSUME NEW c \in Instruments, TargetOrder(c) PROVE Fitting'
  <2>1. PICK q \in Int : Moves(c, q)
    BY <1>7, TargetGives
  <2>2. Fixed /\ pc' # "entries" /\ Fits(c)
    BY <1>7, <2>1, TargetGives DEF Moves, Fitting
  <2>3. \A d \in Instruments : d # c => target'[d] = target[d] /\ sent'[d] = sent[d]
    BY <1>1, <1>7, <2>1, TargetGives DEF BookOK, Moves
  <2> QED
    BY <2>2, <2>3 DEF Fitting, Fits, Fixed
<1>8. ASSUME NEW c \in Instruments, EnterName(c) PROVE Fitting'
  <2>1. /\ Fixed /\ sent' = sent /\ candidates' = candidates
        /\ pc = "entries" /\ Fits(c)
    BY <1>8, EnterGives DEF Fitting, Offered
  <2>2. \A d \in Instruments : d # c => target'[d] = target[d]
    BY <1>1, <1>8, EnterGives DEF BookOK
  <2> QED
    BY <2>1, <2>2 DEF Fitting, Fits, Fixed
<1> QED
  BY <1>2, <1>3, <1>4, <1>5, <1>6, <1>7, <1>8, StepKinds

LEMMA SetupFixed == TypeOK /\ [Next]_vars => setup' = setup
<1> SUFFICES ASSUME TypeOK, [Next]_vars PROVE setup' = setup
  OBVIOUS
<1>1. CASE AnyBegin
  <2>1. PICK exits \in SUBSET Managed : Begun(exits)
    BY <1>1, Beginnings
  <2> QED
    BY <2>1 DEF Begun
<1>2. CASE Quiet
  BY <1>2, QuietGives
<1>3. CASE EndPass
  BY <1>3, EndGives
<1>4. CASE Restart
  BY <1>4, RestartGives
<1>5. ASSUME NEW c \in Instruments, CloseOrder(c) PROVE setup' = setup
  BY <1>5, CloseGives DEF Fixed
<1>6. ASSUME NEW c \in Instruments, TargetOrder(c) PROVE setup' = setup
  BY <1>6, TargetGives DEF Fixed
<1>7. ASSUME NEW c \in Instruments, EnterName(c) PROVE setup' = setup
  BY <1>7, EnterGives DEF Fixed
<1> QED
  BY <1>1, <1>2, <1>3, <1>4, <1>5, <1>6, <1>7, StepKinds

LEMMA NextSides == TypeOK /\ SidesInv /\ [Next]_vars => SidesInv'
<1> SUFFICES ASSUME TypeOK, SidesInv, [Next]_vars, Unrepicked
             PROVE  Apart' /\ Entering' /\ Sided'
  <2>1. TypeOK /\ [Next]_vars => setup' = setup
    BY SetupFixed
  <2>2. TypeOK /\ SidesInv /\ [Next]_vars => Fitting'
    BY NextFitting DEF SidesInv
  <2> QED
    BY <2>1, <2>2 DEF SidesInv, Unrepicked
<1>1. BookOK
  BY TypeParts
<1>2. Apart /\ Entering /\ Sided
  BY DEF SidesInv
<1>3. CASE AnyBegin
  <2>1. PICK exits \in SUBSET Managed :
            Begun(exits) /\ (pc' = "entries" => Opened(exits))
    BY <1>3, Beginnings
  <2>2. \A c \in Instruments : target[c] = 0 /\ sent[c] = 0
    BY <2>1, IdleNone DEF Begun
  <2>3. Sided'
    BY <1>2, <2>1 DEF Begun, Sided, OnSide
  <2>4. Apart'
    BY <2>1, <2>2 DEF Begun, Apart, Managed
  <2>5. Entering'
    BY <2>1, <2>2 DEF Begun, Opened, Entering
  <2> QED
    BY <2>3, <2>4, <2>5
<1>4. CASE Quiet
  BY <1>2, <1>4, QuietGives DEF Apart, Entering, Sided, OnSide
<1>5. CASE EndPass
  <2>1. /\ target' = target /\ setup' = setup /\ pc' # "entries"
        /\ closing' = {}
    BY <1>5, EndGives
  <2>2. \A c \in Instruments : sent'[c] = 0 /\ target'[c] = 0
    BY <1>5, EndGives DEF None
  <2>3. ASSUME NEW c \in Instruments
        PROVE  /\ book'[c] \in Int /\ OnSide(book'[c])
               /\ book'[c] + sent'[c] = book'[c]
    <3>1. book'[c] = book[c] + sent[c]
      BY <1>5, EndGives
    <3>2. book[c] + sent[c] \in Int /\ OnSide(book[c] + sent[c])
      BY <1>1, <1>2 DEF Sided, BookOK
    <3> QED
      BY <2>2, <3>1, <3>2
  <2>4. Apart' /\ Entering'
    BY <2>1, <2>2 DEF Apart, Entering
  <2>5. Sided'
    BY <2>1, <2>2, <2>3 DEF Sided, OnSide
  <2> QED
    BY <2>4, <2>5
<1>6. CASE Restart
  <2>1. \A c \in Instruments : target[c] = 0 /\ sent[c] = 0
    BY <1>6, RestartGives, IdleNone
  <2>2. closing = {}
    BY <1>6, RestartGives, TypeParts DEF IdleOK
  <2>3. \A c \in Instruments : book[c] \in Int /\ OnSide(book[c])
    BY <1>1, <1>2 DEF BookOK, Sided
  <2> QED
    BY <1>6, <2>1, <2>2, <2>3, RestartGives DEF Apart, Entering, Sided, OnSide
<1>7. ASSUME NEW c \in Instruments, CloseOrder(c)
      PROVE  Apart' /\ Entering' /\ Sided'
  <2>1. PICK q \in Int :
            /\ Moves(c, q)
            /\ book[c] <= 0 => 0 <= q /\ q <= -book[c]
            /\ book[c] >= 0 => -book[c] <= q /\ q <= 0
    BY <1>7, CloseGives
  <2>2. /\ Fixed /\ target' = target /\ pc' # "entries"
        /\ c \in closing /\ closing' = closing \ {c}
    BY <1>7, <2>1, CloseGives DEF Moves
  <2>3. sent[c] = 0 /\ target[c] = 0 /\ OnSide(book[c]) /\ book[c] \in Int
    BY <1>1, <1>2, <2>2 DEF Apart, Sided, BookOK
  <2>4. sent'[c] = q /\ OnSide(book[c] + q)
    BY <2>1, <2>3 DEF Moves, OnSide
  <2>5. \A d \in Instruments : d # c => sent'[d] = sent[d]
    BY <2>1 DEF Moves
  <2>6. Apart' /\ Entering'
    BY <1>2, <2>2, <2>3, <2>5 DEF Fixed, Apart, Entering
  <2>7. Sided'
    BY <1>2, <2>2, <2>4, <2>5 DEF Fixed, Sided, OnSide
  <2> QED
    BY <2>6, <2>7
<1>8. ASSUME NEW c \in Instruments, TargetOrder(c)
      PROVE  Apart' /\ Entering' /\ Sided'
  <2>1. PICK q \in Int :
            /\ Moves(c, q)
            /\ target[c] >= 0 /\ book[c] >= 0 => q >= -book[c]
            /\ target[c] <= 0 /\ book[c] <= 0 => q <= -book[c]
    BY <1>8, TargetGives
  <2>2. /\ Fixed /\ pc' # "entries" /\ closing' = {}
        /\ target[c] # 0 /\ target' = [target EXCEPT ![c] = 0]
    BY <1>8, <2>1, TargetGives DEF Moves
  <2>3. /\ sent[c] = 0 /\ OnSide(book[c]) /\ OnSide(target[c])
        /\ book[c] \in Int /\ target[c] \in Int
    BY <1>1, <1>2, <2>2 DEF Apart, Sided, BookOK
  <2>4. sent'[c] = q /\ OnSide(book[c] + q)
    BY <2>1, <2>3 DEF Moves, OnSide
  <2>5. /\ \A d \in Instruments : d # c => sent'[d] = sent[d] /\ target'[d] = target[d]
        /\ target'[c] = 0
    BY <1>1, <2>1, <2>2 DEF Moves, BookOK
  <2>6. Apart' /\ Entering'
    BY <1>2, <2>2, <2>5 DEF Fixed, Apart, Entering
  <2>7. Sided'
    BY <1>2, <2>2, <2>4, <2>5 DEF Fixed, Sided, OnSide
  <2> QED
    BY <2>6, <2>7
<1>9. ASSUME NEW c \in Instruments, EnterName(c)
      PROVE  Apart' /\ Entering' /\ Sided'
  <2>1. /\ Fixed /\ sent' = sent /\ closing' = closing
        /\ candidates' = candidates /\ pc = "entries" /\ Offered(c)
    BY <1>9, EnterGives
  <2>2. PICK t \in Sizes(c) : t \in Int /\ target' = [target EXCEPT ![c] = t]
    BY <1>9, EnterGives
  <2>3. /\ \A d \in Instruments : d # c => target'[d] = target[d]
        /\ target'[c] = t
    BY <1>1, <2>2 DEF BookOK
  <2>4. OnSide(t)
    BY <2>2, SizesTyped DEF OnSide
  <2>5. c \notin closing
    <3>1. c \in closing => book[c] # 0
      BY <1>2 DEF Apart
    <3> QED
      BY <1>2, <2>1, <3>1 DEF Offered, Entering, Unrepicked
  <2>6. \A d \in Instruments : sent[d] = 0
    BY <1>2, <2>1 DEF Entering
  <2>7. Apart'
    BY <1>2, <2>1, <2>3, <2>5, <2>6 DEF Fixed, Apart
  <2>8. Entering'
    BY <1>2, <2>1 DEF Fixed, Entering
  <2>9. Sided'
    BY <1>2, <2>1, <2>3, <2>4 DEF Fixed, Sided, OnSide
  <2> QED
    BY <2>7, <2>8, <2>9
<1> QED
  BY <1>3, <1>4, <1>5, <1>6, <1>7, <1>8, <1>9, StepKinds

LEMMA SpecSides == Spec => [](TypeOK /\ SidesInv)
<1>1. Init => TypeOK /\ SidesInv
  BY InitTyped, InitSides
<1>2. TypeOK /\ SidesInv /\ [Next]_vars => TypeOK' /\ SidesInv'
  BY NextTyped, NextSides
<1> QED
  BY <1>1, <1>2, PTL DEF Spec

(* put_income never holds a long put and the other sleeves nothing short,  *)
(* whatever of their orders gets through, unless the chain gives           *)
(* put_income or convexity back the contract being closed.                 *)
THEOREM SidesKept == Spec => []SignKept
<1>1. TypeOK /\ SidesInv => SignKept
  BY DEF SidesInv, Unrepicked, SignKept, Sided, OnSide, Account
<1> QED
  BY <1>1, SpecSides, PTL

-----------------------------------------------------------------------------
(* zero_dte is flat before the close *)

(* Once a whole pass has seen the end of the session nothing live is left, *)
(* asked for or traded; while the pass goes on, what is live is still to   *)
(* be closed or has been.                                                  *)
AfterFlat ==
    /\ session = "flat" /\ pc # "entries"
    /\ \A c \in Instruments :
           target[c] = 0 /\ (Live(c) => book[c] = 0 /\ sent[c] = 0)

Flattening ==
    /\ session = "flat" /\ pc = "orders"
    /\ \A c \in Instruments :
           /\ target[c] = 0 /\ (book[c] = 0 => sent[c] = 0)
           /\ Live(c) /\ book[c] # 0 => c \in closing \/ book[c] + sent[c] = 0

FlatInv ==
    setup.kind = "zero_dte" /\ setup.closes =>
        (flatPass => AfterFlat) /\ (atEnd => Flattening)

LEMMA InitFlat == Init => FlatInv
  BY Zenon DEF Init, FlatInv

(* Steps that keep the flags keep the invariant if they keep its parts.    *)
LEMMA FlagsKept ==
    ASSUME flatPass' = flatPass, atEnd' = atEnd, setup' = setup,
           FlatInv,
           setup.kind = "zero_dte" /\ setup.closes /\ AfterFlat => AfterFlat',
           setup.kind = "zero_dte" /\ setup.closes /\ Flattening => Flattening'
    PROVE  FlatInv'
  BY Zenon DEF FlatInv

LEMMA NextFlat ==
    TypeOK /\ SidesInv /\ FlatInv /\ [Next]_vars => FlatInv'
<1> SUFFICES ASSUME TypeOK, SidesInv, FlatInv, [Next]_vars,
                    setup.kind = "zero_dte", setup.closes
             PROVE  FlatInv'
  <2>1. TypeOK /\ [Next]_vars => setup' = setup
    BY SetupFixed
  <2> QED
    BY <2>1, Zenon DEF FlatInv
<1>1. BookOK
  BY TypeParts
<1>2. Fitting /\ Apart /\ Sided
  BY DEF SidesInv, Unrepicked
<1>3. (flatPass => AfterFlat) /\ (atEnd => Flattening)
  BY Zenon DEF FlatInv
<1>4. CASE AnyBegin
  <2>1. PICK exits \in SUBSET Managed :
            /\ Begun(exits)
            /\ pc' = "entries" => Opened(exits)
            /\ setup.kind = "zero_dte" /\ session = "flat" => exits = Managed
    BY <1>4, Beginnings
  <2>2. \A c \in Instruments : target[c] = 0 /\ sent[c] = 0
    BY <2>1, IdleNone DEF Begun
  <2>3. ASSUME session = "flat" PROVE pc' = "orders"
    <3>1. pc' \in {"entries", "orders"}
      BY <2>1 DEF Begun
    <3>2. pc' = "entries" => session = "entry"
      BY <2>1 DEF Opened
    <3> QED
      BY <2>3, <3>1, <3>2
  <2>4. ASSUME AfterFlat PROVE AfterFlat'
    BY <2>1, <2>3, <2>4 DEF AfterFlat, Begun, Live
  <2>5. ASSUME session = "flat" PROVE Flattening'
    <3>1. closing' = Managed /\ pc' = "orders" /\ session' = "flat"
      BY <2>1, <2>3, <2>5 DEF Begun
    <3>2. ASSUME NEW c \in Instruments, book[c] # 0 PROVE c \in Managed
      <4>1. Right[c] # "share" /\ book[c] \in Int /\ book[c] >= 0
        BY <1>1, <1>2, <3>2 DEF Fitting, Fits, Sided, OnSide, BookOK
      <4> QED
        BY <3>2, <4>1 DEF Managed
    <3> QED
      BY <2>1, <2>2, <3>1, <3>2 DEF Begun, Flattening
  <2>6. setup' = setup /\ flatPass' = flatPass /\ (atEnd' => session = "flat")
    BY <2>1, Zenon DEF Begun
  <2> QED
    BY <1>3, <2>4, <2>5, <2>6, Zenon DEF FlatInv
<1>5. CASE SkipName
  <2>1. /\ flatPass' = flatPass /\ atEnd' = atEnd /\ setup' = setup
        /\ pc = "entries"
    BY <1>5, Zenon DEF SkipName
  <2> QED
    BY <2>1, FlagsKept DEF AfterFlat, Flattening
<1>6. CASE EntriesDone
  <2>1. /\ flatPass' = flatPass /\ atEnd' = atEnd /\ setup' = setup
        /\ pc = "entries"
    BY <1>6, Zenon DEF EntriesDone
  <2> QED
    BY <2>1, FlagsKept DEF AfterFlat, Flattening
<1>7. CASE SessionMoves
  <2>1. flatPass' = flatPass /\ atEnd' = atEnd /\ setup' = setup
    BY <1>7, Zenon DEF SessionMoves
  <2>2. session # "flat"
    BY <1>7 DEF SessionMoves, Sessions
  <2> QED
    BY <2>1, <2>2, FlagsKept DEF AfterFlat, Flattening
<1>8. CASE NextDay
  <2>1. flatPass' = FALSE /\ atEnd' = atEnd /\ setup' = setup /\ pc = "idle"
    BY <1>8, Zenon DEF NextDay
  <2>2. ~Flattening
    BY <2>1 DEF Flattening
  <2> QED
    BY <1>3, <2>1, <2>2, Zenon DEF FlatInv
<1>9. CASE UNCHANGED vars
  <2>1. flatPass' = flatPass /\ atEnd' = atEnd /\ setup' = setup
    BY <1>9, Zenon DEF vars
  <2> QED
    BY <1>9, <2>1, FlagsKept DEF vars, AfterFlat, Flattening, Live, clock, signals
<1>10. CASE EndPass
  <2>1. /\ setup' = setup /\ session' = session /\ day' = day /\ pc' = "idle"
        /\ closing = {} /\ sent' = None /\ target' = None
    BY <1>10, EndGives
  <2>2. flatPass' = (flatPass \/ atEnd) /\ atEnd' = FALSE
    BY <1>10, Zenon DEF EndPass
  <2>3. ASSUME AfterFlat \/ Flattening PROVE AfterFlat'
    <3>1. session' = "flat" /\ pc' # "entries"
      BY <2>1, <2>3 DEF AfterFlat, Flattening
    <3>2. ASSUME NEW c \in Instruments, Live(c) PROVE book[c] + sent[c] = 0
      <4>1. book[c] \in Int /\ sent[c] \in Int
        BY <1>1 DEF BookOK
      <4> QED
        BY <2>1, <2>3, <3>2, <4>1 DEF AfterFlat, Flattening
    <3>3. \A c \in Instruments : book'[c] = book[c] + sent[c]
      BY <1>10, EndGives
    <3> QED
      BY <2>1, <3>1, <3>2, <3>3 DEF AfterFlat, Live, None
  <2> QED
    BY <1>3, <2>1, <2>2, <2>3, Zenon DEF FlatInv
<1>11. CASE Restart
  <2>1. flatPass' = flatPass /\ atEnd' = atEnd
    BY <1>11, Zenon DEF Restart
  <2>2. /\ setup' = setup /\ session' = session /\ day' = day
        /\ pc = "idle" /\ pc' = "idle" /\ target' = target /\ sent' = sent
        /\ \A c \in Instruments : book'[c] = IF Live(c) THEN book[c] ELSE 0
    BY <1>11, RestartGives
  <2> QED
    BY <2>1, <2>2, FlagsKept DEF AfterFlat, Flattening, Live
<1>12. ASSUME NEW c \in Instruments, CloseOrder(c) PROVE FlatInv'
  <2>1. /\ flatPass' = flatPass /\ atEnd' = atEnd /\ Fixed
        /\ session' = session /\ target' = target
        /\ c \in closing /\ closing' = closing \ {c}
    BY <1>12, CloseGives
  <2>2. PICK q \in Int :
            Moves(c, q) /\ (setup.closes /\ Live(c) => q = -book[c])
    BY <1>12, CloseGives
  <2>3. book[c] # 0 /\ book[c] \in Int /\ sent[c] = 0
    BY <1>1, <1>2, <2>1 DEF Apart, BookOK
  <2>4. /\ pc' = "orders" /\ (Live(c) => book[c] + sent'[c] = 0)
        /\ \A d \in Instruments : d # c => sent'[d] = sent[d]
    BY <2>2, <2>3 DEF Moves
  <2>5. AfterFlat => AfterFlat'
    BY <2>1, <2>3, <2>4 DEF Fixed, AfterFlat, Live
  <2>6. Flattening => Flattening'
    BY <2>1, <2>3, <2>4 DEF Fixed, Flattening, Live
  <2> QED
    BY <2>1, <2>5, <2>6, FlagsKept DEF Fixed
<1>13. ASSUME NEW c \in Instruments, TargetOrder(c) PROVE FlatInv'
  <2>1. flatPass' = flatPass /\ atEnd' = atEnd /\ Fixed /\ target[c] # 0
    BY <1>13, TargetGives
  <2>2. ~AfterFlat /\ ~Flattening
    BY <2>1 DEF AfterFlat, Flattening
  <2> QED
    BY <2>1, <2>2, FlagsKept DEF Fixed
<1>14. ASSUME NEW c \in Instruments, EnterName(c) PROVE FlatInv'
  <2>1. flatPass' = flatPass /\ atEnd' = atEnd /\ Fixed /\ pc = "entries"
    BY <1>14, EnterGives
  <2>2. ~AfterFlat /\ ~Flattening
    BY <2>1 DEF AfterFlat, Flattening
  <2> QED
    BY <2>1, <2>2, FlagsKept DEF Fixed
<1> QED
  BY <1>4, <1>5, <1>6, <1>7, <1>8, <1>9, <1>10, <1>11, <1>12, <1>13, <1>14,
     StepKinds DEF Quiet

(* Where closes go through, zero_dte holds nothing live from the end of    *)
(* the first whole pass that sees the end of the session.                  *)
THEOREM FlatAtBell == Spec => []FlatBeforeClose
<1>1. Init => TypeOK /\ SidesInv /\ FlatInv
  BY InitTyped, InitSides, InitFlat
<1>2. TypeOK /\ SidesInv /\ FlatInv /\ [Next]_vars
          => TypeOK' /\ SidesInv' /\ FlatInv'
  BY NextTyped, NextSides, NextFlat
<1>3. TypeOK /\ FlatInv => FlatBeforeClose
  <2>1. TypeOK => BookOK
    BY TypeParts
  <2>2. ASSUME AfterFlat, NEW c \in Instruments, Live(c) PROVE Account[c] = 0
    BY <2>2 DEF AfterFlat, Account
  <2> QED
    BY <2>2, Zenon DEF FlatInv, FlatBeforeClose
<1> QED
  BY <1>1, <1>2, <1>3, PTL DEF Spec

-----------------------------------------------------------------------------
(* One contract of a name *)

(* The circumstances in which a sleeve is held to one contract of a name.  *)
OneEach ==
    \/ setup.kind = "zero_dte"
    \/ setup.kind \in {"put_income", "convexity"} /\ setup.closes /\ ~setup.repicks

Going(c) == setup.kind # "zero_dte" /\ c \in closing

(* What is asked for is the only one of its name, but for what is going.   *)
Alone ==
    \A c, d \in Instruments :
        c # d /\ Under[c] = Under[d] =>
            /\ book[c] + sent[c] = 0 \/ book[d] + sent[d] = 0
            /\ target[c] # 0 =>
                   target[d] = 0 /\ (book[d] + sent[d] = 0 \/ Going(d))

(* Where closes go through nothing that expired stays with the sleeve.     *)
AllLive ==
    setup.closes =>
        \A c \in Instruments :
            book[c] # 0 \/ sent[c] # 0 \/ target[c] # 0 => Live(c)

(* While names are entered, those to be entered are free, and what was     *)
(* entered is of a name already passed.                                    *)
Free ==
    pc = "entries" =>
        \A c \in Instruments :
            /\ Named(c) => book[c] = 0 \/ Going(c)
            /\ target[c] # 0 => \E k \in DOMAIN Names : k < at /\ Names[k] = Under[c]

OneInv == AllLive /\ (OneEach => Alone /\ Free)

LEMMA InitOne == Init => OneInv
<1> SUFFICES ASSUME Init PROVE OneInv
  OBVIOUS
<1>1. \A c \in Instruments : book[c] = 0 /\ target[c] = 0 /\ sent[c] = 0
  BY DEF Init, None
<1>2. pc = "idle"
  BY DEF Init
<1> QED
  BY <1>1, <1>2 DEF OneInv, AllLive, Alone, Free

LEMMA NextLive == TypeOK /\ SidesInv /\ AllLive /\ [Next]_vars => AllLive'
<1> SUFFICES ASSUME TypeOK, AllLive, [Next]_vars, setup.closes PROVE AllLive'
  <2>1. TypeOK /\ [Next]_vars => setup' = setup
    BY SetupFixed
  <2> QED
    BY <2>1 DEF AllLive
<1>1. BookOK /\ ClockOK
  BY TypeParts
<1>2. \A c \in Instruments : book[c] # 0 \/ sent[c] # 0 \/ target[c] # 0 => Live(c)
  BY DEF AllLive
<1>3. CASE AnyBegin
  <2>1. PICK exits \in SUBSET Managed : Begun(exits)
    BY <1>3, Beginnings
  <2> QED
    BY <1>2, <2>1 DEF Begun, AllLive, Live
<1>4. CASE SkipName \/ EntriesDone \/ SessionMoves \/ UNCHANGED vars
  BY <1>2, <1>4 DEF SkipName, EntriesDone, SessionMoves, vars, signals, clock,
                    AllLive, Live
<1>5. CASE NextDay
  <2>1. /\ book' = book /\ sent' = sent /\ target' = target /\ pc = "idle"
        /\ day' = day + 1 /\ setup' = setup
        /\ \A c \in Instruments : book[c] # 0 => ~Leaving(c)
    BY <1>5 DEF NextDay, signals
  <2>2. \A c \in Instruments : target[c] = 0 /\ sent[c] = 0
    BY <2>1, IdleNone
  <2>3. ASSUME NEW c \in Instruments, ~Leaving(c)
        PROVE  Right[c] = "share" \/ Expiry[c] >= day + 1
    <3>1. Expiry[c] \in Nat /\ ExitDte \in Nat /\ day \in Int
      BY <1>1 DEF ClockOK
    <3> QED
      BY <2>3, <3>1 DEF Leaving, Dte
  <2> QED
    BY <2>1, <2>2, <2>3 DEF AllLive, Live
<1>6. CASE EndPass
  <2>1. /\ setup' = setup /\ day' = day /\ target = None /\ target' = None
        /\ sent' = None
    BY <1>6, EndGives
  <2>2. ASSUME NEW c \in Instruments, book'[c] # 0 PROVE Live(c)
    <3>1. book'[c] = book[c] + sent[c] /\ book[c] \in Int /\ sent[c] \in Int
      BY <1>1, <1>6, EndGives DEF BookOK
    <3> QED
      BY <1>2, <2>2, <3>1
  <2> QED
    BY <2>1, <2>2 DEF AllLive, Live, None
<1>7. CASE Restart
  BY <1>2, <1>7, RestartGives DEF AllLive, Live
<1>8. ASSUME NEW c \in Instruments, CloseOrder(c) PROVE AllLive'
  <2>1. PICK q \in Int :
            /\ Moves(c, q)
            /\ book[c] <= 0 => 0 <= q /\ q <= -book[c]
            /\ book[c] >= 0 => -book[c] <= q /\ q <= 0
    BY <1>8, CloseGives
  <2>2. Fixed /\ target' = target
    BY <1>8, CloseGives
  <2>3. \A d \in Instruments : sent'[d] # 0 => Live(d)
    <3>1. sent'[c] # 0 => sent[c] # 0 \/ book[c] # 0
      <4>1. sent'[c] = sent[c] + q /\ sent[c] \in Int /\ book[c] \in Int
        BY <1>1, <2>1 DEF Moves, BookOK
      <4> QED
        BY <2>1, <4>1
    <3> QED
      BY <1>2, <2>1, <3>1 DEF Moves
  <2> QED
    BY <1>2, <2>2, <2>3 DEF Fixed, AllLive, Live
<1>9. ASSUME NEW c \in Instruments, TargetOrder(c) PROVE AllLive'
  <2>1. PICK q \in Int : Moves(c, q)
    BY <1>9, TargetGives
  <2>2. Fixed /\ target[c] # 0 /\ target' = [target EXCEPT ![c] = 0]
    BY <1>9, TargetGives
  <2>3. \A d \in Instruments : sent'[d] # 0 => Live(d)
    BY <1>2, <2>1, <2>2 DEF Moves
  <2>4. \A d \in Instruments : target'[d] # 0 => Live(d)
    BY <1>1, <1>2, <2>2 DEF BookOK
  <2> QED
    BY <1>2, <2>2, <2>3, <2>4 DEF Fixed, AllLive, Live
<1>10. ASSUME NEW c \in Instruments, EnterName(c) PROVE AllLive'
  <2>1. Fixed /\ sent' = sent /\ Offered(c)
    BY <1>10, EnterGives
  <2>2. \A d \in Instruments : d # c => target'[d] = target[d]
    BY <1>1, <1>10, EnterGives DEF BookOK
  <2>3. Live(c)
    <3>1. Dte(c) = 0 \/ Enterable(c)
      BY <2>1 DEF Offered
    <3>2. Expiry[c] \in Nat /\ MinDte \in Nat /\ day \in Int
      BY <1>1 DEF ClockOK
    <3> QED
      BY <3>1, <3>2 DEF Enterable, Dte, Live
  <2> QED
    BY <1>2, <2>1, <2>2, <2>3 DEF Fixed, AllLive, Live
<1> QED
  BY <1>3, <1>4, <1>5, <1>6, <1>7, <1>8, <1>9, <1>10, StepKinds DEF Quiet

LEMMA NextOne ==
    TypeOK /\ SidesInv /\ OneInv /\ [Next]_vars => OneInv'
<1> SUFFICES ASSUME TypeOK, SidesInv, OneInv, [Next]_vars, OneEach
             PROVE  Alone' /\ Free'
  <2>1. TypeOK /\ [Next]_vars => setup' = setup
    BY SetupFixed
  <2>2. TypeOK /\ SidesInv /\ OneInv /\ [Next]_vars => AllLive'
    BY NextLive DEF OneInv
  <2> QED
    BY <2>1, <2>2 DEF OneInv, OneEach
<1>1. BookOK /\ PlanOK
  BY TypeParts
<1>2. Fitting /\ Apart /\ Entering /\ Sided
  BY DEF SidesInv, Unrepicked, OneEach
<1>3. Alone /\ Free /\ AllLive
  BY DEF OneInv
<1>4. \A c \in Instruments : book[c] \in Int /\ sent[c] \in Int /\ target[c] \in Int
  BY <1>1 DEF BookOK
<1>5. CASE AnyBegin
  <2>1. PICK exits \in SUBSET Managed :
            Begun(exits) /\ (pc' = "entries" => Opened(exits))
    BY <1>5, Beginnings
  <2>2. \A c \in Instruments : target[c] = 0 /\ sent[c] = 0
    BY <2>1, IdleNone DEF Begun
  <2>3. Alone'
    BY <1>3, <2>1, <2>2 DEF Begun, Alone
  <2>4. ASSUME pc' = "entries", NEW c \in Instruments, Named(c)', book[c] # 0
        PROVE  setup.kind # "zero_dte" /\ c \in exits
    <3>1. c \in Managed
      BY <1>2, <1>4, <2>4 DEF Fitting, Fits, Sided, OnSide, Managed, OneEach
    <3>2. setup.kind # "zero_dte"
      BY <2>1, <2>4, <3>1 DEF Opened
    <3>3. ASSUME c \notin exits PROVE FALSE
      <4>1. PICK e \in exits : Under[e] = Under[c]
        BY <2>1, <2>4, <3>1, <3>2, <3>3 DEF Opened, OneEach
      <4>2. e \in Instruments /\ book[e] # 0 /\ e # c
        BY <3>3, <4>1 DEF Managed
      <4>3. book[e] + sent[e] # 0 /\ book[c] + sent[c] # 0
        BY <1>4, <2>2, <2>4, <4>2
      <4> QED
        BY <1>3, <4>1, <4>2, <4>3 DEF Alone
    <3> QED
      BY <3>2, <3>3
  <2>5. Free'
    BY <2>1, <2>2, <2>4 DEF Begun, Free, Going
  <2> QED
    BY <2>3, <2>5
<1>6. CASE Quiet
  <2>1. /\ setup' = setup /\ book' = book /\ sent' = sent
        /\ target' = target /\ closing' = closing
        /\ pc' = "entries" => pc = "entries" /\ candidates' = candidates
    BY <1>6, QuietGives
  <2>2. Alone'
    BY <1>3, <2>1 DEF Alone, Going
  <2>3. ASSUME pc' = "entries", NEW k \in DOMAIN Names, k < at PROVE k < at'
    <3>1. at' = at \/ at' = at + 1
      BY <1>6, <2>3, QuietGives
    <3>2. k \in Int /\ at \in Int
      BY <1>1, SizesOfSets DEF PlanOK
    <3> QED
      BY <2>3, <3>1, <3>2
  <2>4. Free'
    BY <1>3, <2>1, <2>3 DEF Free, Going, Named
  <2> QED
    BY <2>2, <2>4
<1>7. CASE EndPass
  <2>1. /\ setup' = setup /\ pc' = "idle"
        /\ target' = None /\ sent' = None
    BY <1>7, EndGives
  <2>2. ASSUME NEW c \in Instruments
        PROVE  book'[c] + sent'[c] = book[c] + sent[c] /\ target'[c] = 0
    <3>1. book'[c] = book[c] + sent[c]
      BY <1>7, EndGives
    <3> QED
      BY <1>4, <2>1, <3>1 DEF None
  <2> QED
    BY <1>3, <2>1, <2>2 DEF Alone, Free
<1>8. CASE Restart
  <2>1. /\ pc = "idle" /\ pc' = "idle" /\ target' = target /\ sent' = sent
        /\ \A c \in Instruments : book'[c] = IF Live(c) THEN book[c] ELSE 0
    BY <1>8, RestartGives
  <2>2. \A c \in Instruments : target[c] = 0 /\ sent[c] = 0
    BY <2>1, IdleNone
  <2>3. ASSUME NEW c \in Instruments, book[c] + sent[c] = 0
        PROVE  book'[c] + sent'[c] = 0
    <3>1. book[c] = 0 /\ sent'[c] = 0
      BY <1>4, <2>1, <2>2, <2>3
    <3>2. book'[c] = 0
      BY <2>1, <3>1
    <3> QED
      BY <3>1, <3>2
  <2> QED
    BY <1>3, <2>1, <2>2, <2>3 DEF Alone, Free
<1>9. ASSUME NEW c \in Instruments, CloseOrder(c) PROVE Alone' /\ Free'
  <2>1. PICK q \in Int :
            /\ Moves(c, q)
            /\ setup.closes /\ Live(c) => q = -book[c]
    BY <1>9, CloseGives
  <2>2. /\ Fixed /\ target' = target /\ pc' # "entries"
        /\ c \in closing /\ closing' = closing \ {c}
    BY <1>9, <2>1, CloseGives DEF Moves
  <2>3. book[c] # 0 /\ sent[c] = 0 /\ book[c] + sent[c] # 0
    BY <1>2, <1>4, <2>2 DEF Apart
  <2>4. \A d \in Instruments : d # c => sent'[d] = sent[d]
    BY <2>1 DEF Moves
  <2>5. setup.kind # "zero_dte" => book[c] + sent'[c] = 0
    <3>1. setup.kind # "zero_dte" => setup.closes /\ Live(c)
      BY <1>3, <2>3 DEF OneEach, AllLive
    <3> QED
      BY <1>4, <2>1, <2>3, <3>1 DEF Moves
  <2>6. ASSUME NEW d \in Instruments, d # c, Under[d] = Under[c]
        PROVE  /\ book[d] + sent[d] = 0
               /\ target[d] # 0 => setup.kind # "zero_dte"
    BY <1>3, <2>3, <2>6 DEF Alone, Going
  <2>7. ASSUME NEW a \in Instruments, NEW b \in Instruments,
               a # b, Under[a] = Under[b]
        PROVE  /\ book[a] + sent'[a] = 0 \/ book[b] + sent'[b] = 0
               /\ target[a] # 0 =>
                      target[b] = 0 /\ (book[b] + sent'[b] = 0 \/ Going(b)')
    <3>1. CASE a # c /\ b # c
      BY <1>3, <2>2, <2>4, <2>7, <3>1 DEF Alone, Going, Fixed
    <3>2. CASE a = c
      <4>1. book[b] + sent'[b] = 0 /\ target[a] = 0
        BY <1>2, <2>2, <2>4, <2>6, <2>7, <3>2 DEF Apart
      <4> QED
        BY <4>1
    <3>3. CASE b = c
      <4>1. book[a] + sent'[a] = 0 /\ target[b] = 0
        BY <1>2, <2>2, <2>4, <2>6, <2>7, <3>3 DEF Apart
      <4>2. target[a] # 0 => book[b] + sent'[b] = 0
        BY <2>5, <2>6, <2>7, <3>3
      <4> QED
        BY <4>1, <4>2
    <3> QED
      BY <3>1, <3>2, <3>3
  <2> QED
    BY <2>2, <2>7 DEF Fixed, Alone, Free
<1>10. ASSUME NEW c \in Instruments, TargetOrder(c) PROVE Alone' /\ Free'
  <2>1. PICK q \in Int : Moves(c, q)
    BY <1>10, TargetGives
  <2>2. /\ Fixed /\ pc' # "entries" /\ closing = {} /\ closing' = {}
        /\ target[c] # 0 /\ target' = [target EXCEPT ![c] = 0]
    BY <1>10, <2>1, TargetGives DEF Moves
  <2>3. /\ \A d \in Instruments : d # c => sent'[d] = sent[d] /\ target'[d] = target[d]
        /\ target'[c] = 0
    BY <1>1, <2>1, <2>2 DEF Moves, BookOK
  <2>4. \A d \in Instruments :
            d # c /\ Under[d] = Under[c] => book[d] + sent[d] = 0 /\ target[d] = 0
    BY <1>3, <2>2 DEF Alone, Going
  <2>5. ASSUME NEW a \in Instruments, NEW b \in Instruments,
               a # b, Under[a] = Under[b]
        PROVE  /\ book[a] + sent'[a] = 0 \/ book[b] + sent'[b] = 0
               /\ target'[a] # 0 => target'[b] = 0 /\ book[b] + sent'[b] = 0
    <3>1. CASE a # c /\ b # c
      BY <1>3, <2>2, <2>3, <2>5, <3>1 DEF Alone, Going
    <3>2. CASE a = c \/ b = c
      BY <2>3, <2>4, <2>5, <3>2
    <3> QED
      BY <3>1, <3>2
  <2> QED
    BY <2>2, <2>5 DEF Fixed, Alone, Free
<1>11. ASSUME NEW c \in Instruments, EnterName(c) PROVE Alone' /\ Free'
  <2>1. /\ Fixed /\ sent' = sent /\ closing' = closing
        /\ candidates' = candidates /\ pc = "entries" /\ Offered(c)
        /\ at \in DOMAIN Names /\ at' = at + 1
    BY <1>11, EnterGives
  <2>2. \A d \in Instruments : d # c => target'[d] = target[d]
    BY <1>1, <1>11, EnterGives DEF BookOK
  <2>3. Under[c] = Names[at] /\ <<Under[c], Right[c]>> \in candidates
    BY <2>1 DEF Offered
  <2>4. ASSUME NEW d \in Instruments, d # c, Under[d] = Under[c]
        PROVE  target[d] = 0 /\ (book[d] + sent[d] = 0 \/ Going(d))
    <3>1. target[d] = 0
      <4>1. ASSUME NEW k \in DOMAIN Names, k < at, Names[k] = Under[d] PROVE FALSE
        <5>1. k = at
          BY <2>1, <2>3, <2>4, <4>1
        <5> QED
          BY <1>1, <4>1, <5>1 DEF PlanOK
      <4> QED
        BY <1>3, <2>1, <4>1 DEF Free
    <3>2. Named(d)
      BY <2>3, <2>4 DEF Named
    <3>3. book[d] = 0 \/ Going(d)
      BY <1>3, <2>1, <3>2 DEF Free
    <3>4. sent[d] = 0
      BY <1>2, <2>1 DEF Entering
    <3> QED
      BY <3>1, <3>3, <3>4
  <2>5. ASSUME NEW a \in Instruments, NEW b \in Instruments,
               a # b, Under[a] = Under[b]
        PROVE  /\ book[a] + sent[a] = 0 \/ book[b] + sent[b] = 0
               /\ target'[a] # 0 =>
                      target'[b] = 0 /\ (book[b] + sent[b] = 0 \/ Going(b))
    <3>1. CASE a # c /\ b # c
      BY <1>3, <2>2, <2>5, <3>1 DEF Alone
    <3>2. CASE a = c
      BY <1>3, <2>2, <2>4, <2>5, <3>2 DEF Alone
    <3>3. CASE b = c
      BY <1>3, <2>2, <2>4, <2>5, <3>3 DEF Alone
    <3> QED
      BY <3>1, <3>2, <3>3
  <2>6. Alone'
    BY <2>1, <2>5 DEF Alone, Going, Fixed
  <2>7. ASSUME NEW d \in Instruments, target'[d] # 0
        PROVE  \E k \in DOMAIN Names : k < at' /\ Names[k] = Under[d]
    <3>1. at \in Int /\ \A k \in DOMAIN Names : k \in Int
      BY <1>1, SizesOfSets DEF PlanOK
    <3>2. CASE d = c
      BY <2>1, <2>3, <3>1, <3>2
    <3>3. CASE d # c
      <4>1. PICK k \in DOMAIN Names : k < at /\ Names[k] = Under[d]
        BY <1>3, <2>1, <2>2, <2>7, <3>3 DEF Free
      <4> QED
        BY <2>1, <3>1, <4>1
    <3> QED
      BY <3>2, <3>3
  <2>8. Free'
    BY <1>3, <2>1, <2>7 DEF Free, Fixed, Going, Named
  <2> QED
    BY <2>6, <2>8
<1> QED
  BY <1>5, <1>6, <1>7, <1>8, <1>9, <1>10, <1>11, StepKinds

(* zero_dte never holds two contracts of a name, whatever becomes of its   *)
(* closes; put_income and convexity do not while closes go through.        *)
THEOREM OneEachKept == Spec => []OneContractPerName
<1>1. Init => TypeOK /\ SidesInv /\ OneInv
  BY InitTyped, InitSides, InitOne
<1>2. TypeOK /\ SidesInv /\ OneInv /\ [Next]_vars
          => TypeOK' /\ SidesInv' /\ OneInv'
  BY NextTyped, NextSides, NextOne
<1>3. OneInv => OneContractPerName
  BY DEF OneInv, OneEach, Alone, OneContractPerName, Account
<1> QED
  BY <1>1, <1>2, <1>3, PTL DEF Spec

-----------------------------------------------------------------------------
(* What the written puts secure *)

(* The strikes of a position are a number, and more the shorter it is.     *)
LEMMA ObligationGrows ==
    ASSUME NEW c \in Instruments, NEW m \in Int, NEW n \in Int
    PROVE  /\ Obligation(c, m) \in Nat
           /\ m <= n => Obligation(c, n) <= Obligation(c, m)
           /\ m >= 0 => Obligation(c, m) = 0
           /\ Right[c] # "put" => Obligation(c, m) = 0
<1>1. ASSUME NEW k \in Int PROVE Obligation(c, k) \in Nat
  <2>1. Abs(k) \in Nat /\ Strike[c] \in Nat
    BY DEF Abs
  <2>2. Strike[c] * Abs(k) \in Nat
    BY <2>1, TimesNat
  <2> QED
    BY <2>2 DEF Obligation
<1>2. ASSUME m <= n PROVE Obligation(c, n) <= Obligation(c, m)
  <2>1. CASE Right[c] = "put" /\ n < 0
    <3>1. Abs(n) \in Nat /\ Abs(m) \in Nat /\ Abs(n) <= Abs(m) /\ Strike[c] \in Nat
      BY <1>2, <2>1 DEF Abs
    <3>2. Strike[c] * Abs(n) <= Strike[c] * Abs(m)
      BY <3>1, TimesMore
    <3>3. m < 0
      BY <1>2, <2>1
    <3> QED
      BY <2>1, <3>2, <3>3 DEF Obligation
  <2>2. CASE ~(Right[c] = "put" /\ n < 0)
    <3>1. Obligation(c, n) = 0
      BY <2>2 DEF Obligation
    <3>2. Obligation(c, m) \in Nat
      BY <1>1
    <3> QED
      BY <3>1, <3>2
  <2> QED
    BY <2>1, <2>2
<1>3. (m >= 0 => Obligation(c, m) = 0) /\ (Right[c] # "put" => Obligation(c, m) = 0)
  BY DEF Obligation
<1> QED
  BY <1>1, <1>2, <1>3

(* An order for a stated number of contracts never leaves the position     *)
(* shorter than it was and shorter than stated, whatever gets through.     *)
LEMMA WriteStopsAt ==
    ASSUME NEW n \in Int, 1 <= n, n < 1000, NEW held \in Int, NEW c,
           NEW q \in GetsThrough(c, OrderQty(-1001 * n, held))
    PROVE  q \in Int /\ (q >= 0 \/ held + q >= -n)
<1> DEFINE t == -1001 * n
           delta == t - 1000 * held
           whole == Abs(delta) \div 1000
           qty == OrderQty(t, held)
<1>1. t \in Int /\ delta \in Int /\ Abs(delta) \in Nat
  <2>1. t \in Int
    OBVIOUS
  <2> HIDE DEF t
  <2>2. delta \in Int
    BY <2>1
  <2> HIDE DEF delta
  <2> QED
    BY <2>1, <2>2 DEF Abs
<1>2. whole \in Nat /\ 1000 * whole <= Abs(delta)
  BY <1>1, DivBounds
<1>3. qty \in Int
  BY <1>1, OrderTyped
<1>4. /\ q \in Int
      /\ qty >= 0 => 0 <= q /\ q <= qty
      /\ qty <= 0 => qty <= q /\ q <= 0
  <2> HIDE DEF qty
  <2>1. q \in GetsThrough(c, qty)
    BY DEF qty
  <2> QED
    BY <1>3, <2>1, ThroughTyped
<1>5. CASE delta > 0
  <2>1. qty \in {0, whole * 1}
    BY <1>5 DEF OrderQty
  <2> HIDE DEF qty, whole
  <2>2. qty >= 0
    BY <1>2, <2>1
  <2> QED
    BY <1>3, <1>4, <2>2
<1>6. CASE delta <= 0
  <2>1. qty \in {0, whole * (-1)}
    BY <1>1, <1>6 DEF OrderQty
  <2>2. Abs(delta) = 1001 * n + 1000 * held
    BY <1>6 DEF Abs
  <2> HIDE DEF qty, whole
  <2>3. 1000 * whole <= 1001 * n + 1000 * held
    BY <1>2, <2>2
  <2>4. whole <= held + n
    BY <1>2, <2>3
  <2>5. qty \in {0, -whole}
    BY <1>2, <2>1
  <2>6. q >= 0 \/ q >= -whole
    BY <1>2, <1>3, <1>4, <2>5
  <2> QED
    BY <1>2, <1>4, <2>4, <2>6
<1> QED
  BY <1>1, <1>5, <1>6

(* The most a pass may come to owe on an instrument: what it owes or will  *)
(* at the pass's beginning or now, and what is still asked for.            *)
Most(a, b) == IF a < b THEN b ELSE a

Worst ==
    [c \in Instruments |->
        Most(Obligation(c, book[c]), Obligation(c, book[c] + sent[c]))
            + Obligation(c, Asked[c])]

(* put_income: closes buy back what the book is short, before anything of  *)
(* it is sold; writes state whole contracts; and while there is one to be  *)
(* sent, all that the pass may come to owe fits its share of the capital.  *)
Writing ==
    setup.kind = "put_income" =>
        /\ \A c \in Instruments :
               /\ c \in closing => book[c] < 0 /\ sent[c] = 0
               /\ target[c] # 0 =>
                      sent[c] >= 0 /\ \E n \in 1..PerNameCap : target[c] = -1001 * n
               /\ pc = "entries" => sent[c] = 0
        /\ (\E c \in Instruments : target[c] # 0) =>
               SumFunctionOnSet(Worst, Instruments) <= Secured

(* A signal for n contracts asks for n.                                    *)
AskedOf(t) == -(Abs(t) \div 1001)

Stated(t, n) == t = -1001 * n

LEMMA Asks ==
    ASSUME NEW t \in Int
    PROVE  /\ AskedOf(t) \in Int
           /\ t = 0 => AskedOf(t) = 0
           /\ \A n \in Nat : Stated(t, n) => AskedOf(t) = -n
<1>1. Abs(t) \in Nat
  BY DEF Abs
<1>2. Abs(t) \div 1001 \in Nat
  BY <1>1, DivBounds
<1>3. \A n \in Nat : (n * 1001) \div 1001 = n
  BY DivOfProduct
<1>4. t = 0 => Abs(t) = 0 * 1001
  BY DEF Abs
<1>5. ASSUME NEW n \in Nat, t = -1001 * n PROVE Abs(t) = n * 1001
  <2>1. -1001 * n <= 0
    OBVIOUS
  <2> QED
    BY <1>5, <2>1 DEF Abs
<1> QED
  BY <1>2, <1>3, <1>4, <1>5 DEF AskedOf, Stated

LEMMA AskedIs ==
    ASSUME BookOK, NEW c \in Instruments
    PROVE  /\ Asked[c] \in Int
           /\ target[c] = 0 => Asked[c] = 0
           /\ \A n \in Nat : Stated(target[c], n) => Asked[c] = -n
<1>1. target[c] \in Int /\ Asked[c] = AskedOf(target[c])
  BY DEF BookOK, Asked, AskedOf
<1> QED
  BY <1>1, Asks, Zenon

(* The same of the state after a step.                                     *)
LEMMA AskedNext ==
    ASSUME BookOK', NEW d \in Instruments
    PROVE  /\ target'[d] = 0 => Asked'[d] = 0
           /\ \A n \in Nat : Stated(target'[d], n) => Asked'[d] = -n
<1>1. target'[d] \in Int
  BY DEF BookOK
<1>2. Asked'[d] = AskedOf(target'[d])
  BY DEF Asked, Abs, AskedOf
<1> QED
  BY <1>1, <1>2, Asks, Zenon

LEMMA WorstTyped ==
    ASSUME BookOK, NEW c \in Instruments
    PROVE  /\ Worst[c] \in Nat
           /\ Obligation(c, book[c]) \in Nat
           /\ Obligation(c, book[c] + sent[c]) \in Nat
           /\ Obligation(c, Asked[c]) \in Nat
           /\ Worst[c] = Most(Obligation(c, book[c]), Obligation(c, book[c] + sent[c]))
                             + Obligation(c, Asked[c])
           /\ Obligation(c, book[c] + sent[c]) <= Worst[c]
<1>1. book[c] \in Int /\ sent[c] \in Int /\ Asked[c] \in Int
  BY AskedIs DEF BookOK
<1>2. /\ Obligation(c, book[c]) \in Nat
      /\ Obligation(c, book[c] + sent[c]) \in Nat
      /\ Obligation(c, Asked[c]) \in Nat
  BY <1>1, ObligationGrows
<1>3. Worst[c] = Most(Obligation(c, book[c]), Obligation(c, book[c] + sent[c]))
                     + Obligation(c, Asked[c])
  BY DEF Worst
<1> QED
  BY <1>2, <1>3 DEF Most

(* What is committed is a sum that goes by the instrument.                 *)
LEMMA CommittedGrows ==
    ASSUME NEW p \in [Instruments -> Int], NEW r,
           \A c \in Instruments : r[c] \in Int /\ Obligation(c, p[c]) <= r[c]
    PROVE  Committed(p) \in Nat /\ Committed(p) <= SumFunctionOnSet(r, Instruments)
<1> DEFINE owed == [c \in Instruments |-> Obligation(c, p[c])]
<1>1. \A c \in Instruments : owed[c] \in Nat /\ owed[c] <= r[c]
  BY ObligationGrows
<1>2. Committed(p) = SumFunctionOnSet(owed, Instruments)
  BY DEF Committed
<1>3. IsFiniteSet(Instruments)
  OBVIOUS
<1>6. \A c \in Instruments : owed[c] \in Int /\ r[c] \in Int /\ owed[c] <= r[c]
  BY <1>1
<1> HIDE DEF owed
<1>4. SumFunctionOnSet(owed, Instruments) \in Nat
  BY <1>1, <1>3, SumNat
<1>5. SumFunctionOnSet(owed, Instruments) <= SumFunctionOnSet(r, Instruments)
  BY <1>3, <1>6, SumAtMost
<1> QED
  BY <1>2, <1>4, <1>5

LEMMA WorstNat == BookOK => \A c \in Instruments : Worst[c] \in Nat
  BY WorstTyped

LEMMA SecuredNat == PlaceOK => Secured \in Nat
<1> SUFFICES ASSUME PlaceOK PROVE Secured \in Nat
  OBVIOUS
<1>1. capital \in Nat /\ SecuredPct \in Nat
  BY DEF PlaceOK
<1>2. SecuredPct * capital \in Nat
  BY <1>1, TimesNat
<1> QED
  BY <1>2, DivBounds DEF Secured

(* Steps that make nothing worse keep the invariant.                       *)
LEMMA WritingKept ==
    ASSUME BookOK, BookOK', PlaceOK, Secured' = Secured,
           SumFunctionOnSet(Worst, Instruments) <= Secured,
           \A c \in Instruments : Worst'[c] <= Worst[c]
    PROVE  SumFunctionOnSet(Worst', Instruments) <= Secured'
<1> DEFINE a == Worst
           b == Worst'
<1>1. \A c \in Instruments : a[c] \in Nat
  BY WorstTyped
<1>2. \A c \in Instruments : b[c] \in Nat
  <2>1. (BookOK => \A c \in Instruments : Worst[c] \in Nat)'
    BY WorstNat, PTL
  <2> QED
    BY <2>1
<1>3. IsFiniteSet(Instruments) /\ \A c \in Instruments : b[c] <= a[c]
  OBVIOUS
<1>4. \A c \in Instruments : a[c] \in Int /\ b[c] \in Int /\ b[c] <= a[c]
  BY <1>1, <1>2, <1>3
<1> HIDE DEF a, b
<1>5. /\ SumFunctionOnSet(a, Instruments) \in Nat
      /\ SumFunctionOnSet(b, Instruments) \in Nat
  BY <1>1, <1>2, <1>3, SumNat
<1>6. SumFunctionOnSet(b, Instruments) <= SumFunctionOnSet(a, Instruments)
  BY <1>3, <1>4, SumAtMost
<1>7. SumFunctionOnSet(b, Instruments) <= Secured'
  <2>1. SumFunctionOnSet(a, Instruments) <= Secured /\ Secured \in Nat
    BY SecuredNat DEF a
  <2> QED
    BY <1>5, <1>6, <2>1
<1> QED
  BY <1>7 DEF b

LEMMA WorstStated ==
    BookOK => \A c \in Instruments :
                  /\ Worst[c] \in Nat
                  /\ Obligation(c, book[c] + sent[c]) <= Worst[c]
  BY WorstTyped

LEMMA WorstNext ==
    ASSUME BookOK', NEW d \in Instruments
    PROVE  /\ Worst'[d] \in Nat
           /\ Obligation(d, book'[d] + sent'[d]) <= Worst'[d]
           /\ Worst'[d] = Most(Obligation(d, book'[d]), Obligation(d, book'[d] + sent'[d]))
                              + Obligation(d, Asked'[d])
<1>1. (BookOK => \A c \in Instruments :
                     /\ Worst[c] \in Nat
                     /\ Obligation(c, book[c] + sent[c]) <= Worst[c])'
  BY WorstStated, PTL
<1>2. Obligation(d, book'[d] + sent'[d]) = Obligation(d, book[d] + sent[d])'
  BY DEF Obligation, Abs
<1>3. Worst'[d] = Most(Obligation(d, book'[d]), Obligation(d, book'[d] + sent'[d]))
                      + Obligation(d, Asked'[d])
  BY DEF Worst, Obligation, Most, Abs, Asked
<1>4. Worst'[d] \in Nat /\ Obligation(d, book[d] + sent[d])' <= Worst'[d]
  BY <1>1
<1> QED
  BY <1>2, <1>3, <1>4

(* More bought than was sold keeps what holds of what was held.            *)
LEMMA BoughtOnTop ==
    ASSUME NEW n \in Int, NEW b \in Int, NEW s \in Int, s >= 0, NEW q \in Int,
           q >= 0 \/ b + q >= -n, NEW t, t = s + q
    PROVE  -n \in Int /\ b + t \in Int /\ (b + t >= b \/ b + t >= -n)
  OBVIOUS

LEMMA InitWriting == Init => Writing
<1> SUFFICES ASSUME Init PROVE Writing
  OBVIOUS
<1>1. \A c \in Instruments : target[c] = 0 /\ sent[c] = 0
  BY DEF Init, None
<1>2. pc = "idle" /\ closing = {}
  BY DEF Init
<1> QED
  BY <1>1, <1>2 DEF Writing

(* A write leaves less to be owed, or as much, whatever gets through.      *)
LEMMA WriteNoWorse ==
    ASSUME TypeOK, TypeOK', Writing, setup.kind = "put_income",
           NEW c \in Instruments, TargetOrder(c)
    PROVE  \A d \in Instruments : Worst'[d] <= Worst[d]
<1>1. BookOK /\ BookOK'
  BY TypeParts, PTL
<1>2. PICK n \in 1..PerNameCap : target[c] = -1001 * n
  BY TargetGives DEF Writing
<1>3. n \in Int /\ 1 <= n /\ n < 1000 /\ n \in Nat
  BY WritesAssumption, SMTT(30)
<1>4. PICK q \in GetsThrough(c, OrderQty(-1001 * n, book[c])) : Trade(c, q)
  <2>1. \E q \in GetsThrough(c, OrderQty(target[c], book[c])) : Trade(c, q)
    BY Zenon DEF TargetOrder
  <2> QED
    BY <1>2, <2>1
<1>5. book[c] \in Int /\ sent[c] \in Int /\ sent[c] >= 0
  BY <1>1, TargetGives DEF BookOK, Writing
<1>6. q \in Int /\ (q >= 0 \/ book[c] + q >= -n)
  BY <1>3, <1>4, <1>5, WriteStopsAt
<1>7. /\ sent'[c] = sent[c] + q
      /\ \A d \in Instruments : d # c => sent'[d] = sent[d]
  BY <1>1, <1>4 DEF Trade, BookOK
<1>8. /\ book' = book /\ target'[c] = 0
      /\ \A d \in Instruments : d # c => target'[d] = target[d]
  BY <1>1, TargetGives DEF Fixed, BookOK
<1>9. ASSUME NEW d \in Instruments, d # c PROVE Worst'[d] = Worst[d]
  BY <1>7, <1>8, <1>9 DEF Worst, Asked, Obligation, Most, Abs
<1>10. Worst'[c] <= Worst[c]
  <2> DEFINE before == Obligation(c, book[c])
             now    == Obligation(c, book[c] + sent[c])
             after  == Obligation(c, book[c] + sent'[c])
             asked  == Obligation(c, -n)
  <2>1. Asked[c] = -n /\ Asked'[c] = 0
    BY <1>1, <1>2, <1>3, <1>8, AskedIs, AskedNext DEF Stated
  <2>2. /\ Worst[c] = Most(before, now) + asked
        /\ before \in Nat /\ now \in Nat
    BY <1>1, <2>1, WorstTyped
  <2>3. Worst'[c] = Most(before, after) + Obligation(c, 0)
    BY <1>1, <1>8, <2>1, WorstNext
  <2>4. /\ -n \in Int /\ book[c] + sent'[c] \in Int
        /\ book[c] + sent'[c] >= book[c] \/ book[c] + sent'[c] >= -n
    <3>1. sent'[c] = sent[c] + q
      BY <1>7
    <3> QED
      BY <1>3, <1>5, <1>6, <3>1, BoughtOnTop
  <2>5. Obligation(c, 0) = 0 /\ asked \in Nat /\ after \in Nat
    <3> DEFINE acc == book[c] + sent'[c]
               k == -n
    <3>1. acc \in Int /\ k \in Int /\ 0 \in Int /\ 0 >= 0
      BY <2>4
    <3> HIDE DEF acc, k
    <3>2. Obligation(c, 0) = 0 /\ Obligation(c, k) \in Nat /\ Obligation(c, acc) \in Nat
      BY <3>1, ObligationGrows
    <3> QED
      BY <3>2 DEF acc, k
  <2>6. after <= before \/ after <= asked
    <3> DEFINE acc == book[c] + sent'[c]
               k == -n
    <3>1. acc \in Int /\ k \in Int /\ (acc >= book[c] \/ acc >= k)
      BY <2>4
    <3> HIDE DEF acc, k
    <3>2. acc >= book[c] => Obligation(c, acc) <= Obligation(c, book[c])
      BY <1>5, <3>1, ObligationGrows
    <3>3. acc >= k => Obligation(c, acc) <= Obligation(c, k)
      BY <3>1, ObligationGrows
    <3> QED
      BY <3>1, <3>2, <3>3 DEF acc, k
  <2> HIDE DEF before, now, after, asked
  <2> QED
    BY <2>2, <2>3, <2>5, <2>6 DEF Most
<1>11. Worst[c] \in Nat /\ \A d \in Instruments : Worst[d] \in Nat
  BY <1>1, WorstTyped
<1> QED
  <2> SUFFICES ASSUME NEW d \in Instruments PROVE Worst'[d] <= Worst[d]
    OBVIOUS
  <2>1. Worst[d] \in Nat
    BY <1>11
  <2>2. CASE d = c
    BY <1>10, <2>2
  <2>3. CASE d # c
    <3>1. Worst'[d] = Worst[d]
      BY <1>9, <2>3
    <3> QED
      BY <2>1, <3>1
  <2> QED
    BY <2>2, <2>3

(* A close only buys back, and leaves no more to be owed.                  *)
LEMMA CloseNoWorse ==
    ASSUME TypeOK, TypeOK', Writing, setup.kind = "put_income",
           NEW c \in Instruments, CloseOrder(c)
    PROVE  /\ book[c] < 0 /\ sent[c] = 0 /\ sent'[c] \in Int
           /\ 0 <= sent'[c] /\ sent'[c] <= -book[c]
           /\ \A d \in Instruments : d # c => sent'[d] = sent[d]
           /\ \A d \in Instruments : Worst'[d] <= Worst[d]
<1>1. BookOK /\ BookOK'
  BY TypeParts, PTL
<1>2. book[c] \in Int /\ book[c] < 0 /\ sent[c] = 0
  BY <1>1, CloseGives DEF BookOK, Writing
<1>3. PICK q \in Int : Moves(c, q) /\ 0 <= q /\ q <= -book[c]
  BY <1>2, CloseGives
<1>4. /\ sent'[c] = q /\ book' = book /\ target' = target
      /\ \A d \in Instruments : d # c => sent'[d] = sent[d]
  BY <1>2, <1>3, CloseGives DEF Moves, Fixed
<1>5. ASSUME NEW d \in Instruments, d # c PROVE Worst'[d] = Worst[d]
  BY <1>4, <1>5 DEF Worst, Asked, Obligation, Most, Abs
<1>6. Worst'[c] <= Worst[c]
  <2> DEFINE before == Obligation(c, book[c])
             after  == Obligation(c, book[c] + q)
             asked  == Obligation(c, Asked[c])
  <2>1. book[c] + sent[c] = book[c]
    BY <1>2
  <2>2. Worst[c] = Most(before, before) + asked /\ before \in Nat /\ asked \in Nat
    BY <1>1, <2>1, WorstTyped
  <2>3. Worst'[c] = Most(before, after) + asked
    BY <1>4 DEF Worst, Obligation, Most, Abs, Asked
  <2>4. after \in Nat /\ after <= before
    <3>1. book[c] + q \in Int /\ book[c] <= book[c] + q
      BY <1>2, <1>3
    <3> QED
      BY <1>2, <3>1, ObligationGrows
  <2> HIDE DEF before, after, asked
  <2> QED
    BY <2>2, <2>3, <2>4 DEF Most
<1>7. \A d \in Instruments : Worst[d] \in Nat
  BY <1>1, WorstTyped
<1>8. ASSUME NEW d \in Instruments PROVE Worst'[d] <= Worst[d]
  <2>1. Worst[d] \in Nat
    BY <1>7
  <2>2. CASE d = c
    BY <1>6, <2>2
  <2>3. CASE d # c
    <3>1. Worst'[d] = Worst[d]
      BY <1>5, <2>3
    <3> QED
      BY <2>1, <3>1
  <2> QED
    BY <2>2, <2>3
<1> QED
  BY <1>2, <1>3, <1>4, <1>8

LEMMA InstrumentsChange ==
    \A c \in Instruments : \A f, g :
        /\ \A d \in Instruments : f[d] \in Int /\ g[d] \in Int
        /\ \A d \in Instruments \ {c} : f[d] = g[d]
        => SumFunctionOnSet(g, Instruments)
               = SumFunctionOnSet(f, Instruments) - f[c] + g[c]
<1> SUFFICES ASSUME NEW c \in Instruments, NEW f, NEW g,
                    \A d \in Instruments : f[d] \in Int /\ g[d] \in Int,
                    \A d \in Instruments \ {c} : f[d] = g[d]
             PROVE  SumFunctionOnSet(g, Instruments)
                        = SumFunctionOnSet(f, Instruments) - f[c] + g[c]
  OBVIOUS
<1> IsFiniteSet(Instruments)
  OBVIOUS
<1> QED
  BY SumChange

(* put_income looks after what is short.                                   *)
LEMMA NextWriting ==
    TypeOK /\ TypeOK' /\ Fitting /\ Writing /\ [Next]_vars => Writing'
<1> SUFFICES ASSUME TypeOK, TypeOK', Fitting, Writing, [Next]_vars,
                    setup.kind = "put_income"
             PROVE  Writing'
  BY SetupFixed DEF Writing
<1>0. setup' = setup
  BY SetupFixed
<1>1. BookOK /\ BookOK' /\ PlaceOK
  BY TypeParts, PTL
<1> DEFINE Part(c) == /\ c \in closing => book[c] < 0 /\ sent[c] = 0
                      /\ target[c] # 0 =>
                             sent[c] >= 0 /\ \E n \in 1..PerNameCap : target[c] = -1001 * n
                      /\ pc = "entries" => sent[c] = 0
           Total == SumFunctionOnSet(Worst, Instruments) <= Secured
<1>2. \A c \in Instruments : Part(c)
  BY DEF Writing
<1>3. (\E c \in Instruments : target[c] # 0) => Total
  BY DEF Writing
<1>4. ASSUME \A c \in Instruments : Part(c)',
             (\E c \in Instruments : target'[c] # 0) => Total'
      PROVE  Writing'
  BY <1>4, <1>0 DEF Writing
<1>5. ASSUME \A c \in Instruments : target'[c] = 0 /\ sent'[c] = 0,
             \A c \in closing' : book'[c] < 0
      PROVE  Writing'
  BY <1>4, <1>5
<1>6. CASE AnyBegin
  <2>1. PICK exits \in SUBSET Managed : Begun(exits)
    BY <1>6, Beginnings
  <2>2. \A c \in Instruments : target[c] = 0 /\ sent[c] = 0
    BY <2>1, IdleNone DEF Begun
  <2>3. \A c \in exits : book[c] < 0
    BY DEF Managed
  <2> QED
    BY <1>5, <2>1, <2>2, <2>3 DEF Begun
<1>7. CASE Quiet
  <2>1. /\ book' = book /\ sent' = sent /\ target' = target /\ closing' = closing
        /\ pc' = "entries" => pc = "entries" /\ candidates' = candidates
        /\ capital' = capital
    BY <1>7, QuietGives DEF Quiet, SkipName, EntriesDone, SessionMoves, NextDay,
       vars
  <2>2. Total => Total'
    BY <2>1 DEF Worst, Obligation, Most, Abs, Asked, Secured
  <2> QED
    BY <1>2, <1>3, <1>4, <2>1, <2>2
<1>8. CASE EndPass
  BY <1>5, <1>8, EndGives DEF None
<1>9. CASE Restart
  <2>1. /\ pc = "idle" /\ target' = target /\ sent' = sent /\ closing' = closing
    BY <1>9, RestartGives
  <2>2. closing = {}
    BY <2>1, TypeParts DEF IdleOK
  <2> QED
    BY <1>5, <2>1, <2>2, IdleNone
<1>10. ASSUME NEW c \in Instruments, CloseOrder(c) PROVE Writing'
  <2>1. /\ book' = book /\ target' = target /\ closing' = closing \ {c}
        /\ pc' # "entries"
    BY <1>10, CloseGives DEF Fixed, Moves
  <2>2. capital' = capital
    BY <1>10 DEF CloseOrder
  <2>3. /\ 0 <= sent'[c] /\ \A d \in Instruments : d # c => sent'[d] = sent[d]
        /\ \A d \in Instruments : Worst'[d] <= Worst[d]
    BY <1>10, CloseNoWorse
  <2>4. Secured' = Secured
    BY <2>2 DEF Secured
  <2>5. Total => Total'
    BY <1>1, <2>3, <2>4, WritingKept
  <2>6. \A d \in Instruments : Part(d)'
    BY <1>2, <2>1, <2>3
  <2> HIDE DEF Total, Part
  <2> QED
    BY <1>3, <1>4, <2>1, <2>5, <2>6
<1>11. ASSUME NEW c \in Instruments, TargetOrder(c) PROVE Writing'
  <2>1. /\ book' = book /\ closing' = {} /\ pc' # "entries" /\ target[c] # 0
        /\ target'[c] = 0
        /\ \A d \in Instruments : d # c => target'[d] = target[d] /\ sent'[d] = sent[d]
    BY <1>1, <1>11, TargetGives DEF Fixed, Moves, BookOK
  <2>2. capital' = capital
    BY <1>11 DEF TargetOrder
  <2>3. \A d \in Instruments : Worst'[d] <= Worst[d]
    BY <1>11, WriteNoWorse
  <2>4. Secured' = Secured
    BY <2>2 DEF Secured
  <2>5. Total => Total'
    BY <1>1, <2>3, <2>4, WritingKept
  <2>6. \A d \in Instruments : Part(d)'
    <3> SUFFICES ASSUME NEW d \in Instruments PROVE Part(d)'
      OBVIOUS
    <3>1. CASE d = c
      BY <2>1, <3>1
    <3>2. CASE d # c
      <4>1. target'[d] = target[d] /\ sent'[d] = sent[d] /\ Part(d)
        BY <1>2, <2>1, <3>2
      <4> QED
        BY <2>1, <4>1
    <3> QED
      BY <3>1, <3>2
  <2> HIDE DEF Total, Part
  <2> QED
    BY <1>3, <1>4, <2>1, <2>5, <2>6
<1>12. ASSUME NEW c \in Instruments, EnterName(c) PROVE Writing'
  <2>1. /\ book' = book /\ sent' = sent /\ closing' = closing /\ pc = "entries"
        /\ \A d \in Instruments : d # c => target'[d] = target[d]
    BY <1>1, <1>12, EnterGives DEF Fixed, BookOK
  <2>2. Right[c] = "put"
    BY <1>12, EnterGives DEF Fitting, Fits, Offered
  <2>3. PICK t \in Sizes(c) : target' = [target EXCEPT ![c] = t]
    BY <1>12, EnterGives
  <2>4. PICK n \in 1..PerNameCap : t = -1001 * n /\ Strike[c] * n <= Budget
    BY <2>3, Zenon DEF Sizes
  <2>5. n \in Nat /\ n > 0 /\ target'[c] = -1001 * n
    <3>1. n \in Nat /\ n > 0
      OBVIOUS
    <3>2. target \in [Instruments -> Int]
      BY <1>1 DEF BookOK
    <3>3. target'[c] = t
      BY <2>3, <3>2, Zenon
    <3> QED
      BY <2>4, <3>1, <3>3
  <2>6. capital' = capital
    BY <1>12 DEF EnterName
  <2>7. \A d \in Instruments : sent[d] = 0
    BY <1>2, <2>1
  <2>8. Total'
    <3> DEFINE held == [d \in Instruments |-> Obligation(d, book[d])]
               asks == [d \in Instruments |-> Obligation(d, Asked[d])]
               worst == Worst'
               most == [asks EXCEPT ![c] = asks[c] + Strike[c] * n]
               both == [d \in Instruments |-> held[d] + most[d]]
    <3>1. IsFiniteSet(Instruments) /\ Strike[c] * n \in Nat
      BY <2>5, TimesNat
    <3>2. \A d \in Instruments : held[d] \in Nat /\ asks[d] \in Nat
      BY <1>1, WorstTyped
    <3>3. ASSUME NEW d \in Instruments PROVE worst[d] \in Int /\ worst[d] <= both[d]
      <4>1. book'[d] + sent'[d] = book[d] /\ book'[d] = book[d] /\ book[d] \in Int
        BY <1>1, <2>1, <2>7 DEF BookOK
      <4>2. worst[d] = held[d] + Obligation(d, Asked'[d])
        <5>1. worst[d] = Most(Obligation(d, book'[d]), Obligation(d, book'[d] + sent'[d]))
                             + Obligation(d, Asked'[d])
          BY DEF Worst, Obligation, Most, Abs, Asked
        <5> QED
          BY <4>1, <5>1 DEF Most
      <4>3. CASE d = c
        <5>1. Asked'[c] = -n
          BY <1>1, <2>5, AskedNext DEF Stated
        <5>2. Obligation(c, -n) = Strike[c] * n
          BY <2>2, <2>5 DEF Obligation, Abs
        <5>3. both[c] = held[c] + (asks[c] + Strike[c] * n)
          OBVIOUS
        <5> DEFINE more == Strike[c] * n
        <5>4. worst[d] = held[d] + more
          BY <4>2, <4>3, <5>1, <5>2
        <5>5. both[d] = held[d] + (asks[d] + more)
          BY <4>3, <5>3
        <5>6. held[d] \in Nat /\ asks[d] \in Nat /\ more \in Nat
          BY <3>1, <3>2
        <5> HIDE DEF held, asks, both, worst, more
        <5> DEFINE h == held[d]
                   a == asks[d]
        <5>7. h \in Nat /\ a \in Nat /\ worst[d] = h + more /\ both[d] = h + (a + more)
          BY <5>4, <5>5, <5>6
        <5> HIDE DEF h, a
        <5> QED
          BY <5>6, <5>7, SMTT(30)
      <4>4. CASE d # c
        <5>1. Asked'[d] = Asked[d]
          BY <2>1, <4>4 DEF Asked, Abs
        <5>2. both[d] = held[d] + asks[d] /\ asks[d] = Obligation(d, Asked[d])
          BY <4>4
        <5>3. held[d] \in Nat /\ asks[d] \in Nat
          BY <3>2
        <5> HIDE DEF held, asks, both, worst
        <5>4. worst[d] = both[d] /\ both[d] = held[d] + asks[d]
          BY <4>2, <5>1, <5>2
        <5> QED
          BY <5>3, <5>4, SMTT(30)
      <4> QED
        BY <4>3, <4>4
    <3>4. ASSUME NEW d \in Instruments
          PROVE  most[d] \in Nat /\ both[d] \in Nat /\ both[d] = held[d] + most[d]
      <4>1. both[d] = held[d] + most[d]
        OBVIOUS
      <4>2. most[d] = IF d = c THEN asks[c] + Strike[c] * n ELSE asks[d]
        OBVIOUS
      <4> HIDE DEF held, asks, most, both
      <4>3. held[d] \in Nat /\ asks[d] \in Nat /\ asks[c] \in Nat
        BY <3>2
      <4>4. most[d] \in Nat
        <5>1. CASE d = c
          <6>1. most[d] = asks[c] + Strike[c] * n
            BY <4>2, <5>1
          <6> DEFINE more == Strike[c] * n
                     a == asks[c]
          <6>2. more \in Nat /\ a \in Nat /\ most[d] = a + more
            BY <3>1, <4>3, <6>1
          <6> HIDE DEF more, a
          <6> QED
            BY <6>2
        <5>2. CASE d # c
          BY <4>2, <4>3, <5>2
        <5> QED
          BY <5>1, <5>2
      <4> QED
        BY <4>1, <4>3, <4>4
    <3>5. most[c] = asks[c] + Strike[c] * n /\ \A d \in Instruments \ {c} : asks[d] = most[d]
      OBVIOUS
    <3>6. Committed(book) = SumFunctionOnSet(held, Instruments)
          /\ Committed(Asked) = SumFunctionOnSet(asks, Instruments)
      BY DEF Committed
    <3>7. Strike[c] * n <= Secured - Committed(book) - Committed(Asked)
      BY <2>4 DEF Budget
    <3>8. Secured \in Nat /\ Secured' = Secured
      BY <1>1, <2>6, SecuredNat DEF Secured
    <3> HIDE DEF held, asks, worst, most, both
    <3>9. /\ SumFunctionOnSet(held, Instruments) \in Nat
          /\ SumFunctionOnSet(asks, Instruments) \in Nat
          /\ SumFunctionOnSet(worst, Instruments) \in Int
          /\ SumFunctionOnSet(both, Instruments) \in Nat
      BY <3>1, <3>2, <3>3, <3>4, SumNat, SumInt
    <3>10. SumFunctionOnSet(worst, Instruments) <= SumFunctionOnSet(both, Instruments)
      <4>1. \A d \in Instruments : worst[d] \in Int /\ both[d] \in Int /\ worst[d] <= both[d]
        BY <3>3, <3>4
      <4> QED
        BY <3>1, <4>1, SumAtMost
    <3>11. SumFunctionOnSet(both, Instruments)
               = SumFunctionOnSet(held, Instruments) + SumFunctionOnSet(most, Instruments)
      <4>1. \A d \in Instruments : held[d] \in Int /\ most[d] \in Int
                                       /\ both[d] = held[d] + most[d]
        BY <3>2, <3>4
      <4> QED
        BY <3>1, <4>1, SumPlus
    <3>12. SumFunctionOnSet(most, Instruments)
               = SumFunctionOnSet(asks, Instruments) - asks[c] + most[c]
      <4>1. \A d \in Instruments : asks[d] \in Int /\ most[d] \in Int
        BY <3>2, <3>4
      <4>2. \A d \in Instruments \ {c} : asks[d] = most[d]
        BY <3>5
      <4> QED
        BY <4>1, <4>2, InstrumentsChange, Zenon
    <3>13. SumFunctionOnSet(most, Instruments)
               = SumFunctionOnSet(asks, Instruments) + Strike[c] * n
      BY <3>1, <3>2, <3>5, <3>9, <3>12, SMTT(30)
    <3>14. SumFunctionOnSet(both, Instruments) <= Secured
      <4> DEFINE h == SumFunctionOnSet(held, Instruments)
                 a == SumFunctionOnSet(asks, Instruments)
                 b == SumFunctionOnSet(both, Instruments)
                 w == Strike[c] * n
      <4>1. h \in Nat /\ a \in Nat /\ w \in Nat /\ Secured \in Nat
        BY <3>1, <3>8, <3>9
      <4>2. w <= Secured - h - a
        BY <3>6, <3>7
      <4>3. b = h + (a + w)
        BY <3>11, <3>13
      <4> HIDE DEF h, a, b, w
      <4>4. b <= Secured
        BY <4>1, <4>2, <4>3
      <4> QED
        BY <4>4 DEF b
    <3> QED
      BY <3>8, <3>9, <3>10, <3>14 DEF worst
  <2>9. \A d \in Instruments : Part(d)'
    <3> SUFFICES ASSUME NEW d \in Instruments PROVE Part(d)'
      OBVIOUS
    <3>1. CASE d = c
      BY <1>2, <2>1, <2>5, <2>7, <3>1
    <3>2. CASE d # c
      BY <1>2, <2>1, <2>7, <3>2
    <3> QED
      BY <3>1, <3>2
  <2> HIDE DEF Total, Part
  <2> QED
    BY <1>4, <2>8, <2>9
<1> QED
  BY <1>6, <1>7, <1>8, <1>9, <1>10, <1>11, <1>12, StepKinds

(* What the account owes grows by a write only, and then up to the share.  *)
LEMMA StepCommits ==
    TypeOK /\ TypeOK' /\ Fitting /\ Writing /\ [Next]_vars =>
        (setup.kind = "put_income" /\ Committed(Account)' > Committed(Account)
             => Committed(Account)' <= Secured)
<1> SUFFICES ASSUME TypeOK, TypeOK', Fitting, Writing, [Next]_vars,
                    setup.kind = "put_income"
             PROVE  Committed(Account)' > Committed(Account)
                        => Committed(Account)' <= Secured
  OBVIOUS
<1> DEFINE owed == [c \in Instruments |-> Obligation(c, book[c] + sent[c])]
           next == [c \in Instruments |-> Obligation(c, book'[c] + sent'[c])]
<1>1. BookOK /\ BookOK' /\ PlaceOK
  BY TypeParts, PTL
<1>2. \A c \in Instruments : /\ book[c] \in Int /\ sent[c] \in Int
                             /\ book'[c] \in Int /\ sent'[c] \in Int
  BY <1>1 DEF BookOK
<1>3. Committed(Account) = SumFunctionOnSet(owed, Instruments)
  <2>1. [c \in Instruments |-> Obligation(c, Account[c])] = owed
    BY DEF Account
  <2> QED
    BY <2>1 DEF Committed
<1>4. Committed(Account)' = SumFunctionOnSet(next, Instruments)
  <2>1. [c \in Instruments |-> Obligation(c, Account'[c])] = next
    BY DEF Account
  <2> QED
    BY <2>1 DEF Committed, Obligation, Abs
<1>5. ASSUME NEW c \in Instruments PROVE owed[c] \in Nat /\ next[c] \in Nat
  <2> DEFINE m == book[c] + sent[c]
             n == book'[c] + sent'[c]
  <2>1. m \in Int /\ n \in Int
    BY <1>2
  <2> HIDE DEF m, n
  <2>2. Obligation(c, m) \in Nat /\ Obligation(c, n) \in Nat
    BY <2>1, ObligationGrows
  <2> QED
    BY <2>2 DEF m, n
<1>6. IsFiniteSet(Instruments)
  OBVIOUS
<1>7. /\ SumFunctionOnSet(owed, Instruments) \in Nat
      /\ SumFunctionOnSet(next, Instruments) \in Nat
  <2> HIDE DEF owed, next
  <2> QED
    BY <1>5, <1>6, SumNat
<1>8. ASSUME \A c \in Instruments : next[c] <= owed[c]
      PROVE  SumFunctionOnSet(next, Instruments) <= SumFunctionOnSet(owed, Instruments)
  <2>1. \A c \in Instruments : next[c] \in Int /\ owed[c] \in Int /\ next[c] <= owed[c]
    BY <1>5, <1>8
  <2> HIDE DEF owed, next
  <2> QED
    BY <1>6, <2>1, SumAtMost
<1>9. ASSUME \A c \in Instruments :
                 book'[c] + sent'[c] >= book[c] + sent[c] \/ book'[c] + sent'[c] >= 0
      PROVE  SumFunctionOnSet(next, Instruments) <= SumFunctionOnSet(owed, Instruments)
  <2>1. ASSUME NEW c \in Instruments PROVE next[c] <= owed[c]
    <3> DEFINE m == book[c] + sent[c]
               n == book'[c] + sent'[c]
    <3>1. m \in Int /\ n \in Int /\ (n >= m \/ n >= 0)
      BY <1>2, <1>9
    <3> HIDE DEF m, n
    <3>2. Obligation(c, n) <= Obligation(c, m)
      BY <3>1, ObligationGrows
    <3> QED
      BY <3>2 DEF m, n
  <2> QED
    BY <1>8, <2>1
<1>10. CASE AnyBegin
  <2>1. book' = book /\ sent' = sent
    BY <1>10, Beginnings DEF Begun
  <2> QED
    BY <1>2, <1>3, <1>4, <1>7, <1>9, <2>1
<1>11. CASE Quiet
  <2>1. book' = book /\ sent' = sent
    BY <1>11, QuietGives
  <2> QED
    BY <1>2, <1>3, <1>4, <1>7, <1>9, <2>1
<1>12. CASE EndPass
  <2>1. \A c \in Instruments : book'[c] = book[c] + sent[c] /\ sent'[c] = 0
    BY <1>12, EndGives DEF None
  <2>2. \A c \in Instruments : book'[c] + sent'[c] >= book[c] + sent[c]
    BY <1>2, <2>1
  <2> QED
    BY <1>3, <1>4, <1>7, <1>9, <2>2
<1>13. CASE Restart
  <2>1. \A c \in Instruments : sent'[c] = 0 /\ sent[c] = 0 /\ book'[c] \in {book[c], 0}
    BY <1>13, RestartGives, IdleNone
  <2>2. ASSUME NEW c \in Instruments
        PROVE  book'[c] + sent'[c] >= book[c] + sent[c] \/ book'[c] + sent'[c] >= 0
    <3>1. book[c] \in Int /\ sent'[c] = 0 /\ sent[c] = 0 /\ book'[c] \in {book[c], 0}
      BY <1>2, <2>1
    <3> QED
      BY <3>1
  <2> QED
    BY <1>3, <1>4, <1>7, <1>9, <2>2
<1>14. ASSUME NEW c \in Instruments, CloseOrder(c)
       PROVE  Committed(Account)' <= Committed(Account)
  <2>1. book' = book
    BY <1>14, CloseGives DEF Fixed
  <2>2. /\ sent[c] = 0 /\ 0 <= sent'[c]
        /\ \A d \in Instruments : d # c => sent'[d] = sent[d]
    BY <1>14, CloseNoWorse
  <2>3. \A d \in Instruments : book'[d] + sent'[d] >= book[d] + sent[d]
    <3> SUFFICES ASSUME NEW d \in Instruments
                 PROVE  book'[d] + sent'[d] >= book[d] + sent[d]
      OBVIOUS
    <3>1. CASE d = c
      BY <1>2, <2>1, <2>2, <3>1
    <3>2. CASE d # c
      BY <1>2, <2>1, <2>2, <3>2
    <3> QED
      BY <3>1, <3>2
  <2> QED
    BY <1>3, <1>4, <1>9, <2>3
<1>15. ASSUME NEW c \in Instruments, EnterName(c)
       PROVE  Committed(Account)' <= Committed(Account)
  <2>1. book' = book /\ sent' = sent
    BY <1>15, EnterGives DEF Fixed
  <2> QED
    BY <1>2, <1>3, <1>4, <1>9, <2>1
<1>16. ASSUME NEW c \in Instruments, TargetOrder(c)
       PROVE  Committed(Account)' <= Secured
  <2> DEFINE worst == Worst
  <2>1. SumFunctionOnSet(worst, Instruments) <= Secured
    BY <1>16, TargetGives DEF Writing
  <2>2. \A d \in Instruments : worst[d] \in Nat
    BY <1>1, WorstTyped
  <2>3. \A d \in Instruments : next[d] <= worst[d]
    <3> SUFFICES ASSUME NEW d \in Instruments PROVE next[d] <= worst[d]
      OBVIOUS
    <3>1. Worst'[d] <= Worst[d]
      BY <1>16, WriteNoWorse
    <3>2. Worst'[d] \in Nat /\ next[d] <= Worst'[d]
      BY <1>1, WorstNext
    <3> HIDE DEF next
    <3> QED
      BY <1>5, <2>2, <3>1, <3>2
  <2>4. Secured \in Nat
    BY <1>1, SecuredNat
  <2>5. \A d \in Instruments : next[d] \in Int /\ worst[d] \in Int /\ next[d] <= worst[d]
    BY <1>5, <2>2, <2>3
  <2> HIDE DEF next, worst
  <2>6. SumFunctionOnSet(worst, Instruments) \in Nat
    BY <1>6, <2>2, SumNat
  <2>7. SumFunctionOnSet(next, Instruments) <= SumFunctionOnSet(worst, Instruments)
    BY <1>6, <2>5, SumAtMost
  <2> QED
    BY <1>4, <1>7, <2>1, <2>4, <2>6, <2>7
<1> HIDE DEF owed, next
<1> QED
  BY <1>3, <1>4, <1>7, <1>10, <1>11, <1>12, <1>13, <1>14, <1>15, <1>16, StepKinds

(* A write never takes the strikes put_income is liable for above its      *)
(* share of the pass's capital (put_income.py 12), whatever of the closes  *)
(* and the writes before it got through.                                   *)
THEOREM CollateralKept == Spec => CollateralCapped
<1>1. Init => TypeOK /\ Fitting /\ Writing
  BY InitTyped, InitSides, InitWriting DEF SidesInv
<1>2. TypeOK /\ Fitting /\ Writing /\ [Next]_vars => TypeOK' /\ Fitting' /\ Writing'
  BY NextTyped, NextFitting, NextWriting
<1>3. TypeOK /\ Fitting /\ Writing /\ [Next]_vars =>
          (setup.kind = "put_income" /\ Committed(Account)' > Committed(Account)
               => Committed(Account)' <= Secured)
  BY NextTyped, StepCommits
<1> QED
  BY <1>1, <1>2, <1>3, PTL DEF Spec, CollateralCapped

-----------------------------------------------------------------------------
(* No more names than the limit *)

(* The circumstances in which a sleeve is held to its limit of names.      *)
Limited ==
    \/ setup.kind = "mean_reversion"
    \/ setup.kind # "convexity" /\ setup.closes /\ ~setup.repicks

(* What the book has, and what will stay of it with what is asked for;     *)
(* mean_reversion counts what it is closing.                               *)
Taken == {c \in Instruments : book[c] # 0}

Staying ==
    {c \in Instruments :
        \/ target[c] # 0
        \/ book[c] + sent[c] # 0 /\ (c \in closing => setup.kind = "mean_reversion")}

Wanted == {u \in Underlyings :
              \E r \in {"call", "put", "share"} : <<u, r>> \in candidates}

Slotted == setup.kind \in {"zero_dte", "put_income"}

Capped(S) == Cardinality(NamesOf(S)) <= MaxNames

(* While names are entered there is room for those to come: a slot each,   *)
(* or a place among the names that were picked.                            *)
NamesInv ==
    Limited =>
        /\ Capped(Taken) /\ Capped(Staying)
        /\ closing # {} => \A c \in Instruments : sent[c] # 0 => book[c] # 0
        /\ pc = "entries" =>
               IF Slotted THEN Cardinality(NamesOf(Staying)) + slots <= MaxNames
               ELSE Cardinality(NamesOf(Staying) \cup Wanted) <= MaxNames

(* The same sets after a step.                                             *)
NextTaken == {c \in Instruments : book'[c] # 0}

NextStaying ==
    {c \in Instruments :
        \/ target'[c] # 0
        \/ book'[c] + sent'[c] # 0 /\ (c \in closing' => setup.kind = "mean_reversion")}

NextWanted == {u \in Underlyings :
                  \E r \in {"call", "put", "share"} : <<u, r>> \in candidates'}

Roomy(S, room, W) ==
    IF Slotted THEN Cardinality(NamesOf(S)) + room <= MaxNames
    ELSE Cardinality(NamesOf(S) \cup W) <= MaxNames

LEMMA NamesNext ==
    ASSUME setup' = setup, Capped(NextTaken), Capped(NextStaying),
           closing' # {} => \A c \in Instruments : sent'[c] # 0 => book'[c] # 0,
           pc' = "entries" => Roomy(NextStaying, slots', NextWanted)
    PROVE  NamesInv'
  BY DEF NamesInv, Limited, Capped, Roomy, Slotted, NamesOf, Taken, Staying, Wanted,
         NextTaken, NextStaying, NextWanted

LEMMA SetsOfNames ==
    ASSUME NEW U \in SUBSET Underlyings, NEW V \in SUBSET U
    PROVE  /\ IsFiniteSet(U) /\ Cardinality(U) \in Nat /\ Cardinality(V) \in Nat
           /\ Cardinality(V) <= Cardinality(U)
<1>1. IsFiniteSet(Underlyings)
  BY FiniteNames
<1>2. IsFiniteSet(U)
  BY <1>1, FS_Subset
<1> QED
  BY <1>2, FS_Subset, FS_CardinalityType

(* There are no more names than contracts, fewer for fewer contracts, and  *)
(* at most one more for one contract more.                                 *)
LEMMA NamesSize ==
    ASSUME NEW A \in SUBSET Instruments
    PROVE  /\ NamesOf(A) \in SUBSET Underlyings
           /\ Cardinality(NamesOf(A)) \in Nat /\ Cardinality(A) \in Nat
           /\ Cardinality(NamesOf(A)) <= Cardinality(A)
<1> DEFINE f == [c \in A |-> Under[c]]
           U == NamesOf(A)
<1>1. U \in SUBSET Underlyings
  BY DEF NamesOf
<1>2. f \in Surjection(A, U)
  <2>1. f \in [A -> U]
    BY DEF NamesOf
  <2>2. \A u \in U : \E c \in A : f[c] = u
    BY DEF NamesOf
  <2> QED
    BY <2>1, <2>2 DEF Surjection
<1>3. IsFiniteSet(A)
  <2>1. IsFiniteSet(Instruments)
    OBVIOUS
  <2> QED
    BY <2>1, FS_Subset
<1> HIDE DEF f, U
<1>4. IsFiniteSet(U) /\ Cardinality(U) <= Cardinality(A)
  BY <1>2, <1>3, FS_Surjection
<1>5. Cardinality(U) \in Nat /\ Cardinality(A) \in Nat
  BY <1>3, <1>4, FS_CardinalityType
<1> QED
  BY <1>1, <1>4, <1>5 DEF U

LEMMA FewerNames ==
    ASSUME NEW A \in SUBSET Instruments, NEW B \in SUBSET A
    PROVE  /\ NamesOf(B) \subseteq NamesOf(A)
           /\ Cardinality(NamesOf(B)) <= Cardinality(NamesOf(A))
           /\ Capped(A) => Capped(B)
<1>1. /\ NamesOf(A) \in SUBSET Underlyings
      /\ Cardinality(NamesOf(A)) \in Nat /\ Cardinality(NamesOf(B)) \in Nat
  BY NamesSize
<1>2. NamesOf(B) \in SUBSET NamesOf(A)
  BY DEF NamesOf
<1>3. Cardinality(NamesOf(B)) <= Cardinality(NamesOf(A))
  BY <1>1, <1>2, SetsOfNames
<1>4. MaxNames \in Nat
  OBVIOUS
<1> QED
  BY <1>1, <1>2, <1>3, <1>4 DEF Capped

LEMMA OneMoreName ==
    ASSUME NEW A \in SUBSET Instruments, NEW c \in Instruments,
           NEW B \in SUBSET (A \cup {c})
    PROVE  /\ NamesOf(B) \subseteq NamesOf(A) \cup {Under[c]}
           /\ Cardinality(NamesOf(B)) <= Cardinality(NamesOf(A)) + 1
<1> DEFINE U == NamesOf(A)
           V == NamesOf(B)
           W == U \cup {Under[c]}
<1>1. U \in SUBSET Underlyings /\ Cardinality(U) \in Nat
  BY NamesSize
<1>2. V \in SUBSET W
  BY DEF NamesOf
<1>3. W \in SUBSET Underlyings
  BY <1>1
<1>4. IsFiniteSet(U)
  BY <1>1, SetsOfNames
<1> HIDE DEF U, V
<1>5. Cardinality(W) <= Cardinality(U) + 1
  <2>1. \A x : Cardinality(U \cup {x}) = IF x \in U THEN Cardinality(U)
                                          ELSE Cardinality(U) + 1
    BY <1>4, FS_AddElement
  <2>2. Cardinality(W) = Cardinality(U) \/ Cardinality(W) = Cardinality(U) + 1
    BY <2>1
  <2> HIDE DEF W
  <2> QED
    BY <1>1, <2>2
<1>6. /\ Cardinality(V) <= Cardinality(W)
      /\ Cardinality(V) \in Nat /\ Cardinality(W) \in Nat
  BY <1>2, <1>3, SetsOfNames
<1>7. Cardinality(V) <= Cardinality(U) + 1
  BY <1>1, <1>5, <1>6
<1> QED
  BY <1>2, <1>7 DEF U, V

(* The passes begin with room for what they may enter.                     *)
Stays(exits) ==
    {c \in Instruments :
        book[c] # 0 /\ (c \in exits => setup.kind = "mean_reversion")}

LEMMA BeginsRoomy ==
    ASSUME TypeOK, SidesInv, OneInv, Limited, AnyBegin
    PROVE  \E exits \in SUBSET Managed :
               /\ Begun(exits)
               /\ pc' = "entries" => Roomy(Stays(exits), slots', NextWanted)
<1>1. MaxNames \in Nat
  OBVIOUS
<1>2. \A c \in Instruments : book[c] \in Int
  BY TypeParts DEF BookOK
<1>3. CASE BeginZeroDte
  <2> DEFINE today == IF entryDay = day THEN entries ELSE 0
  <2>1. PICK exits \in SUBSET Managed :
            Begin(exits,
                  RoomForZeroDte(Cardinality(Managed \ exits), today),
                  (Underlyings \ Held(exits)) \X Directions)
    BY <1>3, Zenon DEF BeginZeroDte
  <2>2. Begun(exits)
    BY <2>1, BeginGives
  <2>3. setup.kind = "zero_dte"
    BY <1>3 DEF BeginZeroDte
  <2>4. Fitting /\ Sided
    BY <2>3 DEF SidesInv, Unrepicked
  <2>5. Stays(exits) = Managed \ exits
    BY <1>2, <2>3, <2>4 DEF Stays, Managed, Fitting, Fits, Sided, OnSide
  <2>6. ASSUME pc' = "entries" PROVE Roomy(Stays(exits), slots', NextWanted)
    <3> DEFINE open == Cardinality(Managed \ exits)
               names == Cardinality(NamesOf(Managed \ exits))
    <3>1. slots' = RoomForZeroDte(open, today) /\ RoomForZeroDte(open, today) # 0
      BY <2>1, <2>6, BeginGives
    <3>2. slots' = MaxNames - open
      BY <3>1, Zenon DEF RoomForZeroDte
    <3>3. open \in Nat /\ names \in Nat /\ names <= open
      BY ManagedTyped, NamesSize
    <3> HIDE DEF open, names
    <3>4. names + slots' <= MaxNames
      BY <1>1, <3>2, <3>3
    <3> QED
      BY <2>3, <2>5, <3>4 DEF Roomy, Slotted, names
  <2> QED
    BY <2>2, <2>6
<1>4. CASE BeginPutIncome
  <2>1. PICK exits \in SUBSET Managed :
            \E occupied \in Occupied(exits), highVol \in BOOLEAN :
                Begin(exits,
                      IF highVol \/ Cardinality(occupied) >= MaxNames THEN 0
                      ELSE MaxNames - Cardinality(occupied),
                      (Underlyings \ occupied) \X {"put"})
    BY <1>4, Zenon DEF BeginPutIncome
  <2>2. PICK occupied \in Occupied(exits), highVol \in BOOLEAN :
            Begin(exits,
                  IF highVol \/ Cardinality(occupied) >= MaxNames THEN 0
                  ELSE MaxNames - Cardinality(occupied),
                  (Underlyings \ occupied) \X {"put"})
    BY <2>1
  <2>3. Begun(exits)
    BY <2>2, BeginGives
  <2>4. setup.kind = "put_income"
    BY <1>4 DEF BeginPutIncome
  <2>5. Fitting /\ Sided /\ Alone
    BY <2>4 DEF SidesInv, Unrepicked, Limited, OneInv, OneEach
  <2>6. Stays(exits) = Managed \ exits
    BY <1>2, <2>4, <2>5 DEF Stays, Managed, Fitting, Fits, Sided, OnSide
  <2>7. occupied = NamesOf(Managed \ exits)
    <3>1. \A c, d \in Managed : Under[c] = Under[d] => c = d
      <4> SUFFICES ASSUME NEW c \in Managed, NEW d \in Managed, Under[c] = Under[d],
                          c # d
                   PROVE  FALSE
        OBVIOUS
      <4>1. c \in Instruments /\ d \in Instruments /\ book[c] # 0 /\ book[d] # 0
        BY DEF Managed
      <4>2. sent[c] = 0 /\ sent[d] = 0
        BY <2>3, <4>1, IdleNone DEF Begun
      <4>3. book[c] + sent[c] # 0 /\ book[d] + sent[d] # 0
        BY <1>2, <4>1, <4>2
      <4> QED
        BY <2>5, <4>1, <4>3 DEF Alone
    <3>2. NamesOf(Managed \ exits) \cap NamesOf(exits) = {}
      BY <3>1 DEF NamesOf
    <3>3. PICK freed \in SUBSET NamesOf(exits) :
              occupied = NamesOf(Managed \ exits) \ freed
      BY <2>2 DEF Occupied
    <3> QED
      BY <3>2, <3>3
  <2>8. ASSUME pc' = "entries" PROVE Roomy(Stays(exits), slots', NextWanted)
    <3> DEFINE names == Cardinality(occupied)
               room == IF highVol \/ names >= MaxNames THEN 0 ELSE MaxNames - names
    <3>1. slots' = room /\ room # 0
      BY <2>2, <2>8, BeginGives
    <3>2. slots' = MaxNames - names
      BY <3>1, Zenon
    <3>3. names \in Nat
      BY <2>7, ManagedTyped, NamesSize
    <3> HIDE DEF names, room
    <3>4. names + slots' <= MaxNames
      BY <1>1, <3>2, <3>3
    <3> QED
      BY <2>4, <2>6, <2>7, <3>4 DEF Roomy, Slotted, names
  <2> QED
    BY <2>3, <2>8
<1>5. CASE BeginMomentum
  <2>1. /\ setup.kind \in {"momentum_equity", "momentum_options"}
        /\ Managed = {c \in Instruments : book[c] # 0}
    BY <1>5 DEF BeginMomentum, Managed
  <2>2. CASE Begin({}, 0, {})
    <3>1. Begun({}) /\ pc' # "entries"
      BY <2>2, BeginGives
    <3> QED
      BY <3>1
  <2>3. CASE ~Begin({}, 0, {})
    <3> DEFINE leavers(top) == {c \in Managed : Under[c] \notin top \/ Leaving(c)}
               right == IF setup.kind = "momentum_equity" THEN "share" ELSE "call"
    <3>1. PICK top \in SUBSET Underlyings :
              /\ Cardinality(top) <= MaxNames
              /\ Begin(leavers(top), Len(Names), top \X {right})
      BY <1>5, <2>3, Zenon DEF BeginMomentum
    <3>2. leavers(top) \in SUBSET Managed /\ Begun(leavers(top))
      BY <3>1, BeginGives
    <3>3. ASSUME pc' = "entries"
          PROVE  Roomy(Stays(leavers(top)), slots', NextWanted)
      <4>1. candidates' = top \X {right}
        BY <3>1, <3>3, BeginGives
      <4>2. NextWanted \subseteq top
        BY <4>1 DEF NextWanted
      <4>3. NamesOf(Stays(leavers(top))) \subseteq top
        BY <2>1 DEF NamesOf, Stays
      <4> DEFINE all == NamesOf(Stays(leavers(top))) \cup NextWanted
      <4>4. all \in SUBSET top
        BY <4>2, <4>3
      <4> HIDE DEF all
      <4>5. Cardinality(all) <= MaxNames
        <5>1. /\ Cardinality(all) \in Nat /\ Cardinality(top) \in Nat
              /\ Cardinality(all) <= Cardinality(top)
          BY <4>4, SetsOfNames
        <5> QED
          BY <1>1, <3>1, <5>1
      <4> QED
        BY <2>1, <4>5 DEF Roomy, Slotted, all
    <3> QED
      BY <3>2, <3>3
  <2> QED
    BY <2>2, <2>3
<1>6. CASE BeginMeanReversion
  <2> DEFINE held == NamesOf({c \in Instruments : book[c] # 0})
  <2>1. PICK exits \in SUBSET Managed, washouts \in SUBSET Underlyings :
            /\ \/ Cardinality(washouts) <= MaxNames - Cardinality(held)
               \/ washouts = {}
            /\ Begin(exits, Len(Names), washouts \X {"share"})
    BY <1>6, Zenon DEF BeginMeanReversion
  <2>2. Begun(exits)
    BY <2>1, BeginGives
  <2>3. setup.kind = "mean_reversion"
    BY <1>6 DEF BeginMeanReversion
  <2>4. NamesOf(Stays(exits)) = held
    BY <2>3 DEF Stays
  <2>5. ASSUME pc' = "entries" PROVE Roomy(Stays(exits), slots', NextWanted)
    <3>1. candidates' = washouts \X {"share"}
      BY <2>1, <2>5, BeginGives
    <3>2. NextWanted = washouts
      BY <3>1 DEF NextWanted
    <3>3. washouts # {}
      <4>1. ASSUME washouts = {} PROVE pc' # "entries"
        <5>1. washouts \X {"share"} = {}
          BY <4>1
        <5>2. Begin(exits, Len(Names), {})
          BY <2>1, <5>1
        <5> QED
          BY <5>2 DEF Begin
      <4> QED
        BY <2>5, <4>1
    <3>4. Cardinality(washouts) <= MaxNames - Cardinality(held)
      BY <2>1, <3>3
    <3>5. held \in SUBSET Underlyings
      BY NamesSize
    <3> HIDE DEF held
    <3>6. Cardinality(held \cup washouts)
              = Cardinality(held) + Cardinality(washouts)
                    - Cardinality(held \cap washouts)
      BY <3>5, SetsOfNames, FS_Union
    <3>7. /\ Cardinality(held) \in Nat /\ Cardinality(washouts) \in Nat
          /\ Cardinality(held \cap washouts) \in Nat
      BY <3>5, SetsOfNames
    <3> DEFINE h == Cardinality(held)
               w == Cardinality(washouts)
               b == Cardinality(held \cap washouts)
               u == Cardinality(held \cup washouts)
    <3>8. u = h + w - b /\ h \in Nat /\ w \in Nat /\ b \in Nat /\ w <= MaxNames - h
      BY <3>4, <3>6, <3>7
    <3> HIDE DEF h, w, b, u
    <3>9. u <= MaxNames
      BY <1>1, <3>8
    <3> QED
      BY <2>3, <2>4, <3>2, <3>9 DEF Roomy, Slotted, u
  <2> QED
    BY <2>2, <2>5
<1> QED
  BY <1>3, <1>4, <1>5, <1>6, Zenon DEF AnyBegin, Limited, BeginConvexity

LEMMA InitNames == Init => NamesInv
<1> SUFFICES ASSUME Init PROVE NamesInv
  OBVIOUS
<1>1. /\ \A c \in Instruments : book[c] = 0 /\ sent[c] = 0 /\ target[c] = 0
      /\ pc = "idle" /\ closing = {}
  BY DEF Init, None
<1>2. Taken = {} /\ Staying = {}
  BY <1>1 DEF Taken, Staying
<1>3. Cardinality(NamesOf({})) = 0
  <2>1. NamesOf({}) = {}
    BY DEF NamesOf
  <2> QED
    BY <2>1, FS_EmptySet
<1>4. MaxNames \in Nat
  OBVIOUS
<1> QED
  BY <1>1, <1>2, <1>3, <1>4 DEF NamesInv, Capped

LEMMA NextNames ==
    TypeOK /\ TypeOK' /\ SidesInv /\ OneInv /\ NamesInv /\ [Next]_vars => NamesInv'
<1> SUFFICES ASSUME TypeOK, TypeOK', SidesInv, OneInv, NamesInv, [Next]_vars, Limited
             PROVE  NamesInv'
  BY SetupFixed DEF NamesInv, Limited
<1>0. setup' = setup
  BY SetupFixed
<1>1. /\ BookOK /\ BookOK' /\ PlanOK /\ Fitting /\ Apart /\ AllLive
      /\ MaxNames \in Nat
  <2>1. Unrepicked
    BY DEF Limited, Unrepicked
  <2>2. BookOK /\ BookOK' /\ PlanOK
    BY TypeParts, PTL
  <2> QED
    BY <2>1, <2>2 DEF SidesInv, OneInv
<1>2. /\ Capped(Taken) /\ Capped(Staying)
      /\ closing # {} => \A c \in Instruments : sent[c] # 0 => book[c] # 0
      /\ pc = "entries" => Roomy(Staying, slots, Wanted)
  BY Zenon DEF NamesInv, Roomy
<1>3. Taken \subseteq Instruments /\ Staying \subseteq Instruments
  BY DEF Taken, Staying
<1>4. \A c \in Instruments : /\ book[c] \in Int /\ sent[c] \in Int
                             /\ book'[c] \in Int /\ sent'[c] \in Int
  BY <1>1 DEF BookOK
<1>5. ASSUME NextTaken \subseteq Taken \/ NextTaken \subseteq Staying,
             NextStaying \subseteq Taken \/ NextStaying \subseteq Staying,
             closing' # {} => \A c \in Instruments : sent'[c] # 0 => book'[c] # 0,
             pc' = "entries" => Roomy(NextStaying, slots', NextWanted)
      PROVE  NamesInv'
  <2>1. Capped(NextTaken) /\ Capped(NextStaying)
    BY <1>2, <1>3, <1>5, FewerNames
  <2> QED
    BY <1>0, <1>5, <2>1, NamesNext
<1>6. CASE AnyBegin
  <2>1. PICK exits \in SUBSET Managed :
            Begun(exits) /\ (pc' = "entries" => Roomy(Stays(exits), slots', NextWanted))
    BY <1>6, BeginsRoomy
  <2>2. \A c \in Instruments : target[c] = 0 /\ sent[c] = 0
    BY <2>1, IdleNone DEF Begun
  <2>3. book' = book /\ target' = target /\ sent' = sent /\ closing' = exits
    BY <2>1 DEF Begun
  <2>4. NextTaken \subseteq Taken
    BY <2>3 DEF NextTaken, Taken
  <2>5. \A c \in Instruments : book'[c] + sent'[c] = book[c]
    BY <1>4, <2>2, <2>3
  <2>6. NextStaying = Stays(exits)
    BY <2>2, <2>3, <2>5 DEF NextStaying, Stays
  <2>7. NextStaying \subseteq Taken
    BY <2>6 DEF Stays, Taken
  <2> QED
    BY <1>5, <2>1, <2>2, <2>3, <2>4, <2>6, <2>7
<1>7. CASE Quiet
  <2>1. /\ book' = book /\ sent' = sent /\ target' = target /\ closing' = closing
        /\ pc' = "entries" => pc = "entries" /\ candidates' = candidates
    BY <1>7, QuietGives
  <2>2. NextTaken = Taken /\ NextStaying = Staying
    BY <2>1 DEF NextTaken, Taken, NextStaying, Staying
  <2>3. pc' = "entries" => NextWanted = Wanted /\ slots' = slots
    <3>1. pc' = "entries" => slots' = slots
      BY <1>7 DEF Quiet, SkipName, EntriesDone, SessionMoves, NextDay, plan, vars
    <3> QED
      BY <2>1, <3>1 DEF NextWanted, Wanted
  <2> QED
    BY <1>2, <1>5, <2>1, <2>2, <2>3
<1>8. CASE EndPass
  <2>1. /\ \A c \in Instruments : book'[c] = book[c] + sent[c]
        /\ \A c \in Instruments : sent'[c] = 0 /\ target'[c] = 0
        /\ pc' = "idle" /\ closing = {} /\ closing' = {}
    BY <1>8, EndGives DEF None
  <2>2. NextTaken \subseteq Staying
    BY <2>1 DEF NextTaken, Staying
  <2>3. \A c \in Instruments : book'[c] + sent'[c] = book[c] + sent[c]
    BY <1>4, <2>1
  <2>4. NextStaying \subseteq Staying
    BY <2>1, <2>3 DEF NextStaying, Staying
  <2> QED
    BY <1>5, <2>1, <2>2, <2>4
<1>9. CASE Restart
  <2>1. /\ pc' = "idle" /\ closing' = closing /\ closing = {}
        /\ target' = target /\ sent' = sent
        /\ \A c \in Instruments : book'[c] \in {book[c], 0} /\ target[c] = 0 /\ sent[c] = 0
    BY <1>9, RestartGives, IdleNone, TypeParts DEF IdleOK
  <2>2. NextTaken \subseteq Taken
    BY <2>1 DEF NextTaken, Taken
  <2>3. \A c \in Instruments : book'[c] + sent'[c] = book'[c]
    BY <1>4, <2>1
  <2>4. NextStaying \subseteq Taken
    BY <2>1, <2>3 DEF NextStaying, Taken
  <2> QED
    BY <1>5, <2>1, <2>2, <2>4
<1>10. ASSUME NEW c \in Instruments, CloseOrder(c) PROVE NamesInv'
  <2>1. /\ book' = book /\ target' = target
        /\ c \in closing /\ closing' = closing \ {c}
    BY <1>10, CloseGives DEF Fixed
  <2>2. PICK q \in Int : Moves(c, q) /\ (setup.closes /\ Live(c) => q = -book[c])
    BY <1>10, CloseGives
  <2>3. book[c] # 0 /\ target[c] = 0 /\ sent[c] = 0
    BY <1>1, <2>1 DEF Apart
  <2>4. /\ pc' = "orders" /\ sent'[c] = q
        /\ \A d \in Instruments : d # c => sent'[d] = sent[d]
    BY <2>2, <2>3 DEF Moves
  <2>5. NextTaken \subseteq Taken
    BY <2>1 DEF NextTaken, Taken
  <2>6. setup.kind = "mean_reversion" => c \in Staying
    <3>1. book[c] + sent[c] # 0
      BY <1>4, <2>3
    <3> QED
      BY <3>1 DEF Staying
  <2>7. setup.kind # "mean_reversion" => c \notin NextStaying
    <3>1. setup.kind # "mean_reversion" => book'[c] + sent'[c] = 0
      BY <1>1, <1>4, <2>1, <2>2, <2>3, <2>4 DEF AllLive, Limited
    <3> QED
      BY <2>1, <2>3, <3>1 DEF NextStaying
  <2>8. ASSUME NEW d \in NextStaying PROVE d \in Staying
    <3>1. CASE d = c
      BY <2>6, <2>7, <2>8, <3>1
    <3>2. CASE d # c
      <4>1. d \in Instruments
        BY DEF NextStaying
      <4>2. /\ book'[d] = book[d] /\ sent'[d] = sent[d] /\ target'[d] = target[d]
            /\ d \in closing' <=> d \in closing
        BY <2>1, <2>4, <3>2, <4>1
      <4> QED
        BY <4>1, <4>2 DEF NextStaying, Staying
    <3> QED
      BY <3>1, <3>2
  <2>9. \A d \in Instruments : sent'[d] # 0 => book'[d] # 0
    BY <1>2, <2>1, <2>3, <2>4
  <2> QED
    BY <1>5, <2>4, <2>5, <2>8, <2>9
<1>11. ASSUME NEW c \in Instruments, TargetOrder(c) PROVE NamesInv'
  <2>1. /\ book' = book /\ target[c] # 0 /\ target' = [target EXCEPT ![c] = 0]
        /\ closing = {} /\ closing' = {}
    BY <1>11, TargetGives DEF Fixed
  <2>2. /\ pc' = "orders" /\ \A d \in Instruments : d # c => sent'[d] = sent[d]
    BY <1>11, TargetGives DEF Moves
  <2>3. NextTaken \subseteq Taken
    BY <2>1 DEF NextTaken, Taken
  <2>4. c \in Staying
    BY <2>1 DEF Staying
  <2>5. ASSUME NEW d \in NextStaying PROVE d \in Staying
    <3>1. CASE d # c
      <4>1. d \in Instruments
        BY DEF NextStaying
      <4>2. book'[d] = book[d] /\ sent'[d] = sent[d] /\ target'[d] = target[d]
        BY <1>1, <2>1, <2>2, <3>1, <4>1 DEF BookOK
      <4> QED
        BY <2>1, <4>1, <4>2 DEF NextStaying, Staying
    <3> QED
      BY <2>4, <3>1
  <2> QED
    BY <1>5, <2>1, <2>2, <2>3, <2>5
<1>12. ASSUME NEW c \in Instruments, EnterName(c) PROVE NamesInv'
  <2>1. /\ book' = book /\ sent' = sent /\ closing' = closing
        /\ candidates' = candidates /\ pc = "entries" /\ Offered(c)
        /\ \A d \in Instruments : d # c => target'[d] = target[d]
    BY <1>1, <1>12, EnterGives DEF Fixed, BookOK
  <2>2. slots' = slots - 1 /\ slots > 0 /\ slots \in Nat
    BY <1>1, <1>12 DEF EnterName, PlanOK
  <2>3. NextTaken \subseteq Taken
    BY <2>1 DEF NextTaken, Taken
  <2>4. NextStaying \subseteq Staying \cup {c}
    BY <2>1 DEF NextStaying, Staying
  <2>5. /\ NamesOf(NextStaying) \subseteq NamesOf(Staying) \cup {Under[c]}
        /\ Cardinality(NamesOf(NextStaying)) <= Cardinality(NamesOf(Staying)) + 1
    BY <1>3, <2>4, OneMoreName
  <2>6. /\ Cardinality(NamesOf(Staying)) \in Nat
        /\ Cardinality(NamesOf(NextStaying)) \in Nat
        /\ NamesOf(Staying) \in SUBSET Underlyings
    <3>1. NextStaying \subseteq Instruments
      BY DEF NextStaying
    <3> QED
      BY <1>3, <3>1, NamesSize
  <2>7. Roomy(Staying, slots, Wanted)
    BY <1>2, <2>1
  <2>8. NextWanted = Wanted /\ Under[c] \in Wanted /\ Wanted \subseteq Underlyings
    BY <2>1 DEF NextWanted, Wanted, Offered
  <2>9. Capped(NextStaying) /\ Roomy(NextStaying, slots', NextWanted)
    <3> DEFINE n == Cardinality(NamesOf(Staying))
               m == Cardinality(NamesOf(NextStaying))
    <3>1. n \in Nat /\ m \in Nat /\ m <= n + 1
      BY <2>5, <2>6
    <3>2. CASE Slotted
      <4>1. n + slots <= MaxNames
        BY <2>7, <3>2 DEF Roomy
      <4> HIDE DEF n, m
      <4>2. m + slots' <= MaxNames /\ m <= MaxNames
        BY <1>1, <2>2, <3>1, <4>1
      <4> QED
        BY <3>2, <4>2 DEF Roomy, Capped, m
    <3>3. CASE ~Slotted
      <4> DEFINE before == NamesOf(Staying) \cup Wanted
                 after == NamesOf(NextStaying) \cup NextWanted
                 now == NamesOf(NextStaying)
      <4>1. Cardinality(before) <= MaxNames
        BY <2>7, <3>3 DEF Roomy
      <4>2. after \in SUBSET before /\ now \in SUBSET before /\ before \in SUBSET Underlyings
        BY <2>5, <2>6, <2>8
      <4> HIDE DEF before, after, now
      <4>3. /\ Cardinality(before) \in Nat
            /\ Cardinality(after) \in Nat /\ Cardinality(after) <= Cardinality(before)
            /\ Cardinality(now) \in Nat /\ Cardinality(now) <= Cardinality(before)
        BY <4>2, SetsOfNames
      <4>4. Cardinality(after) <= MaxNames /\ Cardinality(now) <= MaxNames
        BY <1>1, <4>1, <4>3
      <4> QED
        BY <3>3, <4>4 DEF Roomy, Capped, after, now
    <3> QED
      BY <3>2, <3>3
  <2>10. Capped(NextTaken)
    BY <1>2, <1>3, <2>3, FewerNames
  <2>11. closing' # {} => \A d \in Instruments : sent'[d] # 0 => book'[d] # 0
    BY <1>2, <2>1
  <2> QED
    BY <1>0, <2>9, <2>10, <2>11, NamesNext
<1> QED
  BY <1>6, <1>7, <1>8, <1>9, <1>10, <1>11, <1>12, StepKinds

(* What is live of the account is of names that stay, or, while closes are *)
(* still to come, of names the book has.                                   *)
LEMMA NamesCovered == TypeOK /\ NamesInv => NamesCapped
<1> SUFFICES ASSUME TypeOK, NamesInv, Limited PROVE
        Cardinality(NamesOf({c \in Instruments : Live(c) /\ Account[c] # 0})) <= MaxNames
  BY DEF NamesCapped, Limited
<1> DEFINE held == {c \in Instruments : Live(c) /\ Account[c] # 0}
<1>1. \A c \in Instruments : book[c] \in Int /\ sent[c] \in Int
  BY TypeParts DEF BookOK
<1>2. \A c \in Instruments : Account[c] = book[c] + sent[c]
  BY DEF Account
<1>3. /\ Capped(Taken) /\ Capped(Staying)
      /\ closing # {} => \A c \in Instruments : sent[c] # 0 => book[c] # 0
  BY Zenon DEF NamesInv
<1>4. CASE closing = {}
  <2>1. held \in SUBSET Staying /\ Staying \in SUBSET Instruments
    BY <1>2, <1>4 DEF Staying
  <2> HIDE DEF held
  <2>2. Capped(held)
    BY <1>3, <2>1, FewerNames
  <2> QED
    BY <2>2 DEF Capped, held
<1>5. CASE closing # {}
  <2>1. ASSUME NEW c \in held PROVE c \in Taken
    <3>1. c \in Instruments /\ book[c] + sent[c] # 0
      BY <1>2
    <3>2. book[c] # 0
      BY <1>1, <1>3, <1>5, <3>1
    <3> QED
      BY <3>1, <3>2 DEF Taken
  <2>2. held \in SUBSET Taken /\ Taken \in SUBSET Instruments
    BY <2>1 DEF Taken
  <2> HIDE DEF held
  <2>3. Capped(held)
    BY <1>3, <2>2, FewerNames
  <2> QED
    BY <2>3 DEF Capped, held
<1> QED
  BY <1>4, <1>5

(* A sleeve never has more names than its limit: mean_reversion whatever   *)
(* becomes of its closes, the others but convexity while closes go through *)
(* and the chain does not give back the contract being closed.             *)
THEOREM NamesLimited == Spec => []NamesCapped
<1>1. Init => TypeOK /\ SidesInv /\ OneInv /\ NamesInv
  BY InitTyped, InitSides, InitOne, InitNames
<1>2. TypeOK /\ SidesInv /\ OneInv /\ NamesInv /\ [Next]_vars
          => TypeOK' /\ SidesInv' /\ OneInv' /\ NamesInv'
  BY NextTyped, NextSides, NextOne, NextNames
<1>3. TypeOK /\ NamesInv => NamesCapped
  BY NamesCovered
<1> QED
  BY <1>1, <1>2, <1>3, PTL DEF Spec
=============================================================================
