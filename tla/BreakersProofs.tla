---------------------------- MODULE BreakersProofs ----------------------------
(***************************************************************************)
(* Theorems about Breakers, for any limits, any values of the account, any *)
(* lengths of the hour and the day and any number of restarts.             *)
(***************************************************************************)
EXTENDS Breakers, Arithmetic

USE BreakersAssumption DEF BreakersAssumption

-----------------------------------------------------------------------------
(* Type correctness *)

(* Counts by age stay counts, whatever is added, merged or grown older.    *)
LEMMA CountsTyped ==
    /\ None \in [Ages -> Nat]
    /\ \A f \in [Ages -> Nat] :
           /\ AddNow(f) \in [Ages -> Nat]
           /\ Older(f) \in [Ages -> Nat]
           /\ \A g \in [Ages -> Nat] : Merge(f, g) \in [Ages -> Nat]
<1>1. None \in [Ages -> Nat]
  BY DEF None
<1>2. ASSUME NEW f \in [Ages -> Nat]
      PROVE  AddNow(f) \in [Ages -> Nat] /\ Older(f) \in [Ages -> Nat]
  <2>1. AddNow(f) \in [Ages -> Nat]
    BY <1>2 DEF AddNow, Ages
  <2>2. \A a \in Ages : a # 0 => a - 1 \in Ages
    BY DEF Ages
  <2>3. Older(f) \in [Ages -> Nat]
    BY <1>2, <2>2 DEF Older
  <2> QED
    BY <2>1, <2>3
<1>3. ASSUME NEW f \in [Ages -> Nat], NEW g \in [Ages -> Nat]
      PROVE  Merge(f, g) \in [Ages -> Nat]
  BY <1>3 DEF Merge
<1> QED
  BY <1>1, <1>2, <1>3

(* The parts of the type invariant that different steps disturb.           *)
MoneyOK ==
    /\ equity \in Levels \cup {StartingCash}
    /\ anchor \in Levels \cup {0}
    /\ peak \in Levels \cup {StartingCash}
    /\ seenEquity \subseteq Levels
TradesOK == /\ unseen \in [Ages -> Nat] /\ trades \in [Ages -> Nat]
            /\ refused \in [Ages -> Nat] /\ sent \in [Ages -> Nat]
ErrorsOK == errors \in 0..MaxErrors /\ transient \in 0..(3 * MaxErrors)
FlagsOK  == /\ dayKnown \in BOOLEAN /\ seeded \in BOOLEAN
            /\ halted \in BOOLEAN /\ killed \in BOOLEAN /\ flattened \in BOOLEAN
            /\ ran \in BOOLEAN
ClockOK  == dayTick \in 0..(DayTicks - 1) /\ left \in 0..MaxSignals
BillsOK  == llmToday \in Nat /\ llmRun \in Nat /\ billed \in Nat
PlaceOK  ==
    /\ setup \in Setups
    /\ pc \in {"idle", "sync", "check", "pass", "llm"}
    /\ crashes \in 0..MaxCrashes
Judged ==
    pc \in {"check", "pass", "llm"} =>
        seeded /\ anchor # 0 /\ peak >= equity /\ equity \in seenEquity

LEMMA TypeParts ==
    TypeOK <=> /\ MoneyOK /\ TradesOK /\ ErrorsOK /\ FlagsOK /\ ClockOK
               /\ BillsOK /\ PlaceOK /\ Judged
  BY DEF TypeOK, MoneyOK, TradesOK, ErrorsOK, FlagsOK, ClockOK, BillsOK,
         PlaceOK, Judged

LEMMA InitTyped == Init => TypeOK
<1> SUFFICES ASSUME Init PROVE TypeOK
  OBVIOUS
<1>1. MoneyOK /\ ErrorsOK /\ ClockOK /\ BillsOK /\ PlaceOK /\ Judged
  BY DEF Init, MoneyOK, ErrorsOK, ClockOK, BillsOK, PlaceOK, Judged
<1>2. TradesOK
  BY CountsTyped DEF Init, TradesOK
<1>3. FlagsOK
  BY DEF Init, FlagsOK
<1> QED
  BY <1>1, <1>2, <1>3, TypeParts

(* Counters of errors stay within their limits.                            *)
LEMMA ErrorsTyped ==
    ASSUME ErrorsOK
    PROVE  /\ RecordError \/ RecordTransient => ErrorsOK'
           /\ errors' = 0 /\ transient' = 0 => ErrorsOK'
           /\ \A n \in Nat : errors' = AtMost(errors + n, MaxErrors)
                  /\ UNCHANGED transient => ErrorsOK'
  BY DEF ErrorsOK, RecordError, RecordTransient, AtMost

(* A sync leaves an anchor, a peak and the equity it found.                *)
LEMMA SyncTyped ==
    ASSUME TypeOK, NEW e \in Levels, Sync(e)
    PROVE  MoneyOK' /\ TradesOK' /\ ErrorsOK' /\ Judged'
<1>1. MoneyOK /\ TradesOK /\ ErrorsOK
  BY TypeParts
<1>2. /\ e \in Nat \ {0} /\ peak \in Nat
  BY <1>1 DEF MoneyOK
<1>3. MoneyOK'
  BY <1>1 DEF MoneyOK, Sync, Anchors
<1>4. Judged'
  BY <1>2 DEF Judged, Sync, Anchors
<1>5. PICK seedFails \in BOOLEAN, pollFails \in BOOLEAN :
        LET new      == IF seeded \/ seedFails THEN unseen ELSE None
            failures == (IF seedFails THEN 1 ELSE 0)
                            + (IF pollFails THEN 1 ELSE 0)
        IN  /\ unseen' = IF pollFails THEN new ELSE None
            /\ trades' = IF pollFails THEN trades ELSE Merge(trades, new)
            /\ errors' = AtMost(errors + failures, MaxErrors)
            /\ UNCHANGED <<transient, refused, sent>>
  BY Zenon DEF Sync, SyncFills
<1>6. TradesOK'
  BY <1>1, <1>5, CountsTyped DEF TradesOK
<1>7. ErrorsOK'
  BY <1>1, <1>5 DEF ErrorsOK, AtMost
<1> QED
  BY <1>3, <1>4, <1>6, <1>7

LEMMA NextTyped == TypeOK /\ [Next]_vars => TypeOK'
<1> SUFFICES ASSUME TypeOK, [Next]_vars PROVE TypeOK'
  OBVIOUS
<1>a. /\ MoneyOK /\ TradesOK /\ ErrorsOK /\ FlagsOK /\ ClockOK
      /\ BillsOK /\ PlaceOK /\ Judged
  BY TypeParts
<1> USE DEF dayVars, moneyVars, tradeVars, errorVars, haltVars, llmVars
<1>1. CASE StartIteration
  <2>1. MoneyOK' /\ TradesOK' /\ ErrorsOK' /\ ClockOK' /\ BillsOK'
    BY <1>a, <1>1 DEF MoneyOK, TradesOK, ErrorsOK, ClockOK, BillsOK,
       StartIteration
  <2>2. FlagsOK' /\ PlaceOK' /\ Judged'
    BY <1>a, <1>1 DEF FlagsOK, PlaceOK, Judged, StartIteration
  <2> QED
    BY <2>1, <2>2, TypeParts, PTL
<1>2. CASE SyncRaises
  <2>1. MoneyOK' /\ TradesOK' /\ ClockOK' /\ BillsOK'
    BY <1>a, <1>2 DEF MoneyOK, TradesOK, ClockOK, BillsOK, SyncRaises
  <2>2. FlagsOK' /\ PlaceOK' /\ Judged'
    BY <1>a, <1>2 DEF FlagsOK, PlaceOK, Judged, SyncRaises
  <2>3. ErrorsOK'
    BY <1>a, <1>2, ErrorsTyped DEF SyncRaises
  <2> QED
    BY <2>1, <2>2, <2>3, TypeParts, PTL
<1>3. CASE SeedTimesOut
  <2>1. MoneyOK' /\ TradesOK' /\ ClockOK' /\ BillsOK'
    BY <1>a, <1>3 DEF MoneyOK, TradesOK, ClockOK, BillsOK, SeedTimesOut
  <2>2. FlagsOK' /\ PlaceOK' /\ Judged'
    BY <1>a, <1>3 DEF FlagsOK, PlaceOK, Judged, SeedTimesOut
  <2>3. ErrorsOK'
    BY <1>a, <1>3, ErrorsTyped DEF SeedTimesOut
  <2> QED
    BY <2>1, <2>2, <2>3, TypeParts, PTL
<1>4. ASSUME NEW e \in Levels, Sync(e) PROVE TypeOK'
  <2>1. ClockOK' /\ BillsOK' /\ FlagsOK' /\ PlaceOK'
    BY <1>a, <1>4 DEF ClockOK, BillsOK, FlagsOK, PlaceOK, Sync
  <2> QED
    BY <1>4, <2>1, SyncTyped, TypeParts, PTL
<1>5. ASSUME NEW other \in BOOLEAN, CheckTrips(other) PROVE TypeOK'
  <2>1. MoneyOK' /\ TradesOK' /\ ErrorsOK' /\ ClockOK' /\ BillsOK'
    BY <1>a, <1>5 DEF MoneyOK, TradesOK, ErrorsOK, ClockOK, BillsOK,
       CheckTrips, RecordSuccess
  <2>2. FlagsOK' /\ PlaceOK' /\ Judged'
    BY <1>a, <1>5 DEF FlagsOK, PlaceOK, Judged, CheckTrips, RecordSuccess
  <2> QED
    BY <2>1, <2>2, TypeParts, PTL
<1>6. CASE CheckClears
  <2>1. MoneyOK' /\ TradesOK' /\ ErrorsOK' /\ ClockOK' /\ BillsOK'
    BY <1>a, <1>6 DEF MoneyOK, TradesOK, ErrorsOK, ClockOK, BillsOK,
       CheckClears, RecordSuccess
  <2>2. FlagsOK' /\ PlaceOK' /\ Judged'
    BY <1>a, <1>6 DEF FlagsOK, PlaceOK, Judged, CheckClears, RecordSuccess
  <2> QED
    BY <2>1, <2>2, TypeParts, PTL
<1>7. CASE SendOrder
  <2>1. MoneyOK' /\ ErrorsOK' /\ ClockOK' /\ BillsOK'
    BY <1>a, <1>7 DEF MoneyOK, ErrorsOK, ClockOK, BillsOK, SendOrder,
       TakeSignal
  <2>2. FlagsOK' /\ PlaceOK' /\ Judged'
    BY <1>a, <1>7 DEF FlagsOK, PlaceOK, Judged, SendOrder, TakeSignal
  <2>3. TradesOK'
    BY <1>a, <1>7, CountsTyped DEF TradesOK, SendOrder
  <2> QED
    BY <2>1, <2>2, <2>3, TypeParts, PTL
<1>8. CASE RefuseOrder
  <2>1. MoneyOK' /\ ErrorsOK' /\ ClockOK' /\ BillsOK'
    BY <1>a, <1>8 DEF MoneyOK, ErrorsOK, ClockOK, BillsOK, RefuseOrder,
       TakeSignal
  <2>2. FlagsOK' /\ PlaceOK' /\ Judged'
    BY <1>a, <1>8 DEF FlagsOK, PlaceOK, Judged, RefuseOrder, TakeSignal
  <2>3. TradesOK'
    BY <1>a, <1>8, CountsTyped DEF TradesOK, RefuseOrder
  <2> QED
    BY <2>1, <2>2, <2>3, TypeParts, PTL
<1>9. CASE StrategyRaises
  <2>1. MoneyOK' /\ TradesOK' /\ ClockOK' /\ BillsOK'
    BY <1>a, <1>9 DEF MoneyOK, TradesOK, ClockOK, BillsOK, StrategyRaises,
       TakeSignal
  <2>2. FlagsOK' /\ PlaceOK' /\ Judged'
    BY <1>a, <1>9 DEF FlagsOK, PlaceOK, Judged, StrategyRaises, TakeSignal
  <2>3. ErrorsOK'
    BY <1>a, <1>9, ErrorsTyped DEF StrategyRaises
  <2> QED
    BY <2>1, <2>2, <2>3, TypeParts, PTL
<1>10. CASE StartRun
  <2>1. MoneyOK' /\ TradesOK' /\ ErrorsOK' /\ ClockOK' /\ BillsOK'
    BY <1>a, <1>10 DEF MoneyOK, TradesOK, ErrorsOK, ClockOK, BillsOK,
       StartRun, TakeSignal
  <2>2. FlagsOK' /\ PlaceOK' /\ Judged'
    BY <1>a, <1>10 DEF FlagsOK, PlaceOK, Judged, StartRun, TakeSignal
  <2> QED
    BY <2>1, <2>2, TypeParts, PTL
<1>11. ASSUME NEW cost \in 1..MaxCallCost, Call(cost) PROVE TypeOK'
  <2>1. MoneyOK' /\ TradesOK' /\ ErrorsOK' /\ ClockOK' /\ BillsOK'
    BY <1>a, <1>11 DEF MoneyOK, TradesOK, ErrorsOK, ClockOK, BillsOK, Call,
       Spend
  <2>2. FlagsOK' /\ PlaceOK' /\ Judged'
    BY <1>a, <1>11 DEF FlagsOK, PlaceOK, Judged, Call, Spend
  <2> QED
    BY <2>1, <2>2, TypeParts, PTL
<1>12. CASE RunEnds
  <2>1. MoneyOK' /\ TradesOK' /\ ErrorsOK' /\ ClockOK' /\ BillsOK'
    BY <1>a, <1>12 DEF MoneyOK, TradesOK, ErrorsOK, ClockOK, BillsOK, RunEnds
  <2>2. FlagsOK' /\ PlaceOK' /\ Judged'
    BY <1>a, <1>12 DEF FlagsOK, PlaceOK, Judged, RunEnds
  <2> QED
    BY <2>1, <2>2, TypeParts, PTL
<1>13. CASE PassRaises
  <2>1. MoneyOK' /\ TradesOK' /\ ClockOK' /\ BillsOK'
    BY <1>a, <1>13 DEF MoneyOK, TradesOK, ClockOK, BillsOK, PassRaises
  <2>2. FlagsOK' /\ PlaceOK' /\ Judged'
    BY <1>a, <1>13 DEF FlagsOK, PlaceOK, Judged, PassRaises
  <2>3. ErrorsOK'
    BY <1>a, <1>13, ErrorsTyped DEF PassRaises
  <2> QED
    BY <2>1, <2>2, <2>3, TypeParts, PTL
<1>14. CASE PassEnds
  <2>1. MoneyOK' /\ ErrorsOK' /\ ClockOK' /\ BillsOK'
    BY <1>a, <1>14 DEF MoneyOK, ErrorsOK, ClockOK, BillsOK, PassEnds
  <2>2. FlagsOK' /\ PlaceOK' /\ Judged'
    BY <1>a, <1>14 DEF FlagsOK, PlaceOK, Judged, PassEnds
  <2>3. TradesOK'
    BY <1>a, <1>14, CountsTyped DEF TradesOK, PassEnds
  <2> QED
    BY <2>1, <2>2, <2>3, TypeParts, PTL
<1>15. CASE Tick
  <2>1. MoneyOK' /\ ErrorsOK' /\ BillsOK'
    BY <1>a, <1>15 DEF MoneyOK, ErrorsOK, BillsOK, Tick
  <2>2. FlagsOK' /\ PlaceOK' /\ Judged'
    BY <1>a, <1>15 DEF FlagsOK, PlaceOK, Judged, Tick
  <2>3. TradesOK'
    BY <1>a, <1>15, CountsTyped DEF TradesOK, Tick
  <2>4. ClockOK'
    <3>1. (dayTick + 1) % DayTicks \in 0..(DayTicks - 1)
      BY <1>a DEF ClockOK
    <3> QED
      BY <1>a, <1>15, <3>1 DEF ClockOK, Tick
  <2> QED
    BY <2>1, <2>2, <2>3, <2>4, TypeParts, PTL
<1>16. CASE Release
  <2>1. MoneyOK' /\ TradesOK' /\ ErrorsOK' /\ ClockOK' /\ BillsOK'
    BY <1>a, <1>16 DEF MoneyOK, TradesOK, ErrorsOK, ClockOK, BillsOK, Release
  <2>2. FlagsOK' /\ PlaceOK' /\ Judged'
    BY <1>a, <1>16 DEF FlagsOK, PlaceOK, Judged, Release
  <2> QED
    BY <2>1, <2>2, TypeParts, PTL
<1>17. CASE Restart
  <2>1. MoneyOK' /\ ErrorsOK' /\ ClockOK' /\ BillsOK'
    BY <1>a, <1>17 DEF MoneyOK, ErrorsOK, ClockOK, BillsOK, Restart
  <2>2. PlaceOK' /\ Judged'
    BY <1>a, <1>17 DEF PlaceOK, Judged, Restart
  <2>4. FlagsOK'
    BY <1>a, <1>17, Zenon DEF FlagsOK, Restart
  <2>3. TradesOK'
    BY <1>a, <1>17, CountsTyped DEF TradesOK, Restart
  <2> QED
    BY <2>1, <2>2, <2>3, <2>4, TypeParts, PTL
<1>18. CASE UNCHANGED vars
  <2>1. MoneyOK' /\ TradesOK' /\ ErrorsOK' /\ ClockOK' /\ BillsOK'
    BY <1>a, <1>18 DEF MoneyOK, TradesOK, ErrorsOK, ClockOK, BillsOK, vars
  <2>2. FlagsOK' /\ PlaceOK' /\ Judged'
    BY <1>a, <1>18 DEF FlagsOK, PlaceOK, Judged, vars
  <2> QED
    BY <2>1, <2>2, TypeParts, PTL
<1> QED
  BY <1>1, <1>2, <1>3, <1>4, <1>5, <1>6, <1>7, <1>8, <1>9, <1>10, <1>11,
     <1>12, <1>13, <1>14, <1>15, <1>16, <1>17, <1>18 DEF Next, LoopStep

(* Every variable keeps its type; breakers are judged and passes run with  *)
(* an anchor and a peak that have been set.                                *)
THEOREM TypeCorrect == Spec => []TypeOK
  BY InitTyped, NextTyped, PTL DEF Spec

-----------------------------------------------------------------------------
(* The peak and the anchor *)

(* The peak is at least all this process has seen; it has seen nothing     *)
(* before its first sync.                                                  *)
PeakIsHighest ==
    /\ \A e \in seenEquity : peak >= e
    /\ ~seeded => seenEquity = {}

LEMMA StepKeepsPeak == TypeOK /\ PeakIsHighest /\ [Next]_vars => PeakIsHighest'
<1> SUFFICES ASSUME TypeOK, PeakIsHighest, [Next]_vars PROVE PeakIsHighest'
  OBVIOUS
<1>1. ASSUME UNCHANGED <<peak, seeded, seenEquity>> PROVE PeakIsHighest'
  BY <1>1 DEF PeakIsHighest
<1>2. CASE SeedTimesOut
  BY <1>2 DEF SeedTimesOut, PeakIsHighest
<1>3. ASSUME NEW e \in Levels, Sync(e) PROVE PeakIsHighest'
  <2>1. e \in Nat /\ peak \in Nat /\ seenEquity \subseteq Nat
    BY DEF TypeOK
  <2>2. /\ seeded' = TRUE /\ seenEquity' = seenEquity \cup {e}
        /\ peak' = IF seeded /\ peak > e THEN peak ELSE e
    BY <1>3 DEF Sync, Anchors
  <2>3. CASE seeded
    <3>1. peak' = IF peak > e THEN peak ELSE e
      BY <2>2, <2>3, Zenon
    <3>2. peak' \in Nat /\ peak' >= peak /\ peak' >= e
      BY <2>1, <3>1
    <3>3. \A d \in seenEquity : peak >= d
      BY DEF PeakIsHighest
    <3>4. \A d \in seenEquity' : peak' >= d
      BY <2>1, <2>2, <3>2, <3>3
    <3> QED
      BY <2>2, <3>4 DEF PeakIsHighest
  <2>4. CASE ~seeded
    BY <2>1, <2>2, <2>4 DEF PeakIsHighest
  <2> QED
    BY <2>3, <2>4
<1>4. CASE Restart
  BY <1>4 DEF Restart, PeakIsHighest
<1> QED
  BY <1>1, <1>2, <1>3, <1>4
     DEF Next, LoopStep, vars, moneyVars, StartIteration, SyncRaises, CheckTrips,
         CheckClears, SendOrder, RefuseOrder, StrategyRaises, StartRun, Call,
         RunEnds, PassRaises, PassEnds, Tick, Release

(* What is not down from the peak is not down from anything below it.      *)
LEMMA DownFromPeakOnly ==
    ASSUME NEW v \in Nat \ {0}, NEW top \in Nat, NEW e \in Nat \ {0}, e <= top,
           ~Drawdown(top, v)
    PROVE  ~Drawdown(e, v)
<1> DEFINE k == 100 - DrawdownPct
<1>1. k \in Int
  OBVIOUS
<1>2. k * top < 100 * v
  BY DEF Drawdown
<1>3. k * e < 100 * v
  <2>1. CASE k >= 0
    <3>1. k * (top - e) >= 0
      BY <1>1, <2>1
    <3> QED
      BY <1>1, <1>2, <3>1
  <2>2. CASE k < 0
    <3>1. k * e < 0
      BY <1>1, <2>2
    <3> QED
      BY <1>1, <3>1
  <2> QED
    BY <1>1, <2>1, <2>2
<1> QED
  BY <1>3 DEF Drawdown

LEMMA StepKeepsDrawdown ==
    /\ TypeOK /\ TypeOK' /\ PeakIsHighest /\ NoPassInDrawdown /\ [Next]_vars
    => NoPassInDrawdown'
<1> SUFFICES ASSUME TypeOK, TypeOK', PeakIsHighest, NoPassInDrawdown, [Next]_vars
             PROVE  NoPassInDrawdown'
  OBVIOUS
<1>1. ASSUME pc' \notin {"pass", "llm"} PROVE NoPassInDrawdown'
  BY <1>1 DEF NoPassInDrawdown
<1>2. ASSUME pc \in {"pass", "llm"}, seenEquity' = seenEquity, equity' = equity
      PROVE  NoPassInDrawdown'
  BY <1>2 DEF NoPassInDrawdown, Drawdown
<1>3. CASE CheckClears
  <2>1. ~Drawdown(peak, equity) /\ pc = "check"
    BY <1>3 DEF CheckClears, Trips, Fatal
  <2>2. equity \in Nat \ {0} /\ peak \in Nat /\ seenEquity \subseteq Nat \ {0}
    BY DEF TypeOK
  <2>3. \A e \in seenEquity : ~Drawdown(e, equity)
    BY <2>1, <2>2, DownFromPeakOnly DEF PeakIsHighest
  <2>4. seenEquity' = seenEquity /\ equity' = equity
    BY <1>3 DEF CheckClears, moneyVars
  <2> QED
    BY <2>3, <2>4 DEF NoPassInDrawdown, Drawdown
<1>4. CASE Tick \/ Release \/ UNCHANGED vars
  <2>1. pc' = pc /\ seenEquity' = seenEquity /\ equity' = equity
    BY <1>4 DEF Tick, Release, vars, moneyVars
  <2> QED
    BY <2>1 DEF NoPassInDrawdown, Drawdown
<1>5. CASE SendOrder \/ RefuseOrder \/ StrategyRaises \/ StartRun \/ RunEnds
           \/ (\E cost \in 1..MaxCallCost : Call(cost))
  BY <1>2, <1>5 DEF SendOrder, RefuseOrder, StrategyRaises, StartRun, RunEnds,
                    Call, TakeSignal, moneyVars
<1>6. CASE \/ StartIteration \/ SyncRaises \/ SeedTimesOut \/ PassRaises
           \/ PassEnds \/ Restart \/ (\E e \in Levels : Sync(e))
           \/ (\E other \in BOOLEAN : CheckTrips(other))
  BY <1>1, <1>6 DEF StartIteration, SyncRaises, SeedTimesOut, PassRaises,
                    PassEnds, Restart, Sync, CheckTrips
<1> QED
  BY <1>3, <1>4, <1>5, <1>6 DEF Next, LoopStep

(* No pass runs while the account is down by the halt limit from anything  *)
(* this process has seen it worth, on whatever day that was.               *)
THEOREM NoTradingInDrawdown == Spec => []NoPassInDrawdown
<1>1. Init => PeakIsHighest /\ NoPassInDrawdown
  BY DEF Init, PeakIsHighest, NoPassInDrawdown
<1> QED
  BY <1>1, StepKeepsPeak, StepKeepsDrawdown, TypeCorrect, PTL DEF Spec

(* The anchor, and where get_fills answers the peak, is something this     *)
(* process has seen the account worth.                                     *)
AnchorsAreSeen ==
    /\ anchor # 0 => anchor \in seenEquity
    /\ ~setup.faults /\ seeded => peak \in seenEquity

LEMMA StepKeepsAnchors == TypeOK /\ AnchorsAreSeen /\ [Next]_vars => AnchorsAreSeen'
<1> SUFFICES ASSUME TypeOK, AnchorsAreSeen, [Next]_vars PROVE AnchorsAreSeen'
  OBVIOUS
<1>1. ASSUME UNCHANGED <<setup, anchor, peak, seeded, seenEquity>>
      PROVE  AnchorsAreSeen'
  BY <1>1 DEF AnchorsAreSeen
<1>2. CASE StartIteration
  BY <1>2 DEF StartIteration, AnchorsAreSeen
<1>3. CASE SeedTimesOut
  BY <1>3 DEF SeedTimesOut, AnchorsAreSeen
<1>4. ASSUME NEW e \in Levels, Sync(e) PROVE AnchorsAreSeen'
  <2>1. /\ seeded' = TRUE /\ seenEquity' = seenEquity \cup {e} /\ setup' = setup
        /\ peak' = IF seeded /\ peak > e THEN peak ELSE e
        /\ anchor' = IF anchor = 0 THEN e ELSE anchor
    BY <1>4 DEF Sync, Anchors
  <2> QED
    BY <2>1, Zenon DEF AnchorsAreSeen
<1>5. CASE Restart
  BY <1>5 DEF Restart, AnchorsAreSeen
<1> QED
  BY <1>1, <1>2, <1>3, <1>4, <1>5
     DEF Next, LoopStep, vars, moneyVars, SyncRaises, CheckTrips,
         CheckClears, SendOrder, RefuseOrder, StrategyRaises, StartRun, Call,
         RunEnds, PassRaises, PassEnds, Tick, Release

(* Where get_fills answers, the breakers flatten the account only for a    *)
(* loss this process has seen happen (runner.py 126).                      *)
THEOREM KillsAreEarned == Spec => CalmKillIsEarned
<1>1. Init => AnchorsAreSeen
  BY DEF Init, AnchorsAreSeen
<1>2. TypeOK /\ AnchorsAreSeen /\ [Next]_vars =>
        (~setup.faults /\ killed' /\ ~killed =>
            \E e \in seenEquity : \/ DailyLoss(e, equity)
                                  \/ Drawdown(e, equity))
  <2> SUFFICES ASSUME TypeOK, AnchorsAreSeen, [Next]_vars,
                      ~setup.faults, killed', ~killed
               PROVE  \E e \in seenEquity : \/ DailyLoss(e, equity)
                                            \/ Drawdown(e, equity)
    OBVIOUS
  <2>1. \E other \in BOOLEAN : CheckTrips(other)
    BY DEF Next, LoopStep, StartIteration, SyncRaises, SeedTimesOut, Sync,
           CheckClears, SendOrder, RefuseOrder, StrategyRaises, StartRun, Call,
           RunEnds, PassRaises, PassEnds, Tick, Release, Restart, vars, haltVars
  <2>2. pc = "check" /\ Fatal
    BY <2>1 DEF CheckTrips
  <2>3. anchor \in seenEquity /\ peak \in seenEquity
    BY <2>2 DEF TypeOK, AnchorsAreSeen
  <2> QED
    BY <2>2, <2>3 DEF Fatal
<1> QED
  BY <1>1, <1>2, StepKeepsAnchors, TypeCorrect, PTL DEF Spec, CalmKillIsEarned

-----------------------------------------------------------------------------
(* The budget of a run *)

RunWithinBudget == llmRun < RunBudget + MaxCallCost

(* A run of the LLM sleeve exceeds its budget by less than one call, on    *)
(* whichever side of midnight its calls are made (cost_guard.py 58).    *)
THEOREM RunBudgetHolds == Spec => []RunWithinBudget
<1>1. Init => RunWithinBudget
  BY DEF Init, RunWithinBudget
<1>2. TypeOK /\ RunWithinBudget /\ [Next]_vars => RunWithinBudget'
  <2> SUFFICES ASSUME TypeOK, RunWithinBudget, [Next]_vars PROVE RunWithinBudget'
    OBVIOUS
  <2>1. llmRun \in Nat
    BY DEF TypeOK
  <2>2. ASSUME llmRun' = llmRun \/ llmRun' = 0 PROVE RunWithinBudget'
    BY <2>2 DEF RunWithinBudget
  <2>3. ASSUME NEW cost \in 1..MaxCallCost, Call(cost) PROVE RunWithinBudget'
    BY <2>1, <2>3 DEF Call, WithinBudgets, Spend, RunWithinBudget
  <2> QED
    BY <2>2, <2>3
       DEF Next, LoopStep, StartIteration, SyncRaises, SeedTimesOut, Sync,
           CheckTrips, CheckClears, SendOrder, RefuseOrder, StrategyRaises,
           StartRun, RunEnds, PassRaises, PassEnds, Tick, Release, Restart,
           vars, llmVars
<1> QED
  BY <1>1, <1>2, TypeCorrect, PTL DEF Spec

(* What a day may cost beside what the process has counted today: each     *)
(* restart forgets a day's count, and one run may have begun the day       *)
(* before.                                                                 *)
Forgotten == crashes * (DayBudget + MaxCallCost - 1) + RunBudget + MaxCallCost - 1

(* The bill of the day: what is counted today and what is forgotten; an    *)
(* iteration that midnight has come over has spent what its one run has.   *)
BillBounded ==
    /\ RunWithinBudget
    /\ llmToday < DayBudget + MaxCallCost
    /\ dayKnown => billed <= llmToday + Forgotten
    /\ ~dayKnown => billed <= Forgotten
    /\ ~dayKnown /\ pc \in {"sync", "check"} => billed = 0
    /\ ~dayKnown /\ pc \in {"pass", "llm"} =>
           billed <= llmRun /\ (~ran => billed = 0)
    /\ pc = "llm" => ran

LEMMA StepKeepsBill == TypeOK /\ BillBounded /\ [Next]_vars => BillBounded'
<1> SUFFICES ASSUME TypeOK, BillBounded, [Next]_vars PROVE BillBounded'
  OBVIOUS
<1> DEFINE D == DayBudget + MaxCallCost - 1
           R == RunBudget + MaxCallCost - 1
<1>1. /\ llmToday \in Nat /\ llmRun \in Nat /\ billed \in Nat /\ crashes \in Nat
      /\ dayKnown \in BOOLEAN /\ ran \in BOOLEAN
  BY TypeParts DEF BillsOK, PlaceOK, FlagsOK
<1>2. D \in Nat /\ R \in Nat
  OBVIOUS
<1>3. /\ crashes * D \in Nat /\ (crashes + 1) * D = crashes * D + D
      /\ Forgotten = crashes * D + R
  BY <1>1, <1>2 DEF Forgotten
<1>4. llmToday <= D /\ llmRun <= R
  BY <1>1 DEF BillBounded, RunWithinBudget
<1>5. ASSUME UNCHANGED <<llmToday, llmRun, billed, crashes, dayKnown, ran>>,
             \/ pc' \in {"idle", pc}
             \/ pc = "sync" /\ pc' = "check"
             \/ pc = "llm" /\ pc' = "pass"
      PROVE  BillBounded'
  BY <1>5 DEF BillBounded, RunWithinBudget, Forgotten
<1>6. CASE StartIteration
  <2>1. /\ pc' = "sync"
        /\ dayKnown' = TRUE /\ llmRun' = llmRun /\ billed' = billed
        /\ crashes' = crashes
        /\ dayKnown => llmToday' = llmToday
        /\ ~dayKnown => llmToday' = 0
    BY <1>6 DEF StartIteration
  <2>2. llmToday' < DayBudget + MaxCallCost /\ billed' <= llmToday' + Forgotten'
    BY <1>1, <1>3, <2>1 DEF BillBounded, Forgotten
  <2> QED
    BY <2>1, <2>2 DEF BillBounded, RunWithinBudget
<1>7. CASE CheckClears
  <2>1. /\ UNCHANGED <<llmToday, llmRun, billed, crashes, dayKnown>>
        /\ pc = "check"
        /\ pc' \in {"pass", "idle"}
    BY <1>7 DEF CheckClears, dayVars
  <2>2. ~dayKnown => billed = 0
    BY <2>1 DEF BillBounded
  <2> QED
    BY <1>1, <2>1, <2>2 DEF BillBounded, RunWithinBudget, Forgotten
<1>8. CASE StartRun
  <2>1. /\ UNCHANGED <<llmToday, billed, crashes, dayKnown>>
        /\ pc = "pass" /\ ~ran /\ ran' /\ llmRun' = 0
    BY <1>8 DEF StartRun, TakeSignal, dayVars, llmVars
  <2>2. ~dayKnown => billed = 0
    BY <2>1 DEF BillBounded
  <2> QED
    BY <2>1, <2>2 DEF BillBounded, RunWithinBudget, Forgotten
<1>9. ASSUME NEW cost \in 1..MaxCallCost, Call(cost) PROVE BillBounded'
  <2>1. /\ llmToday < DayBudget /\ llmRun < RunBudget
        /\ llmToday' = llmToday + cost /\ llmRun' = llmRun + cost
        /\ billed' = billed + cost
        /\ UNCHANGED <<crashes, dayKnown, ran, pc>> /\ pc = "llm"
    BY <1>9 DEF Call, WithinBudgets, Spend
  <2>2. cost \in Nat /\ cost <= MaxCallCost /\ cost > 0
    OBVIOUS
  <2>3. RunWithinBudget' /\ llmToday' < DayBudget + MaxCallCost
    BY <1>1, <2>1, <2>2 DEF RunWithinBudget
  <2>4. Forgotten' = Forgotten
    BY <2>1 DEF Forgotten
  <2>5. dayKnown => billed' <= llmToday' + Forgotten'
    BY <1>1, <1>2, <1>3, <2>1, <2>2, <2>4 DEF BillBounded
  <2>6. ~dayKnown => billed' <= llmRun' /\ ran
    <3> SUFFICES ASSUME ~dayKnown PROVE billed' <= llmRun' /\ ran
      OBVIOUS
    <3>1. billed <= llmRun /\ ran
      BY <2>1 DEF BillBounded
    <3> QED
      BY <1>1, <2>1, <2>2, <3>1
  <2>7. ~dayKnown => billed' <= Forgotten'
    <3>1. llmRun' <= R /\ llmRun' \in Nat /\ billed' \in Nat
      BY <1>1, <2>1, <2>2
    <3> QED
      BY <1>2, <1>3, <2>4, <2>6, <3>1
  <2> QED
    BY <2>1, <2>3, <2>5, <2>6, <2>7 DEF BillBounded
<1>10. CASE Tick
  <2>1. /\ UNCHANGED <<llmToday, llmRun, crashes, ran>>
        /\ \/ dayKnown' = FALSE /\ billed' = 0
           \/ dayKnown' = dayKnown /\ billed' = billed
        /\ pc' = pc
    BY <1>10 DEF Tick, llmVars
  <2>2. Forgotten' = Forgotten /\ Forgotten \in Nat
    BY <1>1, <1>2, <1>3, <2>1 DEF Forgotten
  <2> QED
    BY <1>1, <2>1, <2>2 DEF BillBounded, RunWithinBudget
<1>11. CASE Restart
  <2>1. /\ dayKnown' = FALSE /\ llmToday' = 0 /\ llmRun' = 0 /\ pc' = "idle"
        /\ billed' = billed /\ crashes' = crashes + 1
    BY <1>11 DEF Restart
  <2>2. Forgotten' = crashes * D + D + R
    BY <1>1, <1>2, <1>3, <2>1 DEF Forgotten
  <2>3. billed <= crashes * D + D + R
    BY <1>1, <1>2, <1>3, <1>4 DEF BillBounded
  <2> QED
    BY <2>1, <2>2, <2>3 DEF BillBounded, RunWithinBudget
<1>12. CASE PassRaises \/ PassEnds
  BY <1>5, <1>12 DEF PassRaises, PassEnds, dayVars, llmVars
<1>13. CASE \/ SyncRaises \/ SeedTimesOut \/ SendOrder \/ RefuseOrder
            \/ StrategyRaises \/ RunEnds
            \/ (\E e \in Levels : Sync(e))
            \/ (\E other \in BOOLEAN : CheckTrips(other))
  BY <1>5, <1>13 DEF SyncRaises, SeedTimesOut, SendOrder, RefuseOrder,
     StrategyRaises, RunEnds, Sync, CheckTrips, TakeSignal, dayVars, llmVars
<1>14. CASE Release \/ UNCHANGED vars
  <2>1. UNCHANGED <<llmToday, llmRun, billed, crashes, dayKnown, ran, pc>>
    BY <1>14 DEF Release, vars, dayVars, llmVars
  <2> QED
    BY <1>5, <2>1
<1> QED
  BY <1>6, <1>7, <1>8, <1>9, <1>10, <1>11, <1>12, <1>13, <1>14
     DEF Next, LoopStep

(* The LLM budgets (cost_guard.py 52-61): a run exceeds its own by less    *)
(* than one call, and what a process is billed for within a day exceeds    *)
(* the day's by less than one call, the rest of a run begun the day before *)
(* and a day's budget for every restart aside.                             *)
THEOREM Budgets == Spec => []BudgetsHold
<1>1. Init => BillBounded
  <2> SUFFICES ASSUME Init PROVE BillBounded
    OBVIOUS
  <2> QED
    BY DEF Init, BillBounded, RunWithinBudget, Forgotten
<1>2. TypeOK /\ BillBounded => BudgetsHold
  <2> SUFFICES ASSUME TypeOK, BillBounded PROVE BudgetsHold
    OBVIOUS
  <2> DEFINE D == DayBudget + MaxCallCost
  <2>1. /\ llmToday \in Nat /\ billed \in Nat /\ crashes \in Nat
        /\ dayKnown \in BOOLEAN /\ D \in Nat
    BY TypeParts DEF BillsOK, PlaceOK, FlagsOK
  <2>2. billed <= llmToday + Forgotten
    BY <2>1 DEF BillBounded, Forgotten
  <2>3. /\ crashes * (D - 1) = crashes * D - crashes
        /\ (1 + crashes) * D = D + crashes * D
    BY <2>1
  <2>4. Forgotten = crashes * D - crashes + RunBudget + MaxCallCost - 1
    BY <2>1, <2>3 DEF Forgotten
  <2>5. llmToday <= D - 1
    BY <2>1 DEF BillBounded
  <2>6. crashes * D \in Nat
    BY <2>1
  <2>7. billed < (1 + crashes) * D + RunBudget + MaxCallCost
    <3> HIDE DEF D
    <3> QED
      BY <2>1, <2>2, <2>3, <2>4, <2>5, <2>6
  <2> QED
    BY <2>7 DEF BudgetsHold, BillBounded, RunWithinBudget
<1> QED
  BY <1>1, <1>2, StepKeepsBill, TypeCorrect, PTL DEF Spec

-----------------------------------------------------------------------------
(* The hourly guards *)

(* How many are left of some: counts grow by one, and age without growing. *)
LEMMA RecentCounts ==
    ASSUME NEW f \in [Ages -> Nat]
    PROVE  /\ IsFiniteSet(Ages)
           /\ Recent(f) \in Nat
           /\ Recent(None) = 0
           /\ Recent(AddNow(f)) = Recent(f) + 1
           /\ Recent(Older(f)) \in Nat /\ Recent(Older(f)) <= Recent(f)
<1>1. IsFiniteSet(Ages) /\ 0 \in Ages
  BY FS_Interval DEF Ages
<1>2. Recent(f) \in Nat
  BY <1>1, SumNat DEF Recent
<1>3. Recent(None) = 0
  BY <1>1, SumZero DEF Recent, None
<1>4. Recent(AddNow(f)) = Recent(f) + 1
  <2>1. AddNow(f) \in [Ages -> Nat]
    BY CountsTyped
  <2>2. AddNow(f)[0] = f[0] + 1 /\ \A a \in Ages \ {0} : AddNow(f)[a] = f[a]
    BY <1>1 DEF AddNow
  <2>3. Recent(AddNow(f)) = Recent(f) - f[0] + AddNow(f)[0]
    BY <1>1, <2>1, <2>2, SumChange DEF Recent
  <2> QED
    BY <1>1, <1>2, <2>2, <2>3
<1>5. Recent(Older(f)) \in Nat /\ Recent(Older(f)) <= Recent(f)
  <2> DEFINE Grown == 1..HourTicks
             g == Older(f)
  <2>1. g \in [Ages -> Nat] /\ g[0] = 0
    BY <1>1, CountsTyped DEF Older
  <2>2. Recent(g) = g[0] + SumFunctionOnSet(g, Ages \ {0})
    BY <1>1, <2>1, SumRemove DEF Recent
  <2>3. Ages \ {0} = Grown /\ IsFiniteSet(Grown)
    <3>1. HourTicks \in Nat
      OBVIOUS
    <3>2. Ages \ {0} = Grown
      BY <3>1 DEF Ages
    <3> QED
      BY <1>1, <3>2, FS_RemoveElement
  <2>4. \A a \in Grown : a \in Int /\ f[a - 1] \in Int /\ g[a] = f[a - 1]
    BY DEF Ages, Older
  <2>5. SumFunctionOnSet(g, Grown) = SumFunctionOnSet(f, {a - 1 : a \in Grown})
    <3> HIDE DEF Grown, g
    <3> QED
      BY <2>3, <2>4, SumShift
  <2>6. {a - 1 : a \in Grown} \in SUBSET Ages
    BY DEF Ages
  <2>7. SumFunctionOnSet(f, {a - 1 : a \in Grown}) <= Recent(f)
    <3> DEFINE T == {a - 1 : a \in Grown}
    <3> HIDE DEF T
    <3> QED
      BY <1>1, <2>6, SumOfPart DEF Recent, T
  <2>8. Recent(g) \in Nat
    BY <1>1, <2>1, SumNat DEF Recent
  <2> HIDE DEF g, Grown
  <2>9. Recent(g) <= Recent(f)
    <3>1. SumFunctionOnSet(g, Ages \ {0}) <= Recent(f)
      BY <2>3, <2>5, <2>7
    <3>2. SumFunctionOnSet(g, Ages \ {0}) \in Nat
      BY <2>1, <2>3, SumNat
    <3> QED
      BY <1>2, <2>1, <2>2, <2>8, <3>1, <3>2
  <2> QED
    BY <2>8, <2>9 DEF g
<1> QED
  BY <1>1, <1>2, <1>3, <1>4, <1>5

(* The process has not died and get_fills always answers.                  *)
Calm == ~setup.faults /\ crashes = 0

(* Every order sent is counted by the breaker or waits to be ingested, and *)
(* none waits where the breakers are judged; the signals the pass may      *)
(* still give are allowed for.                                             *)
GuardsInv ==
    /\ pc \notin {"pass", "llm"} => left = 0
    /\ Calm => \A a \in Ages : sent[a] = trades[a] + unseen[a]
    /\ Calm /\ (~seeded \/ pc = "check") => unseen = None
    /\ Calm => Recent(sent) + left <= MaxTradesPerHour + MaxSignals
    /\ Recent(refused) + left <= 2 + MaxSignals

LEMMA StepKeepsGuards ==
    TypeOK /\ GuardsInv /\ [Next]_vars => GuardsInv'
<1> SUFFICES ASSUME TypeOK, GuardsInv, [Next]_vars PROVE GuardsInv'
  OBVIOUS
<1>1. /\ left \in Nat /\ unseen \in [Ages -> Nat] /\ trades \in [Ages -> Nat]
      /\ refused \in [Ages -> Nat] /\ sent \in [Ages -> Nat]
      /\ MaxSignals \in Nat /\ MaxTradesPerHour \in Nat /\ crashes \in Nat
  BY TypeParts DEF TradesOK, ClockOK, PlaceOK
<1>2. /\ IsFiniteSet(Ages) /\ 0 \in Ages
      /\ \A f \in [Ages -> Nat] : Recent(f) \in Nat
  BY <1>1, RecentCounts DEF Ages
<1>3. /\ Recent(sent) \in Nat /\ Recent(refused) \in Nat /\ Recent(None) = 0
  BY <1>1, <1>2, RecentCounts
<1>4. Calm' => Calm /\ UNCHANGED <<setup, crashes>>
  <2>1. setup' = setup /\ (crashes' = crashes \/ crashes' = crashes + 1)
    BY DEF Next, LoopStep, StartIteration, SyncRaises, SeedTimesOut, Sync,
       CheckTrips, CheckClears, SendOrder, RefuseOrder, StrategyRaises, StartRun,
       Call, RunEnds, PassRaises, PassEnds, Tick, Release, Restart, TakeSignal,
       vars
  <2> QED
    BY <1>1, <2>1 DEF Calm
<1>5. pc \in {"check", "pass", "llm"} => seeded
  BY DEF TypeOK
<1>6. ASSUME UNCHANGED <<tradeVars, seeded>>,
             left' = left \/ (left' = 0 /\ pc' \notin {"pass", "llm"})
                 \/ (left > 0 /\ left' = left - 1),
             pc' \notin {"pass", "llm"} => left' = 0,
             pc' # "check" \/ pc = "check"
      PROVE  GuardsInv'
  <2>1. left' <= left /\ left' \in Nat
    BY <1>1, <1>6
  <2>2. Calm' => Recent(sent') + left' <= MaxTradesPerHour + MaxSignals
    BY <1>1, <1>3, <1>4, <1>6, <2>1 DEF GuardsInv, tradeVars
  <2>3. Recent(refused') + left' <= 2 + MaxSignals
    BY <1>1, <1>3, <1>6, <2>1 DEF GuardsInv, tradeVars
  <2> QED
    BY <1>4, <1>6, <2>2, <2>3 DEF GuardsInv, tradeVars, Recent, None
<1>7. CASE StartIteration \/ SyncRaises
  BY <1>6, <1>7 DEF StartIteration, SyncRaises, GuardsInv, moneyVars
<1>8. CASE SeedTimesOut
  <2>1. ~Calm'
    BY <1>4, <1>8 DEF SeedTimesOut, Calm
  <2> QED
    BY <1>8, <2>1 DEF SeedTimesOut, GuardsInv, tradeVars
<1>9. ASSUME NEW e \in Levels, Sync(e) PROVE GuardsInv'
  <2>1. /\ pc = "sync" /\ pc' = "check" /\ seeded' = TRUE /\ left' = left
        /\ refused' = refused /\ sent' = sent /\ setup' = setup
    BY <1>9 DEF Sync, SyncFills
  <2>2. left = 0
    BY <2>1 DEF GuardsInv
  <2>3. Calm => /\ unseen' = None
                /\ \A a \in Ages : trades'[a] = trades[a] + unseen[a]
    <3> SUFFICES ASSUME Calm
                 PROVE  /\ unseen' = None
                        /\ \A a \in Ages : trades'[a] = trades[a] + unseen[a]
      OBVIOUS
    <3>1. /\ unseen' = None
          /\ trades' = Merge(trades, IF seeded THEN unseen ELSE None)
      BY <1>9 DEF Sync, SyncFills, Calm
    <3>2. ~seeded => unseen = None
      BY DEF GuardsInv
    <3>3. trades' = Merge(trades, unseen)
      BY <3>1, <3>2
    <3> QED
      BY <3>1, <3>3 DEF Merge
  <2>4. Calm' => \A a \in Ages : sent'[a] = trades'[a] + unseen'[a]
    <3> SUFFICES ASSUME Calm', NEW a \in Ages
                 PROVE  sent'[a] = trades'[a] + unseen'[a]
      OBVIOUS
    <3>1. sent[a] = trades[a] + unseen[a] /\ trades[a] \in Nat /\ unseen[a] \in Nat
      BY <1>1, <1>4 DEF GuardsInv
    <3>2. unseen'[a] = 0 /\ trades'[a] = trades[a] + unseen[a]
      BY <1>4, <2>3 DEF None
    <3> QED
      BY <2>1, <3>1, <3>2
  <2> QED
    BY <1>4, <2>1, <2>2, <2>3, <2>4 DEF GuardsInv, Recent, None
<1>10. CASE \E other \in BOOLEAN : CheckTrips(other)
  BY <1>6, <1>10 DEF CheckTrips, RecordSuccess, GuardsInv, moneyVars
<1>11. CASE CheckClears
  <2>1. /\ pc = "check" /\ ~Trips
        /\ UNCHANGED <<setup, crashes, seeded, unseen, trades, refused, sent>>
        /\ \/ pc' = "pass" /\ left' = MaxSignals
           \/ pc' = "idle" /\ left' = left
    BY <1>11 DEF CheckClears, moneyVars, tradeVars, RecordSuccess
  <2>2. left = 0
    BY <2>1 DEF GuardsInv
  <2>3. left' <= MaxSignals /\ left' \in Nat
    BY <1>1, <2>1, <2>2
  <2>4. Recent(refused) <= 2
    BY <1>3, <2>1 DEF Trips
  <2>5. Calm => Recent(sent) <= MaxTradesPerHour
    <3> SUFFICES ASSUME Calm PROVE Recent(sent) <= MaxTradesPerHour
      OBVIOUS
    <3>1. \A a \in Ages : sent[a] = trades[a]
      <4> SUFFICES ASSUME NEW a \in Ages PROVE sent[a] = trades[a]
        OBVIOUS
      <4>1. unseen[a] = 0 /\ sent[a] = trades[a] + unseen[a]
        BY <2>1 DEF GuardsInv, None
      <4> QED
        BY <1>1, <4>1
    <3>2. Recent(sent) = Recent(trades)
      BY <1>2, <3>1, SumSame DEF Recent
    <3>3. Recent(trades) <= MaxTradesPerHour
      BY <1>1, <1>2, <2>1 DEF Trips
    <3> QED
      BY <3>2, <3>3
  <2>6. Recent(refused') + left' <= 2 + MaxSignals
    BY <1>1, <1>3, <2>1, <2>3, <2>4
  <2>7. Calm' => Recent(sent') + left' <= MaxTradesPerHour + MaxSignals
    BY <1>1, <1>3, <1>4, <2>1, <2>3, <2>5
  <2> QED
    BY <1>4, <2>1, <2>2, <2>6, <2>7 DEF GuardsInv, Recent, None
<1>12. CASE SendOrder
  <2>1. /\ pc = "pass" /\ pc' = pc /\ left > 0 /\ left' = left - 1
        /\ sent' = AddNow(sent) /\ unseen' = AddNow(unseen) /\ trades' = trades
        /\ refused' = refused /\ seeded' = seeded
    BY <1>12 DEF SendOrder, TakeSignal, moneyVars
  <2>2. Recent(sent') = Recent(sent) + 1
    BY <1>1, <2>1, RecentCounts
  <2>3. Calm' => \A a \in Ages : sent'[a] = trades'[a] + unseen'[a]
    <3> SUFFICES ASSUME Calm', NEW a \in Ages
                 PROVE  sent'[a] = trades'[a] + unseen'[a]
      OBVIOUS
    <3>1. sent[a] = trades[a] + unseen[a] /\ trades[a] \in Nat /\ unseen[a] \in Nat
      BY <1>1, <1>4 DEF GuardsInv
    <3>2. /\ sent'[a] = IF a = 0 THEN sent[a] + 1 ELSE sent[a]
          /\ unseen'[a] = IF a = 0 THEN unseen[a] + 1 ELSE unseen[a]
      BY <1>1, <1>2, <2>1 DEF AddNow
    <3> QED
      BY <2>1, <3>1, <3>2
  <2>4. seeded
    BY <1>5, <2>1
  <2>5. Calm' => Recent(sent') + left' <= MaxTradesPerHour + MaxSignals
    BY <1>1, <1>3, <1>4, <2>1, <2>2 DEF GuardsInv
  <2>6. Recent(refused') + left' <= 2 + MaxSignals
    BY <1>1, <1>3, <2>1 DEF GuardsInv
  <2> QED
    BY <2>1, <2>3, <2>4, <2>5, <2>6 DEF GuardsInv
<1>13. CASE RefuseOrder
  <2>1. /\ pc = "pass" /\ pc' = pc /\ left > 0 /\ left' = left - 1
        /\ UNCHANGED <<sent, unseen, trades, seeded>> /\ refused' = AddNow(refused)
    BY <1>13 DEF RefuseOrder, TakeSignal, moneyVars
  <2>2. Recent(refused') = Recent(refused) + 1
    BY <1>1, <2>1, RecentCounts
  <2>3. Calm' => Recent(sent') + left' <= MaxTradesPerHour + MaxSignals
    BY <1>1, <1>3, <1>4, <2>1 DEF GuardsInv
  <2>4. Recent(refused') + left' <= 2 + MaxSignals
    BY <1>1, <1>3, <2>1, <2>2 DEF GuardsInv
  <2> QED
    BY <1>4, <1>5, <2>1, <2>3, <2>4 DEF GuardsInv
<1>14. CASE StrategyRaises \/ StartRun
  BY <1>6, <1>14 DEF StrategyRaises, StartRun, TakeSignal, moneyVars
<1>15. CASE (\E cost \in 1..MaxCallCost : Call(cost)) \/ RunEnds
  BY <1>6, <1>15 DEF Call, RunEnds, moneyVars
<1>16. CASE PassRaises
  BY <1>6, <1>16 DEF PassRaises, moneyVars
<1>17. CASE PassEnds
  <2>1. /\ pc = "pass" /\ pc' = "idle" /\ left' = 0
        /\ refused' = refused /\ sent' = sent /\ seeded' = seeded
        /\ \/ trades' = Merge(trades, unseen) /\ unseen' = None
           \/ trades' = trades /\ unseen' = unseen
    BY <1>17 DEF PassEnds, moneyVars
  <2>2. Calm' => \A a \in Ages : sent'[a] = trades'[a] + unseen'[a]
    <3> SUFFICES ASSUME Calm', NEW a \in Ages
                 PROVE  sent'[a] = trades'[a] + unseen'[a]
      OBVIOUS
    <3>1. sent[a] = trades[a] + unseen[a] /\ trades[a] \in Nat /\ unseen[a] \in Nat
      BY <1>1, <1>4 DEF GuardsInv
    <3>2. CASE trades' = Merge(trades, unseen) /\ unseen' = None
      <4>1. trades'[a] = trades[a] + unseen[a] /\ unseen'[a] = 0
        BY <3>2 DEF Merge, None
      <4> QED
        BY <2>1, <3>1, <4>1
    <3>3. CASE trades' = trades /\ unseen' = unseen
      BY <2>1, <3>1, <3>3
    <3> QED
      BY <2>1, <3>2, <3>3
  <2>3. seeded
    BY <1>5, <2>1
  <2>4. Calm' => Recent(sent') + left' <= MaxTradesPerHour + MaxSignals
    BY <1>1, <1>3, <1>4, <2>1 DEF GuardsInv
  <2>5. Recent(refused') + left' <= 2 + MaxSignals
    BY <1>1, <1>3, <2>1 DEF GuardsInv
  <2> QED
    BY <2>1, <2>2, <2>3, <2>4, <2>5 DEF GuardsInv
<1>18. CASE Tick
  <2>1. /\ unseen' = Older(unseen) /\ trades' = Older(trades)
        /\ refused' = Older(refused) /\ sent' = Older(sent)
        /\ UNCHANGED <<pc, left, seeded>>
    BY <1>18 DEF Tick, moneyVars
  <2>2. /\ Recent(sent') <= Recent(sent) /\ Recent(sent') \in Nat
        /\ Recent(refused') <= Recent(refused) /\ Recent(refused') \in Nat
    BY <1>1, <2>1, RecentCounts
  <2>3. Calm' => \A a \in Ages : sent'[a] = trades'[a] + unseen'[a]
    <3> SUFFICES ASSUME Calm', NEW a \in Ages
                 PROVE  sent'[a] = trades'[a] + unseen'[a]
      OBVIOUS
    <3>1. CASE a = 0
      BY <2>1, <3>1 DEF Older
    <3>2. CASE a # 0
      <4>1. a - 1 \in Ages
        BY <3>2 DEF Ages
      <4>2. sent[a - 1] = trades[a - 1] + unseen[a - 1]
        BY <1>4, <4>1 DEF GuardsInv
      <4> QED
        BY <2>1, <3>2, <4>2 DEF Older
    <3> QED
      BY <3>1, <3>2
  <2>4. Older(None) = None
    <3>1. \A a \in Ages : a # 0 => a - 1 \in Ages
      BY DEF Ages
    <3> QED
      BY <3>1 DEF Older, None
  <2>5. Calm' => Recent(sent') + left' <= MaxTradesPerHour + MaxSignals
    BY <1>1, <1>3, <1>4, <2>1, <2>2 DEF GuardsInv
  <2>6. Recent(refused') + left' <= 2 + MaxSignals
    BY <1>1, <1>3, <2>1, <2>2 DEF GuardsInv
  <2>7. Calm' /\ (~seeded' \/ pc' = "check") => unseen' = None
    BY <1>4, <2>1, <2>4 DEF GuardsInv
  <2> QED
    BY <2>1, <2>3, <2>5, <2>6, <2>7 DEF GuardsInv, None, Ages
<1>19. CASE Release \/ UNCHANGED vars
  <2>1. UNCHANGED <<tradeVars, seeded, left, pc>>
    BY <1>19 DEF Release, vars, moneyVars
  <2> QED
    BY <1>6, <2>1 DEF GuardsInv
<1>20. CASE Restart
  <2>1. ~Calm' /\ left' = 0 /\ refused' = None
    BY <1>1, <1>20 DEF Restart, Calm
  <2>2. Recent(refused') + left' <= 2 + MaxSignals
    BY <1>1, <1>3, <2>1
  <2> QED
    BY <2>1, <2>2 DEF GuardsInv
<1> QED
  BY <1>7, <1>8, <1>9, <1>10, <1>11, <1>12, <1>13, <1>14, <1>15, <1>16, <1>17,
     <1>18, <1>19, <1>20 DEF Next, LoopStep

(* The hourly guards (circuit_breakers.py): while get_fills answers and    *)
(* the process lives, the orders of any hour exceed max_trades_per_hour by *)
(* one pass at most; no hour has more refusals for size than two and those *)
(* of one pass, whatever fails and restarts.                               *)
THEOREM HourlyGuards == Spec => []HourlyGuardsHold
<1>1. Init => GuardsInv
  <2> SUFFICES ASSUME Init PROVE GuardsInv
    OBVIOUS
  <2>1. Recent(None) = 0
    BY CountsTyped, RecentCounts
  <2>2. /\ left = 0 /\ pc = "idle" /\ sent = None /\ trades = None
        /\ unseen = None /\ refused = None
    BY DEF Init
  <2> QED
    BY <2>1, <2>2 DEF GuardsInv, None
<1>2. TypeOK /\ GuardsInv => HourlyGuardsHold
  <2> SUFFICES ASSUME TypeOK, GuardsInv PROVE HourlyGuardsHold
    OBVIOUS
  <2>1. left \in Nat /\ sent \in [Ages -> Nat] /\ refused \in [Ages -> Nat]
    BY TypeParts DEF TradesOK, ClockOK
  <2>2. Recent(sent) \in Nat /\ Recent(refused) \in Nat
    BY <2>1, RecentCounts
  <2> QED
    BY <2>1, <2>2 DEF GuardsInv, HourlyGuardsHold, Calm
<1> QED
  BY <1>1, <1>2, StepKeepsGuards, TypeCorrect, PTL DEF Spec
=============================================================================
