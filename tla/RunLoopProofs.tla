---------------------------- MODULE RunLoopProofs ----------------------------
(***************************************************************************)
(* Theorems about RunLoop, for every number of dashboard threads,          *)
(* strategies and signals, and every bound.                                *)
(***************************************************************************)
EXTENDS RunLoop, TLAPS

USE ConstantsAssumption DEF ConstantsAssumption

-----------------------------------------------------------------------------
(* Types                                                                   *)

(* The initial state of the platform is well typed.                        *)
LEMMA InitTypeOK == Init => TypeOK
<1> SUFFICES ASSUME Init PROVE TypeOK
  OBVIOUS
<1>1. FlagsOK
  BY DEF Init, FlagsOK
<1>2. LabelsOK
  BY DEF Init, LabelsOK
<1>3. StepsOK
  BY DEF Init, StepsOK, Threads, RunnerSteps, ClientSteps
<1>4. CountsOK
  BY DEF Init, CountsOK, Exposure
<1> QED
  BY <1>1, <1>2, <1>3, <1>4 DEF TypeOK

(* Positions move between held and closing; none appears.                  *)
LEMMA Moved ==
    ASSUME NEW h \in Nat, NEW c \in Nat, NEW d \in 0..(h + c)
    PROVE  h + c - d \in Nat /\ (h + c - d) + d = h + c
  OBVIOUS

(* Whatever a flatten gets done at the broker, exposure does not grow.     *)
LEMMA FlattenNeverGrows ==
    ASSUME TypeOK, BrokerCancels \/ BrokerLiquidates \/ BrokerLiquidatesAll
    PROVE  /\ working' \in 0..working /\ held' \in Nat /\ closing' \in Nat
           /\ held' + closing' = held + closing
<1>1. working \in Nat /\ held \in Nat /\ closing \in Nat
  BY DEF TypeOK, CountsOK
<1>2. working' \in 0..working /\ closing' \in 0..(held + closing)
  BY <1>1 DEF BrokerCancels, BrokerLiquidates, BrokerLiquidatesAll
<1>3. held' = held + closing - closing'
  BY <1>1 DEF BrokerCancels, BrokerLiquidates, BrokerLiquidatesAll
<1>4. /\ held + closing - closing' \in Nat
      /\ (held + closing - closing') + closing' = held + closing
  BY <1>1, <1>2, Moved, Zenon
<1>5. held' \in Nat /\ held' + closing' = held + closing
  BY <1>3, <1>4, Zenon
<1>6. closing' \in Nat
  BY <1>1, <1>2
<1> QED
  BY <1>2, <1>5, <1>6, Zenon

(* Every step of the platform keeps every variable in its type.            *)
LEMMA NextTypeOK == TypeOK /\ [Next]_vars => TypeOK'
<1> SUFFICES ASSUME TypeOK, [Next]_vars PROVE TypeOK'
  OBVIOUS
<1> USE DEF TypeOK, FlagsOK, LabelsOK, StepsOK, CountsOK, Exposure, Threads,
            RunnerSteps, ClientSteps, At, Goto, TrackEngagement, killVars,
            flagVars, passVars, runnerVars, brokerVars, lateVars,
            ghostVars
<1>1. CASE EnterLoop
  BY <1>1 DEF EnterLoop
<1>2. CASE StateCallRaises
  BY <1>2 DEF StateCallRaises
<1>3. CASE FindKilled
  BY <1>3 DEF FindKilled
<1>4. CASE RunnerEngages
  BY <1>4 DEF RunnerEngages, EngageKillSwitch
<1>5. CASE StartIteration
  BY <1>5 DEF StartIteration
<1>6. CASE Sync
  BY <1>6 DEF Sync
<1>7. ASSUME NEW fatal \in BOOLEAN, BreakersTrip(fatal) PROVE TypeOK'
  BY <1>7 DEF BreakersTrip, SetHalted
<1>8. CASE BreakersClear
  <2>1. FlagsOK'
    BY <1>8 DEF BreakersClear, SetHalted
  <2>2. LabelsOK'
    BY <1>8 DEF BreakersClear, SetHalted
  <2>3. StepsOK'
    BY <1>8 DEF BreakersClear, SetHalted
  <2>4. CountsOK'
    BY <1>8 DEF BreakersClear, SetHalted
  <2> QED
    BY <2>1, <2>2, <2>3, <2>4 DEF TypeOK
<1>9. CASE NextStrategy
  BY <1>9 DEF NextStrategy
<1>10. CASE GenerateSignals
  BY <1>10 DEF GenerateSignals
<1>11. CASE NextSignal
  <2>1. FlagsOK'
    BY <1>11 DEF NextSignal
  <2>2. LabelsOK'
    BY <1>11 DEF NextSignal
  <2>3. StepsOK'
    BY <1>11 DEF NextSignal
  <2>4. CountsOK'
    BY <1>11 DEF NextSignal
  <2> QED
    BY <2>1, <2>2, <2>3, <2>4 DEF TypeOK
<1>12. CASE SignalsDone
  BY <1>12 DEF SignalsDone
<1>13. CASE SubmitAccepted
  BY <1>13 DEF SubmitAccepted
<1>14. CASE SubmitRefused
  BY <1>14 DEF SubmitRefused
<1>15. CASE PassDone
  BY <1>15 DEF PassDone
<1>16. CASE KilledMidPass
  BY <1>16 DEF KilledMidPass
<1>17. ASSUME NEW t \in Threads, CancelOrders(t) PROVE TypeOK'
  <2>1. FlagsOK'
    BY <1>17 DEF CancelOrders, BrokerCancels
  <2>2. LabelsOK'
    BY <1>17 DEF CancelOrders, BrokerCancels
  <2>3. StepsOK'
    BY <1>17 DEF CancelOrders, BrokerCancels
  <2>4. CountsOK'
    BY <1>17, FlattenNeverGrows DEF CancelOrders
  <2> QED
    BY <2>1, <2>2, <2>3, <2>4 DEF TypeOK
<1>18. ASSUME NEW t \in Threads, CloseAll(t) PROVE TypeOK'
  <2>1. FlagsOK'
    BY <1>18 DEF CloseAll, AfterEngage, BrokerLiquidatesAll
  <2>2. LabelsOK'
    BY <1>18 DEF CloseAll, AfterEngage, BrokerLiquidatesAll
  <2>3. StepsOK'
    BY <1>18 DEF CloseAll, AfterEngage, BrokerLiquidatesAll
  <2>4. CountsOK'
    BY <1>18 DEF CloseAll, AfterEngage, BrokerLiquidatesAll
  <2> QED
    BY <2>1, <2>2, <2>3, <2>4 DEF TypeOK
<1>19. ASSUME NEW t \in Threads, FlattenFails(t) PROVE TypeOK'
  <2>1. FlagsOK'
    BY <1>19 DEF FlattenFails, AfterEngage
  <2>2. LabelsOK'
    BY <1>19 DEF FlattenFails, FlattenFailsAtBroker
  <2>3. StepsOK'
    BY <1>19 DEF FlattenFails, AfterEngage
  <2>4. CountsOK'
    BY <1>19, FlattenNeverGrows DEF FlattenFails, FlattenFailsAtBroker
  <2> QED
    BY <2>1, <2>2, <2>3, <2>4 DEF TypeOK
<1>20. ASSUME NEW c \in Clients, ClientEngages(c) PROVE TypeOK'
  BY <1>20 DEF ClientEngages, EngageKillSwitch
<1>21. ASSUME NEW c \in Clients, ClientReleases(c) PROVE TypeOK'
  <2>1. FlagsOK'
    BY <1>21 DEF ClientReleases, ReleaseKillSwitch
  <2>2. LabelsOK'
    BY <1>21 DEF ClientReleases, ReleaseKillSwitch
  <2>3. StepsOK'
    BY <1>21 DEF ClientReleases, ReleaseKillSwitch
  <2>4. CountsOK'
    BY <1>21 DEF ClientReleases, ReleaseKillSwitch
  <2> QED
    BY <2>1, <2>2, <2>3, <2>4 DEF TypeOK
<1>22. ASSUME NEW t \in Threads, EngageRaises(t) PROVE TypeOK'
  <2>1. FlagsOK'
    BY <1>22 DEF EngageRaises, EngageKillSwitch
  <2>2. LabelsOK'
    BY <1>22 DEF EngageRaises, EngageKillSwitch
  <2>3. StepsOK'
    BY <1>22 DEF EngageRaises, EngageKillSwitch
  <2>4. CountsOK'
    BY <1>22 DEF EngageRaises, EngageKillSwitch
  <2> QED
    BY <2>1, <2>2, <2>3, <2>4 DEF TypeOK
<1>23. CASE TouchKillFile
  BY <1>23 DEF TouchKillFile
<1>24. CASE BrokerFills
  <2>1. FlagsOK'
    BY <1>24 DEF BrokerFills
  <2>2. LabelsOK'
    BY <1>24 DEF BrokerFills
  <2>3. StepsOK'
    BY <1>24 DEF BrokerFills
  <2>4. CountsOK'
    BY <1>24 DEF BrokerFills
  <2> QED
    BY <2>1, <2>2, <2>3, <2>4 DEF TypeOK
<1>25. CASE Crash
  <2>1. FlagsOK'
    BY <1>25 DEF Crash
  <2>2. LabelsOK'
    BY <1>25 DEF Crash
  <2>3. StepsOK'
    BY <1>25 DEF Crash
  <2>4. CountsOK'
    BY <1>25 DEF Crash
  <2> QED
    BY <2>1, <2>2, <2>3, <2>4 DEF TypeOK
<1>26. ASSUME NEW t \in Threads, FlattenRaises(t) PROVE TypeOK'
  BY <1>26 DEF FlattenRaises, FlattenFailsAtBroker, BrokerCancels,
     BrokerLiquidates, BrokerLiquidatesAll
<1>27. ASSUME NEW c \in Clients, ReleaseRaises(c) PROVE TypeOK'
  <2>1. FlagsOK'
    BY <1>27 DEF ReleaseRaises
  <2>2. LabelsOK'
    BY <1>27 DEF ReleaseRaises
  <2>3. StepsOK'
    BY <1>27 DEF ReleaseRaises
  <2>4. CountsOK'
    BY <1>27 DEF ReleaseRaises
  <2> QED
    BY <2>1, <2>2, <2>3, <2>4 DEF TypeOK
<1>28. CASE UNCHANGED vars
  BY <1>28 DEF vars
<1>29. CASE GuardSubmits
  BY <1>29 DEF GuardSubmits
<1>30. CASE GuardRefused
  BY <1>30 DEF GuardRefused
<1>31. CASE GuardDone
  BY <1>31 DEF GuardDone
<1>32. CASE BrokerLiquidated
  BY <1>32 DEF BrokerLiquidated
<1>33. CASE BrokerDrops
  BY <1>33 DEF BrokerDrops
<1> QED
  BY <1>1, <1>2, <1>3, <1>4, <1>5, <1>6, <1>7, <1>8, <1>9, <1>10, <1>11,
     <1>12, <1>13, <1>14, <1>15, <1>16, <1>17, <1>18, <1>19, <1>20, <1>21,
     <1>22, <1>23, <1>24, <1>25, <1>26, <1>27, <1>28,
     <1>29, <1>30, <1>31, <1>32, <1>33
     DEF Next, RunnerStep, RunOnce, Flatten

(* Every variable of the platform keeps its type.                          *)
THEOREM TypeCorrect == Spec => []TypeOK
  BY InitTypeOK, NextTypeOK, PTL DEF Spec

-----------------------------------------------------------------------------
(* The promise of the kill switch                                          *)

(* The inductive invariant.  Between the last kill check and the submit no *)
(* order has slipped out yet, so the one in hand is the first; an          *)
(* iteration whose guard is still to run began with the switch released,   *)
(* so the guard's orders are the only late ones, and as few as the         *)
(* contracts it had to close.                                              *)
EngagementInv ==
    /\ KillEngaged => /\ afterKill <= 1
                      /\ guardAfterKill <= MaxExpiring
                      /\ afterKill = 0 \/ guardAfterKill = 0
    /\ KillEngaged /\ pc[Runner] \in {"sync", "submit"}
           => afterKill = 0 /\ guardAfterKill = 0
    /\ KillEngaged /\ At(Runner, "guard")
           => afterKill = 0 /\ guardAfterKill + guardLeft <= MaxExpiring
    /\ ~KillEngaged => afterKill = 0 /\ guardAfterKill = 0 /\ sweep = "none"
    /\ KillEngaged /\ sweep = "done" => working + held <= Late

(* Every step keeps the engagement invariant.                              *)
LEMMA NextEngagement ==
    TypeOK /\ EngagementInv /\ [Next]_vars => EngagementInv'
<1> SUFFICES ASSUME TypeOK, EngagementInv, [Next]_vars PROVE EngagementInv'
  OBVIOUS
<1> USE DEF TypeOK, FlagsOK, LabelsOK, StepsOK, CountsOK, Exposure, Threads,
            RunnerSteps, ClientSteps, At, Goto, TrackEngagement, killVars,
            flagVars, passVars, runnerVars, brokerVars, lateVars,
            ghostVars,
            EngagementInv, KillEngaged, Late
<1>1. CASE EnterLoop
  BY <1>1 DEF EnterLoop
<1>2. CASE StateCallRaises
  BY <1>2 DEF StateCallRaises
<1>3. CASE FindKilled
  BY <1>3 DEF FindKilled
<1>4. CASE RunnerEngages
  BY <1>4 DEF RunnerEngages, EngageKillSwitch
<1>5. CASE StartIteration
  BY <1>5 DEF StartIteration
<1>6. CASE Sync
  BY <1>6 DEF Sync
<1>7. ASSUME NEW fatal \in BOOLEAN, BreakersTrip(fatal) PROVE EngagementInv'
  BY <1>7 DEF BreakersTrip, SetHalted
<1>8. CASE BreakersClear
  BY <1>8 DEF BreakersClear, SetHalted
<1>9. CASE NextStrategy
  BY <1>9 DEF NextStrategy
<1>10. CASE GenerateSignals
  BY <1>10 DEF GenerateSignals
<1>11. CASE NextSignal
  BY <1>11 DEF NextSignal
<1>12. CASE SignalsDone
  BY <1>12 DEF SignalsDone
<1>13. CASE SubmitAccepted
  BY <1>13 DEF SubmitAccepted
<1>14. CASE SubmitRefused
  BY <1>14 DEF SubmitRefused
<1>15. CASE PassDone
  BY <1>15 DEF PassDone
<1>16. CASE KilledMidPass
  BY <1>16 DEF KilledMidPass
<1>17. ASSUME NEW t \in Threads, CancelOrders(t) PROVE EngagementInv'
  BY <1>17 DEF CancelOrders, BrokerCancels
<1>18. ASSUME NEW t \in Threads, CloseAll(t) PROVE EngagementInv'
  BY <1>18 DEF CloseAll, AfterEngage, BrokerLiquidatesAll
<1>19. ASSUME NEW t \in Threads, FlattenFails(t) PROVE EngagementInv'
  BY <1>19 DEF FlattenFails, AfterEngage, FlattenFailsAtBroker,
     BrokerCancels, BrokerLiquidates
<1>20. ASSUME NEW c \in Clients, ClientEngages(c) PROVE EngagementInv'
  BY <1>20 DEF ClientEngages, EngageKillSwitch
<1>21. ASSUME NEW c \in Clients, ClientReleases(c) PROVE EngagementInv'
  BY <1>21 DEF ClientReleases, ReleaseKillSwitch
<1>22. ASSUME NEW t \in Threads, EngageRaises(t) PROVE EngagementInv'
  BY <1>22 DEF EngageRaises, EngageKillSwitch
<1>23. CASE TouchKillFile
  BY <1>23 DEF TouchKillFile
<1>24. CASE BrokerFills
  BY <1>24 DEF BrokerFills
<1>25. CASE Crash
  BY <1>25 DEF Crash
<1>26. ASSUME NEW t \in Threads, FlattenRaises(t) PROVE EngagementInv'
  BY <1>26 DEF FlattenRaises, FlattenFailsAtBroker, BrokerCancels,
     BrokerLiquidates, BrokerLiquidatesAll
<1>27. ASSUME NEW c \in Clients, ReleaseRaises(c) PROVE EngagementInv'
  BY <1>27 DEF ReleaseRaises
<1>28. CASE UNCHANGED vars
  BY <1>28 DEF vars
<1>29. CASE GuardSubmits
  BY <1>29 DEF GuardSubmits
<1>30. CASE GuardRefused
  BY <1>30 DEF GuardRefused
<1>31. CASE GuardDone
  BY <1>31 DEF GuardDone
<1>32. CASE BrokerLiquidated
  BY <1>32 DEF BrokerLiquidated
<1>33. CASE BrokerDrops
  BY <1>33 DEF BrokerDrops
<1> QED
  BY <1>1, <1>2, <1>3, <1>4, <1>5, <1>6, <1>7, <1>8, <1>9, <1>10, <1>11,
     <1>12, <1>13, <1>14, <1>15, <1>16, <1>17, <1>18, <1>19, <1>20, <1>21,
     <1>22, <1>23, <1>24, <1>25, <1>26, <1>27, <1>28,
     <1>29, <1>30, <1>31, <1>32, <1>33
     DEF Next, RunnerStep, RunOnce, Flatten

(* The engagement invariant holds of every reachable state.                *)
LEMMA EngagementCorrect == Spec => [](TypeOK /\ EngagementInv)
<1>1. Init => EngagementInv
  BY DEF Init, EngagementInv, KillEngaged, At
<1> QED
  BY <1>1, InitTypeOK, NextTypeOK, NextEngagement, PTL DEF Spec

(* What slips out of an engagement is one strategy order, or the guard's   *)
(* orders of one iteration.                                                *)
THEOREM FewLateOrders == Spec => []LateOrdersBounded
<1>1. TypeOK /\ EngagementInv => LateOrdersBounded
  BY DEF EngagementInv, LateOrdersBounded, TypeOK, CountsOK
<1> QED
  BY <1>1, EngagementCorrect, PTL

(* While a flatten stands, nothing but the late orders escapes it.         *)
THEOREM FlattenLeavesNothing == Spec => []FlattenIsFinal
<1>1. EngagementInv => FlattenIsFinal
  BY DEF EngagementInv, FlattenIsFinal
<1> QED
  BY <1>1, EngagementCorrect, PTL

(* Every step of the platform is a step of the promise, or none.           *)
LEMMA StepKeepsPromise ==
    TypeOK /\ EngagementInv /\ [Next]_vars => [Promise!Next]_(Promise!vars)
<1> SUFFICES ASSUME TypeOK, EngagementInv, [Next]_vars
             PROVE  [Promise!Next]_(Promise!vars)
  OBVIOUS
<1> USE DEF TypeOK, FlagsOK, LabelsOK, StepsOK, CountsOK, At, Goto,
            TrackEngagement, killVars, flagVars, passVars, runnerVars,
            brokerVars, lateVars, ghostVars, EngagementInv, KillEngaged, Late, Exposure, MaxLate,
            Promise!Next,
            Promise!vars, Promise!Trade, Promise!Engage, Promise!Shrink,
            Promise!LateOrder, Promise!Flatten, Promise!Unswept,
            Promise!NoGrowth, Promise!Release
<1>1. CASE EnterLoop
  BY <1>1 DEF EnterLoop
<1>2. CASE StateCallRaises
  BY <1>2 DEF StateCallRaises
<1>3. CASE FindKilled
  BY <1>3 DEF FindKilled
<1>4. CASE RunnerEngages
  BY <1>4 DEF RunnerEngages, EngageKillSwitch
<1>5. CASE StartIteration
  BY <1>5 DEF StartIteration
<1>6. CASE Sync
  BY <1>6 DEF Sync
<1>7. ASSUME NEW fatal \in BOOLEAN, BreakersTrip(fatal) PROVE [Promise!Next]_(Promise!vars)
  BY <1>7 DEF BreakersTrip, SetHalted
<1>8. CASE BreakersClear
  BY <1>8 DEF BreakersClear, SetHalted
<1>9. CASE NextStrategy
  BY <1>9 DEF NextStrategy
<1>10. CASE GenerateSignals
  BY <1>10 DEF GenerateSignals
<1>11. CASE NextSignal
  BY <1>11 DEF NextSignal
<1>12. CASE SignalsDone
  BY <1>12 DEF SignalsDone
<1>13. CASE SubmitAccepted
  BY <1>13 DEF SubmitAccepted
<1>14. CASE SubmitRefused
  BY <1>14 DEF SubmitRefused
<1>15. CASE PassDone
  BY <1>15 DEF PassDone
<1>16. CASE KilledMidPass
  BY <1>16 DEF KilledMidPass
<1>17. ASSUME NEW t \in Threads, CancelOrders(t) PROVE [Promise!Next]_(Promise!vars)
  <2>1. CASE KillEngaged /\ sweep = "done"
    BY <1>17, <2>1, FlattenNeverGrows DEF CancelOrders
  <2>2. CASE KillEngaged /\ sweep # "done"
    BY <1>17, <2>2, FlattenNeverGrows DEF CancelOrders
  <2>3. CASE ~KillEngaged
    BY <1>17, <2>3, FlattenNeverGrows DEF CancelOrders
  <2> QED
    BY <2>1, <2>2, <2>3
<1>18. ASSUME NEW t \in Threads, CloseAll(t) PROVE [Promise!Next]_(Promise!vars)
  BY <1>18 DEF CloseAll, AfterEngage, BrokerLiquidatesAll
<1>19. ASSUME NEW t \in Threads, FlattenFails(t) PROVE [Promise!Next]_(Promise!vars)
  BY <1>19 DEF FlattenFails, AfterEngage, FlattenFailsAtBroker,
     BrokerCancels, BrokerLiquidates
<1>20. ASSUME NEW c \in Clients, ClientEngages(c) PROVE [Promise!Next]_(Promise!vars)
  BY <1>20 DEF ClientEngages, EngageKillSwitch
<1>21. ASSUME NEW c \in Clients, ClientReleases(c) PROVE [Promise!Next]_(Promise!vars)
  BY <1>21 DEF ClientReleases, ReleaseKillSwitch
<1>22. ASSUME NEW t \in Threads, EngageRaises(t) PROVE [Promise!Next]_(Promise!vars)
  BY <1>22 DEF EngageRaises, EngageKillSwitch
<1>23. CASE TouchKillFile
  BY <1>23 DEF TouchKillFile
<1>24. CASE BrokerFills
  BY <1>24 DEF BrokerFills
<1>25. CASE Crash
  BY <1>25 DEF Crash
<1>26. ASSUME NEW t \in Threads, FlattenRaises(t) PROVE [Promise!Next]_(Promise!vars)
  BY <1>26 DEF FlattenRaises, FlattenFailsAtBroker, BrokerCancels,
     BrokerLiquidates, BrokerLiquidatesAll
<1>27. ASSUME NEW c \in Clients, ReleaseRaises(c) PROVE [Promise!Next]_(Promise!vars)
  BY <1>27 DEF ReleaseRaises
<1>28. CASE UNCHANGED vars
  BY <1>28 DEF vars
<1>29. CASE GuardSubmits
  BY <1>29 DEF GuardSubmits
<1>30. CASE GuardRefused
  BY <1>30 DEF GuardRefused
<1>31. CASE GuardDone
  BY <1>31 DEF GuardDone
<1>32. CASE BrokerLiquidated
  BY <1>32 DEF BrokerLiquidated
<1>33. CASE BrokerDrops
  BY <1>33 DEF BrokerDrops
<1> QED
  BY <1>1, <1>2, <1>3, <1>4, <1>5, <1>6, <1>7, <1>8, <1>9, <1>10, <1>11,
     <1>12, <1>13, <1>14, <1>15, <1>16, <1>17, <1>18, <1>19, <1>20, <1>21,
     <1>22, <1>23, <1>24, <1>25, <1>26, <1>27, <1>28,
     <1>29, <1>30, <1>31, <1>32, <1>33
     DEF Next, RunnerStep, RunOnce, Flatten, Threads

(* The platform implements the promise of the kill switch.                 *)
THEOREM PlatformKeepsPromise == Spec => KeepsPromise
<1>1. Init => Promise!Init
  BY DEF Init, Promise!Init, KillEngaged, Late
<1> QED
  BY <1>1, EngagementCorrect, StepKeepsPromise, PTL
     DEF Spec, KeepsPromise, Promise!Spec

-----------------------------------------------------------------------------
(* Kills are handled                                                       *)

(* What the operators of a healthy platform do: they engage the switch     *)
(* from the dashboard, and SQLite does not fail.                           *)
Orderly == ~TerminalTouch /\ ~DbFaults

(* Where the loop is before it has looked for a kill.                      *)
LoopUnaware == ~killedHandled /\ pc[Runner] \in {"boot", "start", "engage"}

(* The inductive invariant: an engagement with no flatten yet has one      *)
(* under way or a loop that will find it, and the loop never enters        *)
(* run_forever with a kill counted as handled.                             *)
HandledInv ==
    /\ At(Runner, "boot") => ~killedHandled
    /\ KillEngaged /\ sweep = "none" =>
           LoopUnaware \/ \E t \in Threads : pc[t] \in {"cancel", "close"}
    /\ KillEngaged => mode = "killed" \/ LoopUnaware

(* Every orderly step keeps the handling invariant.                        *)
LEMMA NextHandled ==
    Orderly /\ TypeOK /\ HandledInv /\ [Next]_vars => HandledInv'
<1> SUFFICES ASSUME Orderly, TypeOK, HandledInv, [Next]_vars
             PROVE  HandledInv'
  OBVIOUS
<1> USE DEF TypeOK, FlagsOK, LabelsOK, StepsOK, CountsOK, Exposure, Threads,
            RunnerSteps, ClientSteps, At, Goto, TrackEngagement, killVars,
            flagVars, passVars, runnerVars, brokerVars, lateVars,
            ghostVars,
            HandledInv, LoopUnaware, KillEngaged, Orderly
<1>1. CASE EnterLoop
  BY <1>1 DEF EnterLoop
<1>2. CASE StateCallRaises
  BY <1>2 DEF StateCallRaises
<1>3. CASE FindKilled
  BY <1>3 DEF FindKilled
<1>4. CASE RunnerEngages
  BY <1>4 DEF RunnerEngages, EngageKillSwitch
<1>5. CASE StartIteration
  BY <1>5 DEF StartIteration
<1>6. CASE Sync
  BY <1>6 DEF Sync
<1>7. ASSUME NEW fatal \in BOOLEAN, BreakersTrip(fatal) PROVE HandledInv'
  BY <1>7 DEF BreakersTrip, SetHalted
<1>8. CASE BreakersClear
  BY <1>8 DEF BreakersClear, SetHalted
<1>9. CASE NextStrategy
  BY <1>9 DEF NextStrategy
<1>10. CASE GenerateSignals
  BY <1>10 DEF GenerateSignals
<1>11. CASE NextSignal
  BY <1>11 DEF NextSignal
<1>12. CASE SignalsDone
  BY <1>12 DEF SignalsDone
<1>13. CASE SubmitAccepted
  BY <1>13 DEF SubmitAccepted
<1>14. CASE SubmitRefused
  BY <1>14 DEF SubmitRefused
<1>15. CASE PassDone
  BY <1>15 DEF PassDone
<1>16. CASE KilledMidPass
  BY <1>16 DEF KilledMidPass
<1>17. ASSUME NEW t \in Threads, CancelOrders(t) PROVE HandledInv'
  BY <1>17 DEF CancelOrders, BrokerCancels
<1>18. ASSUME NEW t \in Threads, CloseAll(t) PROVE HandledInv'
  BY <1>18 DEF CloseAll, AfterEngage, BrokerLiquidatesAll
<1>19. ASSUME NEW t \in Threads, FlattenFails(t) PROVE HandledInv'
  BY <1>19 DEF FlattenFails, AfterEngage, FlattenFailsAtBroker,
     BrokerCancels, BrokerLiquidates
<1>20. ASSUME NEW c \in Clients, ClientEngages(c) PROVE HandledInv'
  BY <1>20 DEF ClientEngages, EngageKillSwitch
<1>21. ASSUME NEW c \in Clients, ClientReleases(c) PROVE HandledInv'
  BY <1>21 DEF ClientReleases, ReleaseKillSwitch
<1>22. ASSUME NEW t \in Threads, EngageRaises(t) PROVE HandledInv'
  BY <1>22 DEF EngageRaises, EngageKillSwitch
<1>23. CASE TouchKillFile
  BY <1>23 DEF TouchKillFile
<1>24. CASE BrokerFills
  BY <1>24 DEF BrokerFills
<1>25. CASE Crash
  BY <1>25 DEF Crash
<1>26. ASSUME NEW t \in Threads, FlattenRaises(t) PROVE HandledInv'
  BY <1>26 DEF FlattenRaises, FlattenFailsAtBroker, BrokerCancels,
     BrokerLiquidates, BrokerLiquidatesAll
<1>27. ASSUME NEW c \in Clients, ReleaseRaises(c) PROVE HandledInv'
  BY <1>27 DEF ReleaseRaises
<1>28. CASE UNCHANGED vars
  BY <1>28 DEF vars
<1>29. CASE GuardSubmits
  BY <1>29 DEF GuardSubmits
<1>30. CASE GuardRefused
  BY <1>30 DEF GuardRefused
<1>31. CASE GuardDone
  BY <1>31 DEF GuardDone
<1>32. CASE BrokerLiquidated
  BY <1>32 DEF BrokerLiquidated
<1>33. CASE BrokerDrops
  BY <1>33 DEF BrokerDrops
<1> QED
  BY <1>1, <1>2, <1>3, <1>4, <1>5, <1>6, <1>7, <1>8, <1>9, <1>10, <1>11,
     <1>12, <1>13, <1>14, <1>15, <1>16, <1>17, <1>18, <1>19, <1>20, <1>21,
     <1>22, <1>23, <1>24, <1>25, <1>26, <1>27, <1>28,
     <1>29, <1>30, <1>31, <1>32, <1>33
     DEF Next, RunnerStep, RunOnce, Flatten

(* The handling invariant holds of every reachable state.                  *)
LEMMA HandledCorrect ==
    ASSUME Orderly PROVE Spec => [](TypeOK /\ HandledInv)
<1>1. Init => HandledInv
  BY DEF Init, HandledInv, KillEngaged, At, Threads
<1>2. TypeOK /\ HandledInv /\ [Next]_vars => HandledInv'
  BY NextHandled
<1> QED
  BY <1>1, <1>2, InitTypeOK, NextTypeOK, PTL DEF Spec

(* With kills engaged from the dashboard only, none is forgotten.          *)
THEOREM NoKillForgotten == ASSUME Orderly PROVE Spec => []KillNeverForgotten
<1>1. TypeOK /\ HandledInv => KillNeverForgotten
  BY DEF HandledInv, LoopUnaware, KillNeverForgotten
<1> QED
  BY <1>1, HandledCorrect, PTL

(* With kills engaged from the dashboard only, the dashboard shows them.   *)
THEOREM KillIsShown == ASSUME Orderly PROVE Spec => []DashboardShowsKill
<1>1. TypeOK /\ HandledInv => DashboardShowsKill
  BY DEF HandledInv, LoopUnaware, DashboardShowsKill
<1> QED
  BY <1>1, HandledCorrect, PTL

(* No step of the trading loop releases the kill switch.                   *)
THEOREM LoopNeverReleases == Spec => NeverAutoReleases
<1>1. TypeOK /\ [Next]_vars =>
          [KillEngaged /\ ~KillEngaged' => pc'[Runner] = pc[Runner]
                                           \/ crashes' # crashes]_vars
  <2> SUFFICES ASSUME TypeOK, [Next]_vars, KillEngaged, ~KillEngaged'
               PROVE  pc'[Runner] = pc[Runner] \/ crashes' # crashes
    BY DEF vars
  <2> USE DEF KillEngaged, killVars
  <2>1. CASE RunnerStep
    BY <2>1 DEF RunnerStep, RunOnce, Flatten, EnterLoop, FindKilled,
       RunnerEngages, EngageKillSwitch, StartIteration, Sync, GuardSubmits,
       GuardRefused, GuardDone, BreakersTrip,
       BreakersClear, NextStrategy, GenerateSignals, NextSignal, SignalsDone,
       SubmitAccepted, SubmitRefused, PassDone, KilledMidPass, CancelOrders,
       CloseAll, FlattenFails
  <2>2. CASE StateCallRaises
    BY <2>2 DEF StateCallRaises
  <2>3. ASSUME NEW c \in Clients,
               ClientEngages(c) \/ ClientReleases(c) \/ Flatten(c)
        PROVE  pc'[Runner] = pc[Runner]
    BY <2>3 DEF ClientEngages, EngageKillSwitch, ClientReleases, Flatten,
       CancelOrders, CloseAll, FlattenFails
  <2>4. ASSUME NEW t \in Threads, EngageRaises(t) PROVE FALSE
    BY <2>4 DEF EngageRaises, EngageKillSwitch
  <2>5. ASSUME NEW t \in Threads, FlattenRaises(t) PROVE FALSE
    BY <2>5 DEF FlattenRaises
  <2>6. ASSUME NEW c \in Clients, ReleaseRaises(c)
        PROVE  pc'[Runner] = pc[Runner]
    BY <2>6 DEF ReleaseRaises
  <2>7. CASE TouchKillFile \/ BrokerFills \/ BrokerLiquidated \/ BrokerDrops
    BY <2>7 DEF TouchKillFile, BrokerFills, BrokerLiquidated, BrokerDrops
  <2>8. CASE Crash
    BY <2>8 DEF Crash, TypeOK, CountsOK
  <2>9. CASE UNCHANGED vars
    BY <2>9 DEF vars
  <2> QED
    BY <2>1, <2>2, <2>3, <2>4, <2>5, <2>6, <2>7, <2>8, <2>9 DEF Next
<1> QED
  BY <1>1, TypeCorrect, PTL DEF Spec, NeverAutoReleases
=============================================================================
