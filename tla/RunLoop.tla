------------------------------- MODULE RunLoop -------------------------------
(***************************************************************************)
(* The trading loop (live/runner.py, LiveRunner.run_once / run_forever),   *)
(* the kill switch (risk/kill_switch.py) and the flags they share with the *)
(* dashboard threads (core/state.py, dashboard/app.py).                    *)
(*                                                                         *)
(* PlatformState takes its lock for one method at a time, so each method   *)
(* is one step here, and everything the callers do between two methods can *)
(* be interleaved: the dashboard serves requests from a pool of threads    *)
(* while the loop thread is inside a pass.  The broker is external: it     *)
(* counts the orders working at it that are no liquidation, the positions  *)
(* nobody liquidates, and the positions whose liquidation is working.      *)
(***************************************************************************)
EXTENDS Integers

CONSTANTS
    Clients,        \* dashboard request threads
    Runner,         \* the trading-loop thread
    NStrategies,    \* strategies evaluated in one pass
    MaxSignals,     \* most signals one strategy returns          (bound)
    MaxExpiring,    \* most contracts held that expire today      (bound)
    MaxExposure,    \* most orders and positions at the broker    (bound)
    MaxCrashes,     \* most process crashes                       (bound)
    TerminalTouch,  \* may an operator `touch data/KILL_SWITCH'?
    DbFaults        \* may a SQLite call raise?

ASSUME ConstantsAssumption ==
    /\ Runner \notin Clients
    /\ NStrategies \in Nat /\ MaxSignals \in Nat /\ MaxExpiring \in Nat
    /\ MaxExposure \in Nat /\ MaxCrashes \in Nat
    /\ TerminalTouch \in BOOLEAN /\ DbFaults \in BOOLEAN

VARIABLES
    killFile,             \* data/KILL_SWITCH exists                  (durable)
    killFlag,             \* kv['kill_switch'] = '1' in state.db      (durable)
    mode,                 \* PlatformState.mode
    halted,               \* PlatformState.halted
    pc,                   \* where each thread is
    guardLeft,            \* expiring contracts the guard has yet to close
    stratsLeft,           \* strategies of this pass still to evaluate
    signalsLeft,          \* signals of this strategy still to handle
    sawKill,              \* killed_mid_pass of this pass
    auto,                 \* the flatten in progress was asked by a breaker
    killedHandled,        \* LiveRunner._killed_handled
    flattenedByBreaker,   \* LiveRunner._flattened_by_breaker
    working,              \* orders working at the broker, but liquidations
    held,                 \* positions with no liquidation working
    closing,              \* positions whose liquidation order is working
    crashes,              \* process crashes so far
    sweep,                \* history: how this engagement's last flatten ended
    afterKill,            \* history: strategy orders accepted during it
    guardAfterKill        \* history: expiry-guard orders accepted during it

killVars   == <<killFile, killFlag>>
flagVars   == <<mode, halted>>
passVars   == <<guardLeft, stratsLeft, signalsLeft, sawKill>>
runnerVars == <<auto, killedHandled, flattenedByBreaker>>
brokerVars == <<working, held, closing>>
lateVars   == <<afterKill, guardAfterKill>>
ghostVars  == <<sweep, lateVars>>
vars == <<killVars, flagVars, pc, passVars, runnerVars, brokerVars, crashes,
          ghostVars>>

Threads == Clients \cup {Runner}

RunnerSteps ==
    {"boot", "start", "engage", "autoEngage", "cancel", "close", "sync",
     "guard", "breakers", "strategy", "generate", "signal", "submit", "killedMid"}
ClientSteps == {"idle", "cancel", "close"}

-----------------------------------------------------------------------------
(* PlatformState.kill_switch_engaged: the file or the database row.        *)
KillEngaged == killFile \/ killFlag

(* Orders and positions at the broker.                                     *)
Exposure == working + held + closing

(* An engagement lasts while KillEngaged stays true; the history variables *)
(* restart with it.                                                        *)
TrackEngagement ==
    IF KillEngaged /\ KillEngaged'
    THEN UNCHANGED ghostVars
    ELSE sweep' = "none" /\ afterKill' = 0 /\ guardAfterKill' = 0

Goto(t, step) == pc' = [pc EXCEPT ![t] = step]

At(t, step) == pc[t] = step

(* PlatformState.engage_kill_switch *)
EngageKillSwitch ==
    /\ killFile' = TRUE
    /\ killFlag' = TRUE
    /\ mode' = "killed"
    /\ halted' = TRUE
    /\ TrackEngagement

(* PlatformState.release_kill_switch *)
ReleaseKillSwitch ==
    /\ killFile' = FALSE
    /\ killFlag' = FALSE
    /\ mode' = "live"
    /\ halted' = FALSE
    /\ TrackEngagement

(* Mutation: a breaker halt overwrites the killed mode. *)
SetHaltedOverKilled(h) == halted' = h /\ mode' = IF h THEN "halted" ELSE "live"

(* PlatformState.set_halted: the mode is guarded, halted is not.           *)
SetHalted(h) ==
    /\ halted' = h
    /\ mode' = CASE h /\ mode # "killed"                     -> "halted"
                 [] ~h /\ mode \in {"halted", "starting"}    -> "live"
                 [] OTHER                                    -> mode

-----------------------------------------------------------------------------
Init ==
    /\ killFile = FALSE
    /\ killFlag = FALSE
    /\ mode = "starting"
    /\ halted = FALSE
    /\ pc = [t \in Threads |-> IF t = Runner THEN "boot" ELSE "idle"]
    /\ guardLeft = 0
    /\ stratsLeft = 0
    /\ signalsLeft = 0
    /\ sawKill = FALSE
    /\ auto = FALSE
    /\ killedHandled = FALSE
    /\ flattenedByBreaker = FALSE
    /\ working = 0
    /\ held = 0
    /\ closing = 0
    /\ crashes = 0
    /\ sweep = "none"
    /\ afterKill = 0
    /\ guardAfterKill = 0

-----------------------------------------------------------------------------
(* KillSwitch.engage, flatten part, run by whichever thread engaged.       *)

(* cancel_orders: open orders go, any part of them, and the liquidations   *)
(* of an earlier flatten among them.                                       *)
BrokerCancels ==
    /\ working' \in 0..working
    /\ closing' \in 0..closing
    /\ held' = held + closing - closing'

(* close_all_positions(cancel_orders=True) submits a liquidation for each  *)
(* position and returns; any part of it, if it fails.                      *)
BrokerLiquidates ==
    /\ working' \in 0..working
    /\ closing' \in 0..(held + closing)
    /\ held' = held + closing - closing'

(* ... and all of it, if it goes through.                                  *)
BrokerLiquidatesAll == working' = 0 /\ held' = 0 /\ closing' = held + closing

(* flatten_all: cancel_orders, an APIError of which is swallowed.  What an *)
(* earlier flatten had achieved does not stand until this one has closed.  *)
CancelOrders(t) ==
    /\ At(t, "cancel")
    /\ Goto(t, "close")
    /\ BrokerCancels
    /\ sweep' = IF sweep = "done" THEN "failed" ELSE sweep
    /\ UNCHANGED <<killVars, flagVars, passVars, runnerVars, crashes, lateVars>>

(* What the loop does when kill.engage returns.                            *)
AfterEngage(t) ==
    IF t = Runner
    THEN /\ Goto(t, "start")
         /\ auto' = FALSE
         /\ killedHandled' = (killedHandled \/ ~auto)
         /\ flattenedByBreaker' = (flattenedByBreaker \/ auto)
    ELSE /\ Goto(t, "idle")
         /\ UNCHANGED runnerVars

(* Mutation: close_all_positions is called without cancel_orders. *)
CloseAllKeepingOrders(t) ==
    /\ At(t, "close")
    /\ AfterEngage(t)
    /\ held' = 0
    /\ closing' = held + closing
    /\ sweep' = IF KillEngaged THEN "done" ELSE sweep
    /\ UNCHANGED <<killVars, flagVars, passVars, working, crashes, lateVars>>

CloseAll(t) ==
    /\ At(t, "close")
    /\ AfterEngage(t)
    /\ BrokerLiquidatesAll
    /\ sweep' = IF KillEngaged THEN "done" ELSE sweep
    /\ UNCHANGED <<killVars, flagVars, passVars, crashes, lateVars>>

(* A call fails: flatten_all swallows an APIError, engage logs any other   *)
(* exception; nobody tries again.                                          *)
FlattenFailsAtBroker(t) ==
    /\ IF At(t, "cancel") THEN BrokerCancels ELSE BrokerLiquidates
    /\ sweep' = IF KillEngaged THEN "failed" ELSE sweep

FlattenFails(t) ==
    /\ pc[t] \in {"cancel", "close"}
    /\ AfterEngage(t)
    /\ FlattenFailsAtBroker(t)
    /\ UNCHANGED <<killVars, flagVars, passVars, crashes, lateVars>>

(* The event that reports the flatten, or its failure, cannot be logged:   *)
(* the exception leaves KillSwitch.engage, whatever the broker has done.   *)
FlattenRaises(t) ==
    /\ DbFaults
    /\ pc[t] \in {"cancel", "close"}
    /\ Goto(t, IF t # Runner THEN "idle" ELSE IF auto THEN "start" ELSE "boot")
    /\ auto' = (auto /\ t # Runner)
    /\ \/ /\ At(t, "close")
          /\ BrokerLiquidatesAll
          /\ sweep' = IF KillEngaged THEN "done" ELSE sweep
       \/ FlattenFailsAtBroker(t)
    /\ UNCHANGED <<killVars, flagVars, passVars, killedHandled,
                   flattenedByBreaker, crashes, lateVars>>

-----------------------------------------------------------------------------
(* run_forever                                                             *)

(* Entering the loop, at start-up or again from the supervisor, which       *)
(* comes back when the first event cannot be logged.                       *)
EnterLoop ==
    /\ At(Runner, "boot")
    /\ \/ Goto(Runner, "start")
       \/ DbFaults /\ UNCHANGED pc
    /\ mode' = "live"
    /\ UNCHANGED <<killVars, halted, passVars, runnerVars, brokerVars, crashes,
                   ghostVars>>

(* A SQLite call of the loop raises.  The kill check of run_once is outside *)
(* its try: an exception there leaves run_forever, and the supervisor      *)
(* enters it again.  Elsewhere it ends the iteration.                      *)
StateCallRaises ==
    /\ DbFaults
    /\ pc[Runner] \in {"start", "guard", "breakers", "strategy", "signal",
                     "killedMid"}
    /\ Goto(Runner, IF At(Runner, "start") THEN "boot" ELSE "start")
    /\ UNCHANGED <<killVars, flagVars, passVars, runnerVars, brokerVars,
                   crashes, ghostVars>>

(* run_once                                                                *)

(* Mutation: a kill found at the top of the loop is taken for handled. *)
FindKilledHandled ==
    /\ At(Runner, "start")
    /\ KillEngaged
    /\ ~killedHandled
    /\ killedHandled' = TRUE
    /\ UNCHANGED <<killVars, flagVars, pc, passVars, auto, flattenedByBreaker,
                   brokerVars, crashes, ghostVars>>

FindKilled ==
    /\ At(Runner, "start")
    /\ KillEngaged
    /\ ~killedHandled
    /\ Goto(Runner, "engage")
    /\ UNCHANGED <<killVars, flagVars, passVars, runnerVars, brokerVars,
                   crashes, ghostVars>>

(* KillSwitch.engage, state part: the halt comes before the flatten.       *)
RunnerEngages ==
    /\ pc[Runner] \in {"engage", "autoEngage"}
    /\ Goto(Runner, "cancel")
    /\ auto' = At(Runner, "autoEngage")
    /\ EngageKillSwitch
    /\ UNCHANGED <<passVars, killedHandled, flattenedByBreaker, brokerVars,
                   crashes>>

(* The kill check passes: the iteration goes on.                           *)
StartIteration ==
    /\ At(Runner, "start")
    /\ ~KillEngaged
    /\ killedHandled' = FALSE
    /\ Goto(Runner, "sync")
    /\ UNCHANGED <<killVars, flagVars, passVars, auto, flattenedByBreaker,
                   brokerVars, crashes, ghostVars>>

(* Snapshot, broker sync and fills: raise into the except clause that ends *)
(* the iteration, or leave the expiry guard the contracts expiring today,  *)
(* past the cutoff, among the positions just read.                         *)
Sync ==
    /\ At(Runner, "sync")
    /\ \/ /\ Goto(Runner, "start")
          /\ UNCHANGED guardLeft
       \/ /\ Goto(Runner, "guard")
          /\ guardLeft' \in 0..MaxExpiring
          /\ guardLeft' <= held + closing
    /\ UNCHANGED <<killVars, flagVars, stratsLeft, signalsLeft, sawKill,
                   runnerVars, brokerVars, crashes, ghostVars>>

(* _close_expiring_options: one order a contract, with no look at the kill *)
(* switch nor at what became of the position.  The broker accepts it, and  *)
(* the call returns or times out, which ends the iteration.                *)
GuardSubmits ==
    /\ At(Runner, "guard")
    /\ guardLeft > 0
    /\ Exposure < MaxExposure
    /\ guardLeft' = guardLeft - 1
    /\ working' = working + 1
    /\ guardAfterKill' = guardAfterKill + IF KillEngaged THEN 1 ELSE 0
    /\ \E next \in {"guard", "start"} : Goto(Runner, next)
    /\ UNCHANGED <<killVars, flagVars, stratsLeft, signalsLeft, sawKill,
                   runnerVars, held, closing, crashes, sweep, afterKill>>

(* The contract was sent before today, the broker refuses, or the call     *)
(* raises what is no BrokerError.                                          *)
GuardRefused ==
    /\ At(Runner, "guard")
    /\ guardLeft > 0
    /\ guardLeft' = guardLeft - 1
    /\ \E next \in {"guard", "start"} : Goto(Runner, next)
    /\ UNCHANGED <<killVars, flagVars, stratsLeft, signalsLeft, sawKill,
                   runnerVars, brokerVars, crashes, ghostVars>>

GuardDone ==
    /\ At(Runner, "guard")
    /\ guardLeft = 0
    /\ Goto(Runner, "breakers")
    /\ UNCHANGED <<killVars, flagVars, passVars, runnerVars, brokerVars,
                   crashes, ghostVars>>

(* Some breaker trips.  Only a fatal one engages the kill switch, and only *)
(* once until the breakers have been clear again.                          *)
BreakersTrip(fatal) ==
    /\ At(Runner, "breakers")
    /\ SetHalted(TRUE)
    /\ Goto(Runner, IF fatal /\ ~flattenedByBreaker THEN "autoEngage"
                                                    ELSE "start")
    /\ UNCHANGED <<killVars, passVars, runnerVars, brokerVars, crashes,
                   ghostVars>>

(* Mutation: recovery releases the kill switch too. *)
BreakersClearReleases ==
    /\ At(Runner, "breakers")
    /\ ReleaseKillSwitch
    /\ Goto(Runner, "start")
    /\ UNCHANGED <<passVars, runnerVars, brokerVars, crashes>>

(* No breaker trips: the halt is cleared; the pass may be throttled.       *)
BreakersClear ==
    /\ At(Runner, "breakers")
    /\ SetHalted(FALSE)
    /\ flattenedByBreaker' = FALSE
    /\ \/ /\ Goto(Runner, "strategy")
          /\ stratsLeft' = NStrategies
          /\ signalsLeft' = 0
          /\ sawKill' = FALSE
          /\ UNCHANGED guardLeft
       \/ /\ Goto(Runner, "start")
          /\ UNCHANGED passVars
    /\ UNCHANGED <<killVars, auto, killedHandled, brokerVars, crashes,
                   ghostVars>>

(* Mutation: one strategy too many is started. *)
OneStrategyMore ==
    /\ At(Runner, "strategy")
    /\ Goto(Runner, "generate")
    /\ stratsLeft' = stratsLeft - 1
    /\ UNCHANGED <<killVars, flagVars, guardLeft, signalsLeft, sawKill,
                   runnerVars, brokerVars, crashes, ghostVars>>

(* Top of the strategy loop: the kill switch is read again.                *)
NextStrategy ==
    /\ At(Runner, "strategy")
    /\ stratsLeft > 0
    /\ IF KillEngaged
       THEN /\ Goto(Runner, "killedMid")
            /\ UNCHANGED stratsLeft
       ELSE /\ Goto(Runner, "generate")
            /\ stratsLeft' = stratsLeft - 1
    /\ UNCHANGED <<killVars, flagVars, guardLeft, signalsLeft, sawKill,
                   runnerVars, brokerVars, crashes, ghostVars>>

(* generate_signals takes as long as its LLM calls; one that raises        *)
(* yields nothing.                                                         *)
GenerateSignals ==
    /\ At(Runner, "generate")
    /\ signalsLeft' \in 0..MaxSignals
    /\ Goto(Runner, "signal")
    /\ UNCHANGED <<killVars, flagVars, guardLeft, stratsLeft, sawKill,
                   runnerVars, brokerVars, crashes, ghostVars>>

(* Mutation: the kill switch is read once per strategy only. *)
NextSignalUnchecked ==
    /\ At(Runner, "signal")
    /\ signalsLeft > 0
    /\ Goto(Runner, "submit")
    /\ signalsLeft' = signalsLeft - 1
    /\ UNCHANGED <<killVars, flagVars, guardLeft, stratsLeft, sawKill,
                   runnerVars, brokerVars, crashes, ghostVars>>

(* Top of the signal loop: the last read of the kill switch before the     *)
(* order goes out.  A kill discards this strategy's signals; the next      *)
(* strategy reads the switch again.                                        *)
NextSignal ==
    /\ At(Runner, "signal")
    /\ signalsLeft > 0
    /\ IF KillEngaged
       THEN /\ Goto(Runner, "strategy")
            /\ signalsLeft' = 0
            /\ sawKill' = TRUE
       ELSE /\ Goto(Runner, "submit")
            /\ signalsLeft' = signalsLeft - 1
            /\ UNCHANGED sawKill
    /\ UNCHANGED <<killVars, flagVars, guardLeft, stratsLeft, runnerVars,
                   brokerVars, crashes, ghostVars>>

SignalsDone ==
    /\ At(Runner, "signal")
    /\ signalsLeft = 0
    /\ Goto(Runner, "strategy")
    /\ UNCHANGED <<killVars, flagVars, passVars, runnerVars, brokerVars,
                   crashes, ghostVars>>

(* The broker accepts the order.  The call returns, or times out after     *)
(* the order got through: that exception ends the iteration.               *)
SubmitAccepted ==
    /\ At(Runner, "submit")
    /\ Exposure < MaxExposure
    /\ working' = working + 1
    /\ afterKill' = afterKill + IF KillEngaged THEN 1 ELSE 0
    /\ \E next \in {"signal", "start"} : Goto(Runner, next)
    /\ UNCHANGED <<killVars, flagVars, passVars, runnerVars, held, closing,
                   crashes, sweep, guardAfterKill>>

(* No order comes of the signal: no delta, refused by the risk gate or by  *)
(* the broker, or an exception that ends the iteration.                    *)
SubmitRefused ==
    /\ At(Runner, "submit")
    /\ \E next \in {"signal", "start"} : Goto(Runner, next)
    /\ UNCHANGED <<killVars, flagVars, passVars, runnerVars, brokerVars,
                   crashes, ghostVars>>

(* Every strategy has run: second ingest, publish, end of iteration,        *)
(* unless some strategy met a kill.                                        *)
PassDone ==
    /\ At(Runner, "strategy")
    /\ stratsLeft = 0
    /\ Goto(Runner, IF sawKill THEN "killedMid" ELSE "start")
    /\ UNCHANGED <<killVars, flagVars, passVars, runnerVars, brokerVars,
                   crashes, ghostVars>>

(* A kill seen inside the pass: the rest of it is discarded.               *)
KilledMidPass ==
    /\ At(Runner, "killedMid")
    /\ killedHandled' = TRUE
    /\ Goto(Runner, "start")
    /\ UNCHANGED <<killVars, flagVars, passVars, auto, flattenedByBreaker,
                   brokerVars, crashes, ghostVars>>

-----------------------------------------------------------------------------
(* Dashboard threads and the operator's terminal                           *)

(* Mutation: the endpoint sets the state and leaves the flatten to others. *)
ClientEngagesOnly(c) ==
    /\ At(c, "idle")
    /\ EngageKillSwitch
    /\ UNCHANGED <<pc, passVars, runnerVars, brokerVars, crashes>>

ClientEngages(c) ==
    /\ At(c, "idle")
    /\ Goto(c, "cancel")
    /\ EngageKillSwitch
    /\ UNCHANGED <<passVars, runnerVars, brokerVars, crashes>>

ClientReleases(c) ==
    /\ At(c, "idle")
    /\ ReleaseKillSwitch
    /\ UNCHANGED <<pc, passVars, runnerVars, brokerVars, crashes>>

TouchKillFile ==
    /\ TerminalTouch
    /\ killFile' = TRUE
    /\ TrackEngagement
    /\ UNCHANGED <<killFlag, flagVars, pc, passVars, runnerVars, brokerVars,
                   crashes>>

(* SQLite raises inside engage_kill_switch, after the file was written or  *)
(* when everything is set and the event is logged: the caller never        *)
(* reaches its flatten.                                                    *)
EngageRaises(t) ==
    /\ DbFaults
    /\ pc[t] \in {"idle", "engage", "autoEngage"}
    /\ \/ /\ killFile' = TRUE
          /\ TrackEngagement
          /\ UNCHANGED <<killFlag, flagVars>>
       \/ EngageKillSwitch
    /\ Goto(t, CASE At(t, "idle")       -> "idle"
                 [] At(t, "engage")     -> "boot"
                 [] At(t, "autoEngage") -> "start")
    /\ UNCHANGED <<passVars, runnerVars, brokerVars, crashes>>

(* SQLite raises inside release_kill_switch, after the file was removed.   *)
ReleaseRaises(c) ==
    /\ DbFaults
    /\ At(c, "idle")
    /\ killFile' = FALSE
    /\ UNCHANGED killFlag
    /\ TrackEngagement
    /\ UNCHANGED <<flagVars, pc, passVars, runnerVars, brokerVars, crashes>>

-----------------------------------------------------------------------------
(* The broker                                                              *)

(* A working order fills: it opens a position, or closes one.  One that    *)
(* closes a position being liquidated leaves the liquidation working, an   *)
(* order like any other.                                                   *)
BrokerFills ==
    /\ working > 0
    /\ \/ working' = working - 1 /\ held' = held + 1 /\ UNCHANGED closing
       \/ held > 0 /\ working' = working - 1 /\ held' = held - 1
                   /\ UNCHANGED closing
       \/ closing > 0 /\ closing' = closing - 1 /\ UNCHANGED <<working, held>>
    /\ UNCHANGED <<killVars, flagVars, pc, passVars, runnerVars, crashes,
                   ghostVars>>

BrokerLiquidated ==
    /\ closing > 0
    /\ closing' = closing - 1
    /\ UNCHANGED <<killVars, flagVars, pc, passVars, runnerVars, working, held,
                   crashes, ghostVars>>

(* An order expires or is refused after all; a liquidation leaves its      *)
(* position behind, and the flatten has failed in that.                    *)
BrokerDrops ==
    /\ \/ working > 0 /\ working' = working - 1 /\ UNCHANGED <<held, closing>>
                      /\ UNCHANGED sweep
       \/ closing > 0 /\ closing' = closing - 1 /\ held' = held + 1
                      /\ UNCHANGED working
                      /\ sweep' = IF sweep = "done" THEN "failed" ELSE sweep
    /\ UNCHANGED <<killVars, flagVars, pc, passVars, runnerVars, crashes,
                   lateVars>>

(* The process dies and is started again.  Memory is lost; the file and    *)
(* the database stay, also when a client was between the two: an engage    *)
(* writes the file first, a release removes it first.                      *)
Crash ==
    /\ crashes < MaxCrashes
    /\ crashes' = crashes + 1
    /\ killFile' \in {killFile} \cup
                     (IF \E c \in Clients : At(c, "idle")
                      THEN BOOLEAN ELSE {})
    /\ UNCHANGED killFlag
    /\ TrackEngagement
    /\ mode' = "starting"
    /\ halted' = FALSE
    /\ pc' = [t \in Threads |-> IF t = Runner THEN "boot" ELSE "idle"]
    /\ guardLeft' = 0
    /\ stratsLeft' = 0
    /\ signalsLeft' = 0
    /\ sawKill' = FALSE
    /\ auto' = FALSE
    /\ killedHandled' = FALSE
    /\ flattenedByBreaker' = FALSE
    /\ UNCHANGED brokerVars

-----------------------------------------------------------------------------
Flatten(t) == CancelOrders(t) \/ CloseAll(t) \/ FlattenFails(t)

RunOnce ==
    \/ FindKilled \/ RunnerEngages \/ StartIteration \/ Sync
    \/ GuardSubmits \/ GuardRefused \/ GuardDone
    \/ \E fatal \in BOOLEAN : BreakersTrip(fatal)
    \/ BreakersClear \/ NextStrategy \/ GenerateSignals \/ NextSignal
    \/ SignalsDone \/ SubmitAccepted \/ SubmitRefused \/ PassDone
    \/ KilledMidPass

RunnerStep == EnterLoop \/ RunOnce \/ Flatten(Runner)

Next ==
    \/ RunnerStep
    \/ StateCallRaises
    \/ \E c \in Clients : ClientEngages(c) \/ ClientReleases(c) \/ Flatten(c)
    \/ \E t \in Threads : EngageRaises(t) \/ FlattenRaises(t)
    \/ \E c \in Clients : ReleaseRaises(c)
    \/ TouchKillFile
    \/ BrokerFills \/ BrokerLiquidated \/ BrokerDrops
    \/ Crash

Spec == Init /\ [][Next]_vars

(* The loop thread is never blocked for ever (every broker call has a      *)
(* timeout), and a request thread that has engaged goes on to flatten.     *)
Fairness ==
    /\ WF_vars(RunnerStep)
    /\ \A c \in Clients : WF_vars(Flatten(c))

FairSpec == Spec /\ Fairness

-----------------------------------------------------------------------------
(* Properties                                                              *)

FlagsOK ==
    /\ killFile \in BOOLEAN /\ killFlag \in BOOLEAN /\ halted \in BOOLEAN
    /\ auto \in BOOLEAN /\ killedHandled \in BOOLEAN
    /\ flattenedByBreaker \in BOOLEAN /\ sawKill \in BOOLEAN

LabelsOK ==
    /\ mode \in {"starting", "live", "halted", "killed"}
    /\ sweep \in {"none", "failed", "done"}

StepsOK ==
    /\ pc \in [Threads -> RunnerSteps \cup ClientSteps]
    /\ pc[Runner] \in RunnerSteps
    /\ \A c \in Clients : pc[c] \in ClientSteps

CountsOK ==
    /\ guardLeft \in 0..MaxExpiring
    /\ stratsLeft \in 0..NStrategies
    /\ signalsLeft \in 0..MaxSignals
    /\ working \in Nat /\ held \in Nat /\ closing \in Nat
    /\ Exposure <= MaxExposure
    /\ crashes \in 0..MaxCrashes
    /\ afterKill \in Nat /\ guardAfterKill \in Nat

(* Every variable keeps its type; the broker's counts respect the bound.   *)
TypeOK == FlagsOK /\ LabelsOK /\ StepsOK /\ CountsOK

(* The loop reads the kill switch before every signal, but submits later,  *)
(* and the expiry guard does not read it at all.  What still goes out over *)
(* a whole engagement, through crashes, re-entries of the loop and SQLite  *)
(* errors, is the strategy order that was in hand when the switch engaged, *)
(* or the guard's orders of the one iteration it engaged in, never both.   *)
LateOrdersBounded ==
    KillEngaged => \/ afterKill <= 1 /\ guardAfterKill = 0
                   \/ afterKill = 0 /\ guardAfterKill <= MaxExpiring

Late == afterKill + guardAfterKill

MaxLate == IF MaxExpiring > 1 THEN MaxExpiring ELSE 1

(* While the last flatten of an engagement stands (it went through, no     *)
(* other thread has begun to cancel orders since, and the broker drops     *)
(* none of its liquidations), nothing is working or held that is not being *)
(* liquidated, but for what slipped out after the kill: an order of before *)
(* the kill that fills late is no way round it.                            *)
FlattenIsFinal == KillEngaged /\ sweep = "done" => working + held <= Late

(* No engagement is forgotten: once the loop counts a kill as handled, a   *)
(* flatten has been tried for it or some thread is inside one, although    *)
(* the loop takes a kill it finds in mid-pass for handled without          *)
(* flattening.                                                             *)
KillNeverForgotten ==
    KillEngaged /\ killedHandled /\ sweep = "none"
        => \E t \in Threads : pc[t] \in {"cancel", "close"}

(* The dashboard shows "killed" while the switch is engaged, except until  *)
(* the loop of a restarted process has found the switch: breakers that     *)
(* trip or clear at the same time do not overwrite it.                     *)
DashboardShowsKill ==
    KillEngaged =>
        \/ mode = "killed"
        \/ ~killedHandled /\ pc[Runner] \in {"boot", "start", "engage"}

(* No step of the trading loop releases the kill switch: recovery of the   *)
(* breakers clears a halt, never a kill.                                   *)
NeverAutoReleases ==
    [][KillEngaged /\ ~KillEngaged' => pc'[Runner] = pc[Runner]
                                        \/ crashes' # crashes]_vars

(* Every kill is followed by a flatten, unless it is released first.       *)
KillIsSwept == KillEngaged ~> (sweep # "none" \/ ~KillEngaged)

-----------------------------------------------------------------------------
(* What the loop, the switch and the dashboard make of the promise.        *)
Promise == INSTANCE KillPromise WITH
               engaged <- KillEngaged,
               loose   <- working + held,
               closing <- closing,
               sweep   <- sweep,
               late    <- Late

(* The platform implements the promise of the kill switch: while it is     *)
(* engaged, however threads, crashes and faults interleave, the account    *)
(* grows by the few late orders at most and otherwise only shrinks, and a  *)
(* flatten that goes through leaves nothing that is not being liquidated.  *)
KeepsPromise == Promise!Spec
=============================================================================
