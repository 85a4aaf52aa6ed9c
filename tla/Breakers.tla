------------------------------ MODULE Breakers ------------------------------
(***************************************************************************)
(* What halts the live loop by itself, over hours, days and restarts: the  *)
(* circuit breakers (risk/circuit_breakers.py) with the day's anchor, the  *)
(* peak and the error counters that live/runner.py keeps for them, and the *)
(* budgets of the LLM sleeve (strategies/llm_agents/cost_guard.py).        *)
(*                                                                         *)
(* Time is kept as ages: what happened n ticks ago is counted at n, and    *)
(* what is older than an hour is forgotten, as check_all forgets it.  The  *)
(* clock ticks at any moment, in the middle of a pass too.  The account is *)
(* valued by the broker and by the snapshot alike, an order fills whole    *)
(* within its call, and the fills of a flatten, which could only trip      *)
(* trade_frequency sooner, are left out.  Kills by people are the matter   *)
(* of RunLoop, what reconciliation compares that of FillBook.              *)
(***************************************************************************)
EXTENDS Integers, FiniteSetsExt

CONSTANTS
    Setups,            \* circumstances to consider (see SetupType)
    Levels,            \* values the account may take
    StartingCash,      \* settings.starting_cash
    DailyLossPct,      \* daily_loss_halt_pct, in percent
    DrawdownPct,       \* max_drawdown_halt_pct, in percent
    MaxTradesPerHour, MaxErrors,
    DayBudget, RunBudget,   \* daily_budget_usd, per_run_budget_usd
    MaxCallCost,       \* most an API call costs
    HourTicks, DayTicks,    \* ticks of an hour and of a day
    MaxSignals,        \* most signals and LLM runs of a pass (bound)
    MaxCrashes         \* most process restarts               (bound)

(* orders: the sleeves trade.  moves: the account changes value.           *)
(* llm: the LLM sleeve runs.  faults: get_fills may fail.                  *)
SetupType == [orders: BOOLEAN, moves: BOOLEAN, llm: BOOLEAN, faults: BOOLEAN]

ASSUME BreakersAssumption ==
    /\ Setups \subseteq SetupType
    /\ Levels \subseteq Nat \ {0}
    /\ {StartingCash, DailyLossPct, DrawdownPct, MaxErrors, DayBudget,
        RunBudget, MaxCallCost, HourTicks, DayTicks} \subseteq Nat \ {0}
    /\ {MaxTradesPerHour, MaxSignals, MaxCrashes} \subseteq Nat

VARIABLES
    setup,        \* the circumstances, fixed
    pc,           \* where the loop is
    left,         \* signals the strategies may still give in this pass
    dayTick,      \* time of the day
    dayKnown,     \* _current_day is today
    equity,       \* what the account was worth at the last sync
    anchor,       \* day_anchor_equity, 0 for None
    peak,         \* peak_equity
    seeded,       \* _local_seeded
    seenEquity,   \* what the syncs of this process have found  (history)
    unseen,       \* fills not ingested yet, by age
    trades,       \* _trade_times, by age
    refused,      \* _bounds_violations, by age
    sent,         \* orders sent, by age                        (history)
    errors, transient,   \* _consecutive_errors, _consecutive_transient
    halted,       \* PlatformState.halted
    killed,       \* the kill switch is engaged                 (durable)
    flattened,    \* _flattened_by_breaker
    llmToday,     \* PlatformState.llm_spend_today
    llmRun,       \* CostGuard.run_spend
    ran,          \* the LLM sleeve has had its run of this pass
    billed,       \* cost of the calls answered since midnight  (history)
    crashes

dayVars   == <<dayTick, dayKnown, billed>>
moneyVars == <<equity, anchor, peak, seeded, seenEquity>>
tradeVars == <<unseen, trades, refused, sent>>
errorVars == <<errors, transient>>
haltVars  == <<halted, killed, flattened>>
llmVars   == <<llmToday, llmRun, ran>>
vars == <<setup, pc, left, dayVars, moneyVars, tradeVars, errorVars, haltVars,
          llmVars, crashes>>

Ages == 0..HourTicks
None == [a \in Ages |-> 0]

(* One more that happened now; what all counts for; both counts together.  *)
AddNow(counts)    == [counts EXCEPT ![0] = @ + 1]
Recent(counts)    == SumFunctionOnSet(counts, Ages)
Merge(f, g)       == [a \in Ages |-> f[a] + g[a]]
Older(counts)     == [a \in Ages |-> IF a = 0 THEN 0 ELSE counts[a - 1]]

AtMost(n, bound) == IF n < bound THEN n ELSE bound

(* The value v is a fatal loss from an earlier one.                        *)
DailyLoss(from, v) == 100 * (v - from) <= -DailyLossPct * from
Drawdown(from, v)  == 100 * (from - v) >= DrawdownPct * from

Init ==
    /\ setup \in Setups
    /\ pc = "idle" /\ left = 0
    /\ dayTick = 0 /\ dayKnown = FALSE /\ billed = 0
    /\ equity = StartingCash /\ anchor = 0 /\ peak = StartingCash
    /\ seeded = FALSE /\ seenEquity = {}
    /\ unseen = None /\ trades = None /\ refused = None /\ sent = None
    /\ errors = 0 /\ transient = 0
    /\ halted = FALSE /\ killed = FALSE /\ flattened = FALSE
    /\ llmToday = 0 /\ llmRun = 0 /\ ran = FALSE
    /\ crashes = 0

-----------------------------------------------------------------------------
(* record_error and record_success; counters stop where both breakers have *)
(* tripped already.                                                        *)
RecordError ==
    /\ errors' = AtMost(errors + 1, MaxErrors)
    /\ UNCHANGED transient

RecordTransient ==
    /\ transient' = AtMost(transient + 1, 3 * MaxErrors)
    /\ UNCHANGED errors

(* Mutation: a successful iteration clears the whole board. *)
RecordSuccessClearsAll ==
    /\ errors' = 0 /\ transient' = 0
    /\ trades' = None
    /\ UNCHANGED <<unseen, refused, sent>>

(* The counters of errors in a row start anew, and nothing else.           *)
RecordSuccess ==
    /\ errors' = 0 /\ transient' = 0
    /\ UNCHANGED tradeVars

-----------------------------------------------------------------------------
(* run_once, steps 0 to 3 *)

(* Mutation: a new day does not take a new anchor. *)
StartKeepsAnchor ==
    /\ pc = "idle" /\ ~killed
    /\ pc' = "sync"
    /\ dayKnown' = TRUE
    /\ IF dayKnown THEN UNCHANGED llmToday ELSE llmToday' = 0
    /\ UNCHANGED <<setup, left, dayTick, billed, moneyVars, tradeVars,
                   errorVars, haltVars, llmRun, ran, crashes>>

(* An iteration starts where no kill is engaged.  The first one of a day   *)
(* resets the LLM spend and drops the anchor.                              *)
StartIteration ==
    /\ pc = "idle" /\ ~killed
    /\ pc' = "sync"
    /\ dayKnown' = TRUE
    /\ IF dayKnown THEN UNCHANGED <<llmToday, anchor>>
                   ELSE llmToday' = 0 /\ anchor' = 0
    /\ UNCHANGED <<setup, left, dayTick, billed, equity, peak, seeded,
                   seenEquity, tradeVars, errorVars, haltVars, llmRun, ran,
                   crashes>>

(* The provider or the broker raises: the iteration is over before any     *)
(* breaker is judged.                                                      *)
SyncRaises ==
    /\ pc = "sync"
    /\ pc' = "idle"
    /\ RecordError \/ RecordTransient
    /\ UNCHANGED <<setup, left, dayVars, moneyVars, tradeVars, haltVars,
                   llmVars, crashes>>

(* The seeding get_fills times out, which is no BrokerError: the book      *)
(* counts as seeded, and the portfolio stays the one of the configuration. *)
SeedTimesOut ==
    /\ setup.faults
    /\ pc = "sync" /\ ~seeded
    /\ pc' = "idle"
    /\ seeded' = TRUE
    /\ RecordTransient
    /\ UNCHANGED <<setup, left, dayVars, equity, anchor, peak, seenEquity,
                   tradeVars, haltVars, llmVars, crashes>>

(* Mutation: the first sync keeps the configured cash as a peak. *)
AnchorsOfConfig(e) ==
    /\ peak' = IF e > peak THEN e ELSE peak
    /\ anchor' = IF anchor = 0 THEN e ELSE anchor

(* Mutation: the peak is taken anew with every day's anchor. *)
AnchorsDaily(e) ==
    /\ peak' = IF seeded /\ anchor # 0 /\ peak > e THEN peak ELSE e
    /\ anchor' = IF anchor = 0 THEN e ELSE anchor

(* Mutation: the day's anchor is never set. *)
AnchorsPeakOnly(e) ==
    /\ peak' = IF seeded /\ peak > e THEN peak ELSE e
    /\ UNCHANGED anchor

(* The peak starts at what the account is worth at the first sync of the   *)
(* process; the anchor is what the first sync of the day finds.            *)
Anchors(e) ==
    /\ peak' = IF seeded /\ peak > e THEN peak ELSE e
    /\ anchor' = IF anchor = 0 THEN e ELSE anchor

(* The first sync of a process marks the fills of the past as seen; every  *)
(* sync ingests what is left.  A BrokerError of either get_fills is        *)
(* recorded and passed over.                                               *)
SyncFills ==
    \E seedFails, pollFails \in (IF setup.faults THEN BOOLEAN ELSE {FALSE}) :
        LET new      == IF seeded \/ seedFails THEN unseen ELSE None
            failures == (IF seedFails THEN 1 ELSE 0)
                            + (IF pollFails THEN 1 ELSE 0)
        IN  /\ seedFails => ~seeded
            /\ unseen' = IF pollFails THEN new ELSE None
            /\ trades' = IF pollFails THEN trades ELSE Merge(trades, new)
            /\ errors' = AtMost(errors + failures, MaxErrors)
            /\ UNCHANGED <<transient, refused, sent>>

Sync(e) ==
    /\ pc = "sync"
    /\ setup.moves \/ e = StartingCash
    /\ pc' = "check"
    /\ equity' = e
    /\ Anchors(e)
    /\ seeded' = TRUE
    /\ seenEquity' = seenEquity \cup {e}
    /\ SyncFills
    /\ UNCHANGED <<setup, left, dayVars, haltVars, llmVars, crashes>>

Fatal == DailyLoss(anchor, equity) \/ Drawdown(peak, equity)

(* Breakers judged by what the loop itself has recorded.                   *)
Trips ==
    \/ Fatal
    \/ Recent(trades) > MaxTradesPerHour
    \/ errors >= MaxErrors \/ transient >= 3 * MaxErrors
    \/ Recent(refused) >= 3

(* A breaker trips, one of those, data_staleness or reconciliation: no     *)
(* orders, and a fatal loss engages the kill switch once.                  *)
CheckTrips(other) ==
    /\ pc = "check"
    /\ Trips \/ other
    /\ pc' = "idle"
    /\ halted' = TRUE
    /\ killed' = (Fatal /\ ~flattened)
    /\ flattened' = (flattened \/ Fatal)
    /\ RecordSuccess
    /\ UNCHANGED <<setup, left, dayVars, moneyVars, llmVars, crashes>>

(* Nothing trips: the halt is over.  The pass runs unless throttled.       *)
CheckClears ==
    /\ pc = "check" /\ ~Trips
    /\ halted' = FALSE /\ flattened' = FALSE
    /\ \/ pc' = "pass" /\ left' = MaxSignals /\ ran' = FALSE
          /\ UNCHANGED <<errorVars, tradeVars>>
       \/ pc' = "idle" /\ UNCHANGED <<left, ran>> /\ RecordSuccess
    /\ UNCHANGED <<setup, dayVars, moneyVars, killed, llmToday, llmRun, crashes>>

-----------------------------------------------------------------------------
(* The strategy pass *)

TakeSignal ==
    /\ pc = "pass" /\ left > 0
    /\ left' = left - 1

SendOrder ==
    /\ TakeSignal
    /\ setup.orders
    /\ sent' = AddNow(sent)
    /\ unseen' = AddNow(unseen)
    /\ UNCHANGED <<setup, pc, dayVars, moneyVars, trades, refused, errorVars,
                   haltVars, llmVars, crashes>>

(* The risk gate refuses an order for its size.                            *)
RefuseOrder ==
    /\ TakeSignal
    /\ setup.orders
    /\ refused' = AddNow(refused)
    /\ UNCHANGED <<setup, pc, dayVars, moneyVars, unseen, trades, sent,
                   errorVars, haltVars, llmVars, crashes>>

(* A strategy, or the broker with a BrokerError, raises: the pass goes on. *)
StrategyRaises ==
    /\ TakeSignal
    /\ RecordError
    /\ UNCHANGED <<setup, pc, dayVars, moneyVars, tradeVars, haltVars, llmVars,
                   crashes>>

(* The LLM sleeve, one strategy of the loop's list: its generate_signals   *)
(* opens the one run of the pass.                                          *)
StartRun ==
    /\ TakeSignal
    /\ setup.llm /\ ~ran
    /\ pc' = "llm"
    /\ llmRun' = 0 /\ ran' = TRUE
    /\ UNCHANGED <<setup, dayVars, moneyVars, tradeVars, errorVars, haltVars,
                   llmToday, crashes>>

(* Mutation: the run's own budget is not checked. *)
WithinDayBudget == llmToday < DayBudget

(* CostGuard.check: neither budget is used up yet.                         *)
WithinBudgets == llmToday < DayBudget /\ llmRun < RunBudget

(* CostGuard.record: what a call costs is known when it has answered.      *)
Spend(cost) ==
    /\ llmToday' = llmToday + cost
    /\ llmRun' = llmRun + cost
    /\ billed' = billed + cost
    /\ UNCHANGED ran

Call(cost) ==
    /\ pc = "llm"
    /\ WithinBudgets
    /\ Spend(cost)
    /\ UNCHANGED <<setup, pc, left, dayTick, dayKnown, moneyVars, tradeVars,
                   errorVars, haltVars, crashes>>

(* The budget stops the run, or every symbol has been treated.             *)
RunEnds ==
    /\ pc = "llm"
    /\ pc' = "pass"
    /\ UNCHANGED <<setup, left, dayVars, moneyVars, tradeVars, errorVars,
                   haltVars, llmVars, crashes>>

(* submit_order or the allocator raises: the iteration is over, with fills *)
(* that have not been ingested.                                            *)
PassRaises ==
    /\ pc = "pass"
    /\ pc' = "idle" /\ left' = 0
    /\ RecordError \/ RecordTransient
    /\ UNCHANGED <<setup, dayVars, moneyVars, tradeVars, haltVars, llmVars,
                   crashes>>

(* The fills are ingested (or get_fills fails), and the iteration counts   *)
(* as a success, whatever was recorded in it.                              *)
PassEnds ==
    /\ pc = "pass"
    /\ pc' = "idle" /\ left' = 0
    /\ errors' = 0 /\ transient' = 0
    /\ \/ trades' = Merge(trades, unseen) /\ unseen' = None
       \/ setup.faults /\ UNCHANGED <<trades, unseen>>
    /\ UNCHANGED <<setup, dayVars, moneyVars, refused, sent, haltVars, llmVars,
                   crashes>>

-----------------------------------------------------------------------------
(* The rest of the world *)

Tick ==
    /\ dayTick' = (dayTick + 1) % DayTicks
    /\ IF dayTick' = 0 THEN dayKnown' = FALSE /\ billed' = 0
                       ELSE UNCHANGED <<dayKnown, billed>>
    /\ unseen' = Older(unseen) /\ trades' = Older(trades)
    /\ refused' = Older(refused) /\ sent' = Older(sent)
    /\ UNCHANGED <<setup, pc, left, moneyVars, errorVars, haltVars, llmVars,
                   crashes>>

(* A person releases the kill switch.                                      *)
Release ==
    /\ killed
    /\ killed' = FALSE /\ halted' = FALSE
    /\ UNCHANGED <<setup, pc, left, dayVars, moneyVars, tradeVars, errorVars,
                   flattened, llmVars, crashes>>

(* The process dies and starts again: all but the switch, the account with *)
(* its fills and the API's bill is forgotten.                              *)
Restart ==
    /\ crashes < MaxCrashes
    /\ crashes' = crashes + 1
    /\ pc' = "idle" /\ left' = 0
    /\ dayKnown' = FALSE
    /\ anchor' = 0 /\ peak' = StartingCash /\ seeded' = FALSE
    /\ seenEquity' = {}
    /\ unseen' = Merge(trades, unseen) /\ trades' = None /\ refused' = None
    /\ errors' = 0 /\ transient' = 0
    /\ halted' = FALSE /\ flattened' = FALSE
    /\ llmToday' = 0 /\ llmRun' = 0 /\ ran' = FALSE
    /\ UNCHANGED <<setup, dayTick, billed, equity, sent, killed>>

LoopStep ==
    \/ StartIteration \/ SyncRaises \/ SeedTimesOut
    \/ \E e \in Levels : Sync(e)
    \/ \E other \in BOOLEAN : CheckTrips(other)
    \/ CheckClears
    \/ SendOrder \/ RefuseOrder \/ StrategyRaises
    \/ StartRun \/ (\E cost \in 1..MaxCallCost : Call(cost)) \/ RunEnds
    \/ PassRaises \/ PassEnds

Next == LoopStep \/ Tick \/ Release \/ Restart

Spec == Init /\ [][Next]_vars

(* The loop and the clock go on; provider and broker do not fail for ever, *)
(* and the data are not stale or at odds with the account for ever.        *)
Fairness ==
    /\ WF_vars(LoopStep)
    /\ WF_vars(Tick)
    /\ SF_vars(\E e \in Levels : Sync(e))
    /\ SF_vars(CheckClears)

FairSpec == Spec /\ Fairness

-----------------------------------------------------------------------------
(* Properties                                                              *)

(* Every variable keeps its type; breakers are judged and passes run with  *)
(* an anchor and a peak that have been set.                                *)
TypeOK ==
    /\ setup \in Setups
    /\ pc \in {"idle", "sync", "check", "pass", "llm"}
    /\ left \in 0..MaxSignals
    /\ dayTick \in 0..(DayTicks - 1)
    /\ {dayKnown, seeded, halted, killed, flattened, ran} \subseteq BOOLEAN
    /\ equity \in Levels \cup {StartingCash}
    /\ anchor \in Levels \cup {0}
    /\ peak \in Levels \cup {StartingCash}
    /\ seenEquity \subseteq Levels
    /\ {unseen, trades, refused, sent} \subseteq [Ages -> Nat]
    /\ errors \in 0..MaxErrors /\ transient \in 0..(3 * MaxErrors)
    /\ {llmToday, llmRun, billed} \subseteq Nat
    /\ crashes \in 0..MaxCrashes
    /\ pc \in {"check", "pass", "llm"} =>
           seeded /\ anchor # 0 /\ peak >= equity /\ equity \in seenEquity

(* No pass runs while the account is down by the halt limit from anything  *)
(* this process has seen it worth, on whatever day that was.               *)
NoPassInDrawdown ==
    pc \in {"pass", "llm"} => \A e \in seenEquity : ~Drawdown(e, equity)

(* The breakers flatten the account only for a loss this process has seen  *)
(* happen: "config starting_cash is not the account's real equity"         *)
(* (runner.py 126).                                                        *)
KillIsEarned ==
    [][killed' /\ ~killed =>
           \E e \in seenEquity : \/ DailyLoss(e, equity)
                                 \/ Drawdown(e, equity)]_vars

(* The same where get_fills answers.                                       *)
CalmKillIsEarned ==
    [][~setup.faults /\ killed' /\ ~killed =>
           \E e \in seenEquity : \/ DailyLoss(e, equity)
                                 \/ Drawdown(e, equity)]_vars

(* The hourly guards: while get_fills answers and the process lives, the   *)
(* orders of any hour exceed max_trades_per_hour by one pass at most,      *)
(* passes that break off before they ingest included; and no hour has more *)
(* refusals for size than two and those of one pass.                       *)
HourlyGuardsHold ==
    /\ ~setup.faults /\ crashes = 0 =>
           Recent(sent) <= MaxTradesPerHour + MaxSignals
    /\ Recent(refused) <= 2 + MaxSignals

(* The LLM budgets: a run exceeds its own by less than one call, on        *)
(* whichever side of midnight its calls are made; what a process has the   *)
(* API bill for within a day exceeds the day's by less than one call, the  *)
(* rest of a run begun the day before aside.                               *)
BudgetsHold ==
    /\ llmRun < RunBudget + MaxCallCost
    /\ billed < (1 + crashes) * (DayBudget + MaxCallCost)
                     + RunBudget + MaxCallCost

(* Recovery clears the halt (README.md 341): where no person is needed and *)
(* errors do not keep coming in bursts, the loop is not halted for good; a *)
(* daily loss is over with the day, a burst of trades with the hour.       *)
NeedsPerson == killed \/ Drawdown(peak, equity)
ErrorBurst  == errors >= MaxErrors \/ transient >= 3 * MaxErrors

HaltsClear == <>[](~NeedsPerson /\ ~ErrorBurst) => []<>~halted
=============================================================================
