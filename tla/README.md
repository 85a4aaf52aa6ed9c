# QuantFund in TLA+

A verification development of the paper-trading platform under `src/`
(`src/src/quantfund`, scripts in `src/scripts`). It models the parts of the
program whose correctness depends on *order*: what the trading loop, the
dashboard threads, the kill switch, the broker and a crash do to each other,
what a sequence of orders does to an account behind the risk gate, what the
sleeves' exits and entries do to their books pass after pass, and what a day of
the backtest does to its orders and marks.

Modules are checked by TLC on small instances; the ones with a `...Proofs`
module are also proved about, for every value of their constants, with TLAPS.

    tlc -workers 2 -config MCRunLoop_faults.cfg MCRunLoop
    tlapm RunLoopProofs.tla

Paths below are relative to `src/`; `runner.py` is
`src/quantfund/live/runner.py`, and so on.

## Inventory

| Part | State | Operations | Meets |
|---|---|---|---|
| Trading loop (`live/runner.py`, `scripts/run_paper.py`) | `portfolio`, `sleeves`, `_local_qty`, `_local_seeded`, `_seen_fills`, `_order_meta`, `_expiry_guard_sent`, `_killed_handled`, `_flattened_by_breaker` | `run_forever`, `run_once` (kill check, sync, ingest, expiry guard, breakers, strategy pass, second ingest), supervisor and watchdog | everything below, by calls; the dashboard threads through the shared state |
| Kill switch (`risk/kill_switch.py`) | none of its own | `engage` (state first, then flatten), `release`, `is_engaged` | state, broker; called from the loop thread and from request threads |
| Shared state (`core/state.py`) | `data/KILL_SWITCH`, SQLite (`kv`, `trades`, `events`...), `mode`, `halted`, LLM spend | each method under one lock | loop thread, request threads, a terminal |
| Dashboard API (`dashboard/app.py`) | none | `/api/kill`, `/api/release`, reads | kill switch, state |
| Broker adapters (`execution/`) | Alpaca: the account outside; `_order_meta`, `_seen_fill_keys`. SimBroker: its own portfolio and fills, in memory | `submit_order`, `get_fills`, `get_positions`, `flatten_all` | loop, kill switch |
| Risk gate (`risk/limits.py`) | limits only | `check_order` | portfolio, snapshot |
| Circuit breakers (`risk/circuit_breakers.py`) | trade times, bounds violations, consecutive errors | `record_*`, `check_all` | loop, state |
| Portfolio (`core/portfolio.py`) | cash, positions, peak, day anchor | `apply_fill`, marking, exposures | loop, engine, SimBroker |
| Backtest engine, walk-forward, metrics (`backtest/`) | sleeves, pending orders, curves | `run`, `make_windows` | portfolio, gate, allocator |
| Allocator (`allocation/allocator.py`) | none | `allocate` | loop, engine |
| Strategies (`strategies/`) | `zero_dte`: entries of the day; the others none | `generate_signals` | snapshot, their sleeve |
| LLM agents (`strategies/llm_agents/`) | spend, lesson memory | chain of calls, cost guard | state, an outside service |

What is hard here:

- *Threads.* The loop thread and the dashboard's request threads share the
  state and the broker. The lock of `PlatformState` covers one method, not
  what a caller does between two of them.
- *A broker that works on its own.* With Alpaca an order fills between any two
  calls of the loop; an answer may be lost after the order got through.
- *Restarts.* Nearly all of the loop's memory dies with the process; positions,
  trades and the kill flag do not.
- *Stale reads.* The gate, the guard and the strategies of one iteration use
  the positions read at its start (limitation 7 in the README of the program).
- *Sequences.* The gate judges one order; what matters is the account after
  many, with prices moving.

What makes each part correct:

- loop and kill switch: after a kill one strategy order slips out, or the expiry
  guard's orders of one iteration; a flatten that stands is final; no kill is
  forgotten, released by the loop or hidden from the dashboard;
- books: every fill counted once; local book, sleeves and account agree; no
  contract sold twice; one guard order per day; reconciliation clears by
  itself;
- gate: shares not short; put collateral there and not spent; calls never more
  naked by option trades; risk-reducing trades allowed - all of it as far as
  orders of one pass, judged on one reading of the account, do not undo it;
- breakers and budgets: a runaway loop stops; no pass in a drawdown; a kill
  only for a loss that happened; LLM spend within a call of its budgets; halts
  that clear by themselves;
- backtest and accounting: orders execute a day later or never, at a cost; the
  books balance; expired contracts are settled; marks are the day's;
- allocator: no more than the equity handed out, no sleeve above its cap, none
  below its floor but for what volatility takes off all of them, and none with a
  better score worse off;
- sleeves: no sleeve holds the other side of what it looks after; one contract
  a name and no more names than its limit, though closes may fail; puts secured
  by the sleeve's share; zero_dte flat at the bell;
- walk-forward: judged days are not trained on, judged once and without a gap.

## Modules

| Module | Models | Lines of code it stands for |
|---|---|---|
| `KillPromise` | abstract: what the kill switch promises | `README.md` "Safety model" |
| `RunLoop` | the loop, the kill switch, the flags shared with the dashboard, the expiry guard's orders, crashes, SQLite faults | `runner.py` 256-315 and 422-638, `kill_switch.py`, `state.py` 105-162 and 229-236, `app.py` 57-71, `alpaca_broker.py` 286-296 |
| `RunLoopProofs` | theorems about `RunLoop` | |
| `FillBook` | one option contract: account, local book, sleeves' books, expiry guard, reconciliation, restarts | `runner.py` 91-360, both adapters, `circuit_breakers.py` 130-144 |
| `RiskGate` | `check_order` in front of an account, on one underlying, pass after pass | `limits.py` 90-465, `runner.py` 91-143 and 546-587, `portfolio.py` 152-225 |
| `Breakers` | circuit breakers, day anchor and peak, error counters, LLM budgets, over hours, days and restarts | `circuit_breakers.py` 30-151, `runner.py` 91-141, 319-360, 422-630, `cost_guard.py` 37-68, `pipeline.py` 110-132 and 295-329 |
| `Backtest` | the daily loop of the backtest over one sleeve, its accounting and the cost model | `engine.py` 77-392, `portfolio.py` 117-292, `costs.py` 54-93 |
| `Sleeves` | the five rule-based strategies, as six kinds of sleeve: exits, entries, the orders made of them, restarts | `zero_dte.py`, `put_income.py`, `convexity.py`, `momentum.py`, `mean_reversion.py`, `runner.py` 156-252 and 533-587 |
| `Allocation` | from scores to what each sleeve gets | `allocator.py` 35-129 |
| `WalkForward` | walk-forward windows and the overfitting flag | `walkforward.py` 22-60 |
| `FillBookProofs`, `RiskGateProofs`, `BreakersProofs`, `SleevesProofs` | theorems about the module they are named for | |
| `BacktestProofs`, `AllocationProofs` | the same for `Backtest` with `WalkForward`, and for `Allocation` | |
| `Arithmetic` | lemmas on whole division, on sums over finite sets, and on least and greatest members | |
| `MCRunLoop`, `MCFillBook`, `MCRiskGate`, `MCBreakers`, `MCBacktest`, `MCSleeves` | instances for TLC | |

### RunLoop

`pc[Runner]` is the place of the loop thread in `run_once`; a step is what it
does between two reads or writes of shared state. `pc[c]` of a dashboard thread
is `idle` or inside `flatten_all` (`cancel`, `close`). Each method of
`PlatformState` is one step because it holds the lock; `KillSwitch.engage` is
three (state, cancel, close). `killFile` and `killFlag` are the two durable
marks of a kill, `KillEngaged` their disjunction, as in the code.

A pass counts strategies and signals down. A kill found before a strategy ends
the pass; one found before a signal only discards that strategy's signals and
is remembered in `sawKill` (`killed_mid_pass`), as the inner `break` does.

The broker is Alpaca's and works on its own. `working` counts the orders at it
that are no liquidation, `held` the positions nobody liquidates, `closing` those
whose liquidation order is working. `close_all_positions` only submits
liquidations (`CloseAll` moves what is held to `closing`); they fill later
(`BrokerLiquidated`), the broker may drop one (`BrokerDrops`), and the
`cancel_orders` with which another thread's flatten begins may cancel them
(`BrokerCancels`), so that a flatten which had gone through no longer stands.
Then `sweep` is `failed`, and it stays so unless the second flatten goes through
as well: nothing in the code looks again.

The expiry guard submits one order for every expiring contract it found in the
positions read at the start of the iteration (`Sync` sets `guardLeft`), each a
step of its own (`GuardSubmits`, `GuardRefused`), with no look at the kill switch
and none at what another thread's flatten has done in between. Its orders
therefore go out after a kill, also after a flatten, and what they sell a second
time opens new exposure: they count as `working`.

Three history variables follow one engagement, from the step that makes
`KillEngaged` true to the step that makes it false: `sweep` (how its last flatten
ended), `afterKill` and `guardAfterKill` (orders of strategies and of the guard
accepted meanwhile).

Faults: `flatten_all` may fail at any point, with any part of its work done;
`submit_order` may raise before or after the order got through; under `DbFaults`
a SQLite call may raise in the loop, in `engage`, in `release` or when the flatten
is logged; the process may crash at any point, also between the two writes of an
engage or a release. `TerminalTouch` lets an operator touch the kill file.

`KillPromise` has neither threads nor crashes: what is loose (orders, and
positions nobody liquidates), what is being closed, a switch, and while it is
engaged exposure that only shrinks but for `MaxLate` late orders, a flatten that
leaves nothing loose, and a flatten that ceases to stand. The mapping takes
`KillEngaged` for the switch, `working + held` for `loose`, and the sum of the two
counters for `late`; `MaxLate` is the larger of one and `MaxExpiring`.

What the model says of a flatten it says of one that the broker has taken on: an
`APIError` of `close_all_positions` is swallowed and reported as a success
(`alpaca_broker.py` 294-295), and counts as failed here.

### FillBook

`orders` is the broker's list of accepted orders; the account is the sum of the
filled ones. `snapQty` is what `get_positions` returned at the start of the
iteration, `localQty` is `_local_qty`, `sleeveQty` the sleeves' books, `seen`
the fills the adapter and `_seen_fills` have marked. `pc` walks through
`_sync_from_broker` (with the seeding of a new process), `_ingest_fills`, the
expiry guard, reconciliation, the strategy pass and the second ingest. Between
any two of these steps the broker may fill or drop a working order.

`Setups` says which circumstances are considered: the adapter, whether the
contract expires today, whether restarts are quiet (no order working, every
fill ingested), and whether things go wrong (a kill switch that flattens, and
with Alpaca failing polls and lost answers: SimBroker's calls stay within the
process and do not fail). Properties that hold only in calm circumstances
say so in their first line, and the hazards in `PROJECT.json` say why.

Left out: partial fills, SQLite faults inside an ingest, more than one
contract (books of different contracts do not interact in this code).

### RiskGate

`Approved(o)` is `check_order`: the set of what may go out, empty or the order
as cut down to the notional limit. Its conjuncts are the checks in the code's
order; the first two see the order as sent, the others as cut down, as in the
code. All of them look at `book` and `bookCash`, the portfolio as the pass read it
(`runner.py` 554-555), never at `pos` and `cash`, the account. `Trade` sends an
order and fills it at the mark; the next order of the pass does not see that.
`NextPass` moves a price and rebuilds the portfolio from the account, as
`_sync_from_broker` does. So a batch of any orders is judged on one reading, which
limitation 7 in `src/README.md` (321-324) admits.

What a batch can do is part of the properties. `sold` counts the orders of the
pass that sold shares: n of them may sell n times what there was
(`SharesShortByBatchOnly`), and no more is sold once a pass has found the account
short. `crossed` is set when an order that spends or writes a put follows one of
its pass that has left less cash or less collateral than the book shows:
`PutGroupsSecured` holds until then. `SpendingKeepsCollateral` compares the free
cash of book and account, `OptionTradesStayCovered` is about trades before which
the pass has sold none of the group and no shares. Without these conditions every
one of them fails in the instance. An order fills before the next pass or not at
all; orders that work longer are in `FillBook`. Money is in units of a contract's multiplier, lots of
shares are 100, so one contract is covered by one lot. The checks for missing
prices and greeks are not modelled: every instrument has a price here.

### Breakers

One iteration is `StartIteration` (with the day's rollover), `Sync`, a verdict
(`CheckTrips` or `CheckClears`) and a pass of signals; it can break off in
`SyncRaises`, `SeedTimesOut` and `PassRaises`. A `Tick` may come between any two
of these steps, so a pass can run over the hour or past midnight. The lists of
times the board keeps are counters by age: `trades[a]` is the number of entries
of `_trade_times` that are `a` ticks old, and what is older than `HourTicks` is
gone, as `check_all` drops it. `unseen` holds the fills the broker has and
`_ingest_fills` has not fetched yet; they reach the board with their own time.

`equity` is what a sync finds, any of `Levels`. `anchor` (0 for None) and `peak`
are set by `Anchors`, which is where a first sync differs from the others.
`llmToday` and `llmRun` are the two spends `CostGuard` compares with its
budgets before a call and raises after it. There is one LLM sleeve
(`run_paper.py` 148-149), so a pass has one run of it (`ran`).

`Setups` takes one circumstance at a time, since they meet in no property: the
sleeves trade, the account moves, the LLM sleeve runs, the account moves while
`get_fills` fails. Left out: limits in dollars other than in percent of an
anchor or a peak, kills by people (see `RunLoop`), and what makes
`data_staleness` and `reconciliation` trip (`CheckTrips(TRUE)`; see `FillBook`).

### Backtest

A day is `Today` (bar and chain), `FillOrder`/`DropOrder` for every pending
order, `Settle`, `Mark`, `Allocate` and `Signals`. Bars may be missing, the chain
may not quote the call, and the engine's Black-Scholes fallback has a price or
not (`setup.fallback`). `Applied` is `Position.apply_fill` with its three cases
(adding, closing, flipping); the position keeps its basis where the code keeps
the average cost, so that sizes and prices stay whole numbers. A strategy's
signals are any list of up to `MaxSignals`; each becomes an order sized from the
positions of today, whatever the signals before it ask for, and the orders
execute in that order (`nr`). `repicks` marks a strategy that may signal one
instrument twice, as put_income and convexity do when they close a contract and
pick it again; `LongOnlyStaysLong` excepts it. `rebalance_every_n_days` needs no
parameter because the list may be empty. A risk manager, when injected, cuts
orders down or refuses them.

### Sleeves

A behaviour is the life of one sleeve, `setup.kind`. A pass is `Begin...` (the
snapshot is read; exits and the names still open are fixed), `EnterName` or
`SkipName` for each name in the sleeve's order, `EntriesDone`, then `CloseOrder`
and `TargetOrder` for each signal, and `EndPass`, which brings the fills to the
sleeve's book. `SessionMoves` can come between any two of these steps,
`NextDay` and `Restart` between passes.

`book` is the sleeve's `positions`, `sent` what the pass has traded, `Account`
their sum. `entries` and `entryDay` are zero_dte's memory, which a restart
loses. `candidates` are the pairs of a name and a right that the pass may enter:
`BeginZeroDte` leaves out every name held, closing or not (`Held`);
`BeginPutIncome` and `BeginConvexity` free a name when the position that is
looked at last is closed (`Occupied`: dictionary order decides, so any subset is
possible); `BeginMomentum` looks at contracts, not names; `BeginMeanReversion`
counts slots by the names held at the start. `OrderQty` is `_signal_to_order`
with its 12% band and whole contracts, in thousandths, because a weight of n
contracts carries 1.001 against flooring.

What the market says (prices, deltas, momentum, z-scores, yields, the regime)
is free: every verdict the code can reach is possible, and more combinations of
them than a market would produce. Of an order any part may get through, and
none of one for a contract that has expired. Two circumstances are fixed per
behaviour: `closes` (closing orders go through whole, and no contract due to
leave is kept overnight) and `repicks` (the chain may offer the very contract
that is being closed). Properties that need one of them say so; the section
*Where code and documents differ* tells what happens without.

Left out: fills that come after the pass, the expiry guard and other sleeves in
the same contract (`FillBook`), rounding of weights, and the sizes that
deployment and volatility scaling lead to (any of `Lots` or `Targets`).

### Allocation and WalkForward

Both are pure: definitions checked against their properties for every input
within bounds, as an invariant of a run of the component they feed.
`Allocation` computes weights as exact fractions of a common denominator:
`Mass` (scores to positive mass), `Blend` (shrinkage toward the base split by
confidence), `FloorOf`, `Clip`, and `Fitted`, the ten rounds that take the
excess off what lies above the floor. `Deployment` is the part of the equity that
the volatility target lets out, between 30% and all of it, and `Allocate` what
each sleeve gets: nothing of an equity that is used up, else weight, deployment
and equity multiplied. Scores, confidence and the volatility of the split's
returns are inputs. The floor holds of the weights, so of the amounts only while
volatility is at its target; above it a sleeve may get as little as 30% of it,
and that is what `SplitSound` says. `MakeWindows` is `make_windows` over day numbers, whose
segments contain both ends, as the engine filters them.

## Runs

| Run | Result | Size | What it shows |
|---|---|---|---|
| `loop_faults` | passes | 2.31 million states | the safety properties and the refinement of `KillPromise`, with every fault enabled |
| `loop_fair` | passes | 687,305 | a kill is never forgotten, is swept and shown; the loop never gets stuck on the way |
| `loop_touch` | violated | | a touched kill file met in mid-pass is never flattened |
| `books` | passes | 1.86 million | the books over both adapters |
| `expiry_short` | violated | | guard and sleeve sell one position in one iteration |
| `phantom_sleeve` | violated | | the sleeve keeps what the guard sold |
| `gate` | passes | 299,004 | the gate over passes of several orders each |
| `buy_back` | violated | | a short put cannot be bought back under the cash buffer |
| `halts` | passes | 747,444 | breakers and budgets over days, faults and a restart; halts clear |
| `seed_timeout` | violated | | a first sync that times out leaves a false peak, and a kill follows |
| `backtest` | passes | 428,858 | t+1, costs, balance of the books, settlement, marks; walk-forward windows |
| `sleeves` | passes | 306,126 | side, one contract a name, names, collateral, flat at the bell; the capital split |

Bounds. `MCRunLoop`: two request threads (one flattening while another
releases or engages again), two strategies of up to two signals (a kill can
fall before, between and after each), two contracts that expire (so that one guard
order can be sent before a kill or a flatten and one after it), three orders or
positions (late orders and an older one, so that an exposure that is not swept
shows), one crash.
`MCFillBook`: two sleeves, three orders (an open, a close, and the guard's or
the other sleeve's; four in the two runs that look for a trace), one restart.
`MCRiskGate`: two calls and two puts of one expiration, a put of another, a
position of one at most (two in `buy_back`), so that covered, naked, spread and
mixed-strike groups all occur; two sales of shares a pass, so that the second one goes through on
shares the first has sold; prices keep away from arbitrage between the puts;
`MaxCash` bounds what price swings of the shares can earn. `MCBreakers`: an hour is
one tick, so an event is of now or of before, and a day is two, so a day has an
hour that is not its first; equity takes the levels 100, 97 (a fatal daily loss) and 89 (a
fatal drawdown); two trades an hour, two errors and two signals a pass, so that
each limit is met and exceeded; an LLM call costs one or two of a run's budget
of two and a day's of three; one restart. `MCBacktest`: five days with the
expiration on the fourth, so that orders meet it from both sides; two prices,
at and above the strike, so that the call may have no bid; long, short and mixed
targets, so that positions are added to, cut, closed and flipped; two signals a
day, so that one contract can be closed and entered in a batch; walk-forward
ranges of up to 20 days with spans of up to four, so that no, one and many
windows fit. `MCSleeves`: three names, of which the sleeve may hold two, so that
one is always in question; on the first of them two puts of different strikes, a
call and a put of the day and contracts that expire on the second day and after
the last, so that two contracts can compete for a name, be closed for time and
expire; three days, so that a contract can be opened, kept and left; two entries
a day; capital of ten or nothing, of which two strikes of two and three fit and
more do not; sizes of one and two contracts and weights between whole shares, so
that orders add to, cut and keep a position. Every sleeve is taken in calm
circumstances, put_income with closes refused, and all but convexity with both
closes refused and re-picks (with convexity the states run to more than half a
million; the proofs have no such bound). `Allocation`: three sleeves, four splits,
four scores, floors and caps that bind and that do not, an equity above and one
below zero, volatility at the target, above it and far above it. `WalkForwardSound` and
`CapitalSplitSound` are about functions of their inputs, and are evaluated over all
of these before the first segment and the first pass. Threads are symmetric in
`loop_faults` only, which has no liveness property.

Fairness. In `RunLoop` the loop thread is weakly fair: every broker call has a
timeout (`alpaca_broker.py` 51-66), the poll interval is finite and the
supervisor enters the loop again (`run_paper.py` 219-232). A request thread that
has engaged goes on to flatten. Nothing is assumed of operators, of the broker,
or of crashes. In `FillBook` the loop is weakly fair and a poll of the fills
does not fail every time it is tried; the broker is not assumed to fill
anything: `QuietAccountReconciles` speaks of behaviours in which no order is
left working from some time on. In `Breakers` the loop and the clock are weakly
fair; a sync and a verdict that could clear are strongly fair: the provider, the
broker and the agreement of data and account do not fail every time they are
tried, which a halt needs to clear. `HaltsClear` itself speaks of behaviours in
which errors do not keep coming in bursts, no kill waits for a person, and the
account does not stay in drawdown.

## Proofs

`RunLoopProofs` proves, for any number of threads, strategies, signals, orders
and crashes and from `ConstantsAssumption` alone:

- `TypeCorrect`: `TypeOK`, one case per action.
- `FewLateOrders` (`LateOrdersBounded`), `FlattenLeavesNothing`
  (`FlattenIsFinal`): neither property is inductive. The invariant
  `EngagementInv` adds that while the loop is between its last kill check and
  the submit no order of this engagement has slipped out yet, that an iteration
  whose guard is still to run has none but the guard's, as few as the contracts
  it had to close, and that the history variables are clear outside an
  engagement. `FlattenNeverGrows` says that whatever part of a flatten gets done
  moves positions and creates none.
- `PlatformKeepsPromise`: the refinement, from `EngagementInv`: each action of
  the platform is a step of `KillPromise` or a stutter.
- `NoKillForgotten`, `KillIsShown`: with `Orderly` (kills from the dashboard
  only, no SQLite faults). The invariant `HandledInv` says that an engagement
  without a flatten has one under way or a loop that is still to look for it.
  Without `Orderly` both fail: `loop_touch` is the counterexample.
- `LoopNeverReleases`: an action property, over `TypeOK`.

`FillBookProofs`, from `BookAssumption` (finitely many sleeves; the names of the
guard, the kill switch and nobody are not theirs), for any number of orders and
restarts:

- `OneFlatten` (`GuardSendsOnce`). The invariant counts the guard's orders
  against the restarts and `guardSent`, and keeps the list of orders a list
  (`Listed`); every other step must be shown to add no order of the guard's.
- `Typed` (`TypeOK`), with `Known`: what has been seen has filled.
- `CountedOnce` (`FillsCountOnce`): each step changes the local book and the sum
  of the fills to come by the same amount. `Seeding` says that nothing comes
  before the first sync of a process.
- `CalmBooks` (`CalmBooksAgree`). `BooksInv`: once seeded, the local book is the
  fills that were seen; before, nothing is at work, so the positions that were
  read still are the account. `OwnersInv`: an order whose fill is to come is
  remembered, so it will be booked to its sender, the sleeves' books add up to
  the local one, and the newest trade names an owner for whatever the next
  process finds.
- `NeverShortWhenCalm` (`CalmNeverShort`). `Whole`: nothing is at work, no fill is
  unseen when a pass begins, a sleeve sends one order a pass, and its book with
  the fills of its orders that are still to be told is never negative.

`RiskGateProofs`, from `GateAssumption` (finitely many contracts, whole orders,
prices above zero), for any orders, legs, groups, prices and limits:

- `SharesSoldFromBook` (`SharesShortByBatchOnly`). The ban is judged on the order
  as sent, what goes out is `Downsized`; the lemma `DownsizedSmaller` says that
  cutting keeps the direction and never enlarges, so each sale of a pass takes
  at most what the book shows.
- `Typed` (`TypeOK`).
- `TradesStayCovered` (`OptionTradesStayCovered`): an order that is cut down has
  a single leg, so what it changes of a group is of one sign and no larger than
  what was judged; an uncut one leaves what was judged. What the pass has bought
  of the group since it read the account only covers it better.
- `CollateralKept` (`SpendingKeepsCollateral`): a trade that spends has passed
  the check on cash, and what it leaves after the strikes of the puts in the book
  covers those held after, the account's free cash being no less than the book's.
- `GroupsSecured` (`PutGroupsSecured`), for orders that sell where they write
  puts (`WritersSell`). The invariant `Solvent` adds that cash is not overdrawn until a
  pass has drawn twice (`crossed`); the step that writes rests on the reserve the gate asks for, the
  highest strike for every uncovered contract, and the step that buys on the
  check on cash. `WritersSell` is what
  the program's orders are (`core/orders.py` 131 builds a single leg), and the
  instance has orders of several legs that satisfy it. Without it the property is
  false, see 14 below.

`BreakersProofs`, for any levels, limits, budgets and ticks: `TypeCorrect`;
`NoTradingInDrawdown`, over the invariant that the peak is the highest equity
the process has seen (`PeakIsHighest`); `KillsAreEarned`, over `AnchorsAreSeen`
(where the first poll answers, anchor and peak are values that were seen);
`RunBudgetHolds`, the first half of `BudgetsHold`, and `Budgets`, all of it
(`BillBounded`: the bill of the day is what the process knows it spent today,
what each restart has forgotten, and the rest of a run that midnight has cut in
two, so that a pass in its first minutes may still owe yesterday's); `HourlyGuards`
(`HourlyGuardsHold`, over `GuardsInv`: age by age, what was sent is what the board
has counted and what is still to be ingested; nothing of it is left when the
breakers are judged; and with what the pass may still send it is within the limit
and one pass).

`BacktestProofs`, for any prices, costs, capital, weights and number of days:
`Typed`; `BooksBalance` (`Balanced`: basis, realised gain, fees and cash move
together in each of the three cases of a fill and in a settlement); `NeverShort`
and `NoLookAhead` (`OrdersInv`: pending orders are of yesterday, and those of a
strategy that signals an instrument once a day at most one for an instrument; if
it is long-only they sell no more than is held);
`SettlesExpired` (`Settled`); `MarksAtClose` (`MarkedBefore`: what the marking
step has passed is marked at today's price); `FillsCost`. `WindowsSound`
(`WalkForwardSound`) is about `WalkForward`, for every range and every span: the
windows from a cursor on are those `Tiles` lists. `Tiles` obeys the recursion of
`make_windows` (`TilesRecur`), so there is a function that does; and where the
one that is chosen differed from it, it would differ at the next cursor too, and
the next, but the cursors run into the end of the range (`CursorsEnd`).

`SleevesProofs`, for any names, contracts, sizes, limits and days:

- `Typed`: `TypeOK`.
- `SidesKept` (`SignKept`). The invariant `SidesInv` says that nothing is both
  closed and asked for, that neither has been traded yet in the pass, and that
  candidates for entry are not being closed; with the lemma `OrderTyped` (an
  order toward a target never passes it) no part of it that gets through can
  turn a position over.
- `FlatAtBell` (`FlatBeforeClose`): `Flattening` during the pass that sees the
  end of the session (everything live is still to be closed or has been),
  `AfterFlat` from its end on.
- `OneEachKept` (`OneContractPerName`): `Alone` (of the contracts of a name at
  most one is held, but for one that is going), `Free` (names to be entered are
  free, those asked for are behind `at`) and `AllLive` (where closes go through
  nothing that expired stays in the book).
- `CollateralKept` (`CollateralCapped`). `Writing`: closes come before writes,
  and while there is a write to be sent, the worst the pass may come to owe on
  each instrument (what it owed, owes, or is still asked for) adds up to no more
  than the sleeve's share. It needs `WritesAssumption`, that a name's cap is
  below 1000 contracts: the weight of n contracts carries a thousandth of
  each against flooring (`put_income.py` 136), and at a thousand they would be
  one contract more.
- `NamesLimited` (`NamesCapped`). `NamesInv`: the names of what stays in the
  book, of what is asked for and of a slot for each entry to come are no more
  than the limit together; mean_reversion counts what it is closing.

`AllocationProofs`: `EverySplit` (`SplitSound`), for any sleeves, base split,
scores, floors, caps, equity and volatility, and `SplitsSound` (`CapitalSplitSound`), which is the
invariant the run checks. The floor is no more than any base weight, so
all floors together are one at most; were the clipped weights above one with the
floor above the cap, all would be at the cap and below the floor. So
the first round of the renormalisation has something to take the excess from,
takes all of it (`GivesTheExcess`: what is left is one, within floor and cap, and
in the same order), and the nine rounds after it change nothing
(`SettlesAtOnce`). `WeightsSound` collects that; `DeploymentIs` and `AmountIs` carry
each bound from the weights over to the amounts.

`Arithmetic` has the facts the sums need: empty, one member more or less, split,
monotonic, by key, scaled, shifted. The community modules' sum is a fold, a
recursive function on finite sets. That it obeys its equations is shown by
induction over sets without the library's induction theorems: among the subsets
of a finite set that refute a claim there is a smallest one (`SmallestSet`), and
from that a member is taken away. The run of the cursor, or ten equations one
after the other, does the same for the recursive functions of
`make_windows` and `allocate`.

All proofs use the named assumptions of their module's constants, and where a
theorem has a hypothesis (`Orderly`, `WritersSell`) it is in its statement. What
the properties except (several orders of one pass in `RiskGate`, `repicks`,
refused closes) is in their definitions, with the reason.

Only model-checked: the liveness properties (`KillIsSwept`,
`QuietAccountReconciles`, `HaltsClear`), which need fairness and ENABLED, out of
reach of the prover. Every invariant and every action property of a passing run
is a theorem, so that the bounds of the runs limit the liveness properties only.

## Where code and documents differ

Shown by a run; `PROJECT.json` quotes the lines:

1. `loop_touch`: a kill file touched during a pass halts but does not flatten.
2. `expiry_short`: on expiry day guard and sleeve sell one position twice.
3. `phantom_sleeve`: fills by the guard or the kill switch never reach the
   sleeve that owned the position.
4. `buy_back`: the cash buffer refuses the buy-back of short puts.
5. `seed_timeout`: a timeout of `get_fills` in the first sync of a process leaves
   the configured cash as the peak, and the drawdown breaker may flatten a sound
   account.

Met while modelling, told here without a run of their own:

6. *Two groups of puts, one cash.* `limits.py` 99-100 says cash is consumed
   across groups; it is within one order only. A put of one expiration, then one
   of another, are each approved against the whole cash. `PutGroupsSecured`
   therefore speaks of each group alone.
7. *The contract that is closed and entered again.* put_income and convexity
   free a name on the exit, and the chain may offer the same contract in the same
   pass. `_signal_to_order` sizes the entry against the sleeve's book, which does
   not have the close yet: with one short put held, closed, and a target of two,
   the entry sells one more and the book ends short one instead of two; with a
   smaller target it buys back again and put_income is left with a long put that
   `_manage_open` does not look at, and convexity, whose target is below what it
   held, with a naked short, which `convexity.py` 10-11 says never happens.
   `SignKept` excepts the two sleeves where `repicks` holds.
8. *Expired contracts free their names.* An option that expires worthless has no
   fill, so it stays in the sleeve's book until a restart. put_income and
   convexity exit it in every pass, no order comes of that, and the exit discards
   its name from the occupied ones though a newer contract on the name is held
   (`put_income.py` 85). A second contract is written. `closes` rules it out.
9. *Entries of the day.* `src/README.md` 166 has zero_dte enter at most 12 times a
   day; the count is compared before a pass and not within it (`zero_dte.py`
   207), so it can be exceeded by one less than `max_concurrent`.
10. *Overfitting.* `overfitting_check` flags an in-sample Sharpe of 0.6 with 0.1
    out of sample, and not with -1: between 0.5 and 1 the flag asks for a positive
    result out of sample (`walkforward.py` 56), though its docstring has it flag
    when "out-of-sample doesn't back it up" (52-53). `FlagIsMonotone` speaks of
    results above zero only. With `purge_days` = 0 the last
    training day is the first test day.

11. *Several orders of one pass.* Every order of a pass is judged on the portfolio
    read at its start. Two sales of the same shares leave them short, a put
    written and shares bought leave the put without its cash, two calls written
    count on the same cover. `src/README.md` 321-324 names this limitation for
    orders in flight; the properties of `RiskGate` say what is left.
12. *A flatten that does not stand.* Two engages one after the other each begin
    with `cancel_orders`, and the second cancels the liquidation orders of the
    first. If its own close fails the positions stay, though the first has
    reported a success, and nothing in the code tries again.
13. *The floor of a sleeve.* `min_weight` bounds the weights; the volatility target
    multiplies them by 0.30 at the least (`allocator.py` 124), so that a sleeve
    may get less than the floor `run_paper.py` gives it in order to trade at all.
14. *An order that writes puts and spends.* The gate compares the reserve of a put
    group with the cash before the order is paid for, counts contracts whatever
    their strikes, and leaves the order's own puts out of the committed cash. An
    order of several legs that writes a put and buys something dearer, or buys
    back low strikes and sells fewer high ones, would pass and leave the puts
    short of cash (`limits.py` 130-190, 438-449). No strategy sends one, and
    `GroupsSecured` says with `WritersSell` what must stay so.

Smaller ones are among the hazards, with notes.

## Not modelled

The inputs of strategies (momentum, volatility, z-scores, greeks, yields),
pricing and performance metrics: real-valued formulas, whose verdicts are free
choices here. Prompts, schemas and lesson memory of the LLM chain. The
dashboard's pages, logging and publishing. Partial fills and SQLite faults inside
an ingest: both leave a divergence between book and account that trips
reconciliation until a restart, and falsify every property about the local book
while it lasts. Orders left working from one pass to the next in `Sleeves`. The
per-underlying, sector and greek caps of the gate, which follow the rule of the
gross cap with another measure. Argument parsing of the scripts. The data
providers (`quantfund.data` is imported but is not part of the repository).

## Plan

Everything planned first is in place: `RunLoop` with `KillPromise`, `FillBook`,
`RiskGate`, `Breakers`, `Backtest`, `Sleeves`, `Allocation`, `WalkForward`, and
proofs of every safety property the runs check. What would come next, in this
order:

1. An abstract specification of the books (an account, and fills told once) that
   `FillBook` is shown to implement step by step, as `RunLoop` does `KillPromise`.
2. What the liveness properties rest on: that the loop's steps are always possible
   where the models' fairness needs them to be, as invariants.
3. `FillBook` with partial fills and SQLite faults, and a promise weaker than
   `FillsCountOnce`: a divergence is never traded over.
4. `Sleeves` over `FillBook`, so that orders of a pass may fill in a later one.
