------------------------------ MODULE Backtest ------------------------------
(***************************************************************************)
(* The daily loop of the backtest engine (backtest/engine.py) over the     *)
(* accounting of a sleeve (core/portfolio.py) and the cost model           *)
(* (core/costs.py): orders of yesterday execute today, what has expired is *)
(* settled, the sleeve is marked, the strategy asks for tomorrow's orders. *)
(*                                                                         *)
(* One sleeve with a stock "S" and a call "C" on it; sleeves share nothing *)
(* but the allocator, whose answer is a choice here, as are bars, chains   *)
(* and what a strategy wants.  Prices are whole ticks.  A position keeps   *)
(* its basis, the average cost times the size, and rounds down where a     *)
(* part is closed; friction is a spread, an impact and a fee of some ticks.*)
(* The buy-and-hold benchmark is a sleeve that trades once and is left out.*)
(***************************************************************************)
EXTENDS Integers

CONSTANTS
    Setups,        \* circumstances to consider (see SetupType)
    LastDay,       \* index of the last trading day
    Prices,        \* values of an open or a close
    Capitals,      \* what the allocator may give the sleeve
    StartingCash,
    Strike, Expiry,    \* of the call; Expiry is a day
    TimeValue,     \* what the call is worth over its intrinsic value
    Multiplier,    \* of the call
    HalfSpread, Impact, OptionHalfSpread,   \* ticks off the mid
    SaleFee, ContractFee,
    MaxSignals     \* most orders one day's signals become    (bound)

Instruments == {"S", "C"}

(* trades: the instruments of the strategy.  weights: its target weights,  *)
(* in percent.  repicks: it may signal an instrument more than once a day, *)
(* as convexity, put_income and zero_dte do when they close a contract and *)
(* pick it again.  allocator, gate: an allocator, a risk manager is        *)
(* injected.  fallback: the history is long enough to price the call off   *)
(* its chain.                                                              *)
ASSUME BacktestAssumption ==
    /\ \A s \in Setups : /\ s.trades \subseteq Instruments
                         /\ s.weights \subseteq Int
                         /\ {s.repicks, s.allocator, s.gate, s.fallback}
                                \subseteq BOOLEAN
    /\ LastDay \in Nat /\ LastDay >= 2 /\ Expiry \in Nat
    /\ {StartingCash, Strike, Multiplier, HalfSpread, OptionHalfSpread}
           \subseteq Nat \ {0}
    /\ {TimeValue, Impact, SaleFee, ContractFee, MaxSignals} \subseteq Nat
    /\ Prices \subseteq Nat /\ \A p \in Prices : p > HalfSpread + Impact
    /\ Capitals \subseteq Nat

VARIABLES
    setup,      \* the circumstances, fixed
    pc, day,
    open,       \* today's open, 0 if the stock has no bar today
    last,       \* last known close, 0 for none
    quoted,     \* today's chain quotes the call
    cash, pos, feesPaid, totalCosts,    \* the sleeve (Portfolio)
    capital,    \* sleeve_capital
    pending,    \* orders that wait for tomorrow
    offChain    \* the call has been filled off its chain today (history)

marketVars == <<open, last, quoted>>
sleeveVars == <<cash, pos, feesPaid, totalCosts>>
vars == <<setup, pc, day, marketVars, sleeveVars, capital, pending, offChain>>

Abs(n)     == IF n < 0 THEN -n ELSE n
Lesser(m, n)  == IF m < n THEN m ELSE n
Greater(m, n) == IF m > n THEN m ELSE n
Sign(side) == IF side = "buy" THEN 1 ELSE -1
Mult(i)    == IF i = "C" THEN Multiplier ELSE 1

Flat == [qty |-> 0, basis |-> 0, realized |-> 0, mark |-> 0, markDay |-> -1]

Init ==
    /\ setup \in Setups
    /\ pc = "dawn" /\ day = 0
    /\ open = 0 /\ last = 0 /\ quoted = FALSE
    /\ cash = StartingCash /\ pos = [i \in Instruments |-> Flat]
    /\ feesPaid = 0 /\ totalCosts = 0
    /\ capital = StartingCash
    /\ pending = {} /\ offChain = FALSE

-----------------------------------------------------------------------------
(* Prices *)

(* Mutation: a contract expires the day after its expiration. *)
ExpiresDayLater == day > Expiry

Expired == day >= Expiry

Intrinsic(px) == Greater(0, px - Strike)
Theo(px)      == Intrinsic(px) + TimeValue

QuoteAround(mid, half) == [bid |-> Greater(0, mid - half), ask |-> mid + half]
NoQuote == [bid |-> 0, ask |-> 0]

(* Quote.mid: where nobody bids it is the ask.                             *)
Mid(q) == IF q.bid > 0 /\ q.ask > 0 THEN (q.bid + q.ask) \div 2 ELSE q.ask

(* What today's chain shows for the call.                                  *)
ChainQuote == QuoteAround(Theo(last), OptionHalfSpread)

(* The quote an order executes on: for the stock today's open, for the     *)
(* call its chain if there is a bid, else a Black-Scholes price off today's*)
(* open.  No bid, no execution.                                            *)
OnChain == quoted /\ ChainQuote.bid > 0

ExecQuote(i) ==
    CASE i = "S" /\ open > 0 -> QuoteAround(open, HalfSpread)
      [] i = "C" /\ OnChain  -> ChainQuote
      [] i = "C" /\ ~OnChain /\ open > 0 /\ setup.fallback /\ ~Expired ->
             QuoteAround(Theo(open), OptionHalfSpread)
      [] OTHER -> NoQuote

(* Mutation: sellers get the ask. *)
PaysTheAsk(i, side) == ExecQuote(i).ask + (IF i = "S" THEN Impact ELSE 0)

(* CostModel.execution_price: the far touch, and impact on a stock.        *)
ExecutionPrice(i, side) ==
    LET slip == IF i = "S" THEN Impact ELSE 0
    IN  IF side = "buy" THEN ExecQuote(i).ask + slip
                        ELSE Greater(0, ExecQuote(i).bid - slip)

Fees(i, side, qty) ==
    IF i = "C" THEN ContractFee * qty
               ELSE IF side = "sell" THEN SaleFee ELSE 0

-----------------------------------------------------------------------------
(* Position.apply_fill *)

(* Mutation: a position that flips keeps its average cost. *)
AppliedKeepingAverage(p, i, side, qty, price) ==
    LET signed   == Sign(side) * qty
        held     == Abs(p.qty)
        closing  == Lesser(qty, held)
        released == IF held = 0 THEN 0 ELSE (p.basis * closing) \div held
        gain     == (price * closing - released)
                        * (IF p.qty > 0 THEN 1 ELSE -1) * Mult(i)
        marked   == [p EXCEPT !.qty = @ + signed,
                              !.mark = price, !.markDay = day]
    IN  IF p.qty = 0 \/ (p.qty > 0) = (signed > 0)
        THEN [marked EXCEPT !.basis = @ + qty * price]
        ELSE [marked EXCEPT
                 !.realized = @ + gain,
                 !.basis = IF qty > held THEN ((qty - held) * p.basis) \div held
                                         ELSE @ - released]

(* Mutation: closing a position does not reset its cost. *)
AppliedKeepingCost(p, i, side, qty, price) ==
    [p EXCEPT !.qty = @ + Sign(side) * qty,
              !.basis = IF (p.qty >= 0) = (side = "buy") THEN @ + qty * price
                                                         ELSE @,
              !.mark = price, !.markDay = day]

(* A fill adds to a position, or closes it, realising its gain, and beyond *)
(* zero opens one the other way.                                           *)
Applied(p, i, side, qty, price) ==
    LET signed   == Sign(side) * qty
        held     == Abs(p.qty)
        closing  == Lesser(qty, held)
        released == IF held = 0 THEN 0 ELSE (p.basis * closing) \div held
        gain     == (price * closing - released)
                        * (IF p.qty > 0 THEN 1 ELSE -1) * Mult(i)
        marked   == [p EXCEPT !.qty = @ + signed,
                              !.mark = price, !.markDay = day]
    IN  IF p.qty = 0 \/ (p.qty > 0) = (signed > 0)
        THEN [marked EXCEPT !.basis = @ + qty * price]
        ELSE [marked EXCEPT
                 !.realized = @ + gain,
                 !.basis = IF qty > held THEN (qty - held) * price
                                         ELSE @ - released]

(* Portfolio.apply_fill: fees are paid besides the price, slippage in it.  *)
ApplyFill(i, side, qty, price, fees, slippage) ==
    /\ pos' = [pos EXCEPT ![i] = Applied(@, i, side, qty, price)]
    /\ cash' = cash - Sign(side) * price * qty * Mult(i) - fees
    /\ feesPaid' = feesPaid + fees
    /\ totalCosts' = totalCosts + fees + slippage

MarketValue(i) == pos[i].mark * pos[i].qty * Mult(i)
Equity == cash + MarketValue("S") + MarketValue("C")

-----------------------------------------------------------------------------
(* A day *)

(* The day's snapshot: the stock may lack a bar, the chain the call.       *)
Today(o, c, inChain) ==
    /\ pc = "dawn"
    /\ pc' = "execute"
    /\ open' = o
    /\ last' = IF o = 0 THEN last ELSE c
    /\ quoted' = inChain
    /\ inChain => last' > 0 /\ day <= Expiry
    /\ offChain' = FALSE
    /\ UNCHANGED <<setup, day, sleeveVars, capital, pending>>

(* Orders execute in the order of the signals they came from.              *)
NextInLine(o) == o \in pending /\ \A p \in pending : o.nr <= p.nr

FillOrder(o) ==
    /\ pc = "execute" /\ NextInLine(o)
    /\ ExecQuote(o.inst).bid > 0
    /\ LET price == ExecutionPrice(o.inst, o.side)
       IN  ApplyFill(o.inst, o.side, o.qty, price,
                     Fees(o.inst, o.side, o.qty),
                     Abs(price - Mid(ExecQuote(o.inst))) * o.qty * Mult(o.inst))
    /\ pending' = pending \ {o}
    /\ offChain' = (offChain \/ (o.inst = "C" /\ ~OnChain))
    /\ UNCHANGED <<setup, pc, day, marketVars, capital>>

(* Mutation: what cannot execute today is tried again tomorrow. *)
DropOrderRetries(o) ==
    /\ pc = "execute" /\ pending = {o}
    /\ ExecQuote(o.inst).bid = 0
    /\ pc' = "settle"
    /\ UNCHANGED <<setup, day, marketVars, sleeveVars, capital, pending,
                   offChain>>

(* What cannot execute today is dropped.                                   *)
DropOrder(o) ==
    /\ pc = "execute" /\ NextInLine(o)
    /\ ExecQuote(o.inst).bid = 0
    /\ pending' = pending \ {o}
    /\ UNCHANGED <<setup, pc, day, marketVars, sleeveVars, capital, offChain>>

Executed ==
    /\ pc = "execute" /\ pending = {}
    /\ pc' = "settle"
    /\ UNCHANGED <<setup, day, marketVars, sleeveVars, capital, pending,
                   offChain>>

(* An expired call is closed at its intrinsic value, without friction; not *)
(* without a price of the stock.                                           *)
Settles == pos["C"].qty # 0 /\ Expired /\ last > 0

Settle ==
    /\ pc = "settle"
    /\ pc' = "mark"
    /\ IF Settles
       THEN ApplyFill("C", IF pos["C"].qty > 0 THEN "sell" ELSE "buy",
                      Abs(pos["C"].qty), Intrinsic(last), 0, 0)
       ELSE UNCHANGED sleeveVars
    /\ UNCHANGED <<setup, day, marketVars, capital, pending, offChain>>

(* Mutation: only what the chain quotes is marked. *)
MarkedFromSnapshot(i) ==
    LET markAt(price) == [pos[i] EXCEPT !.mark = price, !.markDay = day]
    IN  CASE pos[i].qty # 0 /\ i = "S" /\ last > 0 -> markAt(last)
          [] pos[i].qty # 0 /\ i = "C" /\ quoted   -> markAt(Mid(ChainQuote))
          [] OTHER -> pos[i]

(* mark_from_snapshot marks open positions at the close, calls at the mid; *)
(* _mark_unquoted_options prices those left with an older mark.            *)
Marked(i) ==
    LET markAt(price) == [pos[i] EXCEPT !.mark = price, !.markDay = day]
    IN  CASE pos[i].qty # 0 /\ i = "S" /\ last > 0 -> markAt(last)
          [] pos[i].qty # 0 /\ i = "C" /\ quoted   -> markAt(Mid(ChainQuote))
          [] pos[i].qty # 0 /\ i = "C" /\ ~quoted /\ pos[i].markDay # day
             /\ ~Expired /\ last > 0 /\ setup.fallback -> markAt(Theo(last))
          [] OTHER -> pos[i]

Mark ==
    /\ pc = "mark"
    /\ pc' = "signals"
    /\ pos' = [i \in Instruments |-> Marked(i)]
    /\ UNCHANGED <<setup, day, marketVars, cash, feesPaid, totalCosts, capital,
                   pending, offChain>>

-----------------------------------------------------------------------------
(* _weight_to_order: the orders a signal on i may become; nr is the place  *)
(* among the orders of the day.                                            *)

Order(i, side, qty) ==
    [inst |-> i, side |-> side, qty |-> qty, day |-> day, nr |-> 1]

CloseOrders(i) ==
    IF pos[i].qty = 0 THEN {}
    ELSE {Order(i, IF pos[i].qty > 0 THEN "sell" ELSE "buy", Abs(pos[i].qty))}

(* What a position is sized at; 0 for no price.                            *)
SizingPrice(i) ==
    IF i = "S" THEN last ELSE IF quoted THEN Mid(ChainQuote) ELSE 0

(* The difference to the target, in whole shares or contracts.             *)
WeightOrders(i, weight) ==
    LET lot   == 100 * SizingPrice(i) * Mult(i)
        delta == weight * capital - pos[i].qty * lot
    IN  IF lot = 0 \/ Abs(delta) < lot THEN {}
        ELSE {Order(i, IF delta > 0 THEN "buy" ELSE "sell",
                    Abs(delta) \div lot)}

(* An injected risk manager may cut an order down (or refuse it).          *)
CutDown(o) == {[o EXCEPT !.qty = q] : q \in 1..o.qty}

AskedFor(i) ==
    LET asked == CloseOrders(i)
                     \cup UNION {WeightOrders(i, w) : w \in setup.weights}
    IN  IF setup.gate THEN UNION {CutDown(o) : o \in asked} ELSE asked

(* Every few days the sleeve's capital is set anew: by the allocator, or   *)
(* to what the sleeve is worth.                                            *)
Rebalance ==
    \/ UNCHANGED capital
    \/ setup.allocator /\ capital' \in Capitals
    \/ ~setup.allocator /\ capital' = Equity

Allocate ==
    /\ pc = "signals"
    /\ pc' = "orders"
    /\ Rebalance
    /\ UNCHANGED <<setup, day, marketVars, sleeveVars, pending, offChain>>

(* The strategy's signals become orders one by one, all sized from the     *)
(* positions as they are; or it asks for none, as on days between          *)
(* rebalances.  On the last day it is not asked.                           *)
Signals(asked) ==
    /\ pc = "orders"
    /\ day < LastDay
    /\ ~setup.repicks =>
           \A k, l \in DOMAIN asked : asked[k].inst = asked[l].inst => k = l
    /\ pending' = pending \cup {[asked[k] EXCEPT !.nr = k] : k \in DOMAIN asked}
    /\ pc' = "dawn" /\ day' = day + 1
    /\ UNCHANGED <<setup, marketVars, sleeveVars, capital, offChain>>

Next ==
    \/ \E o \in Prices \cup {0}, c \in Prices, inChain \in BOOLEAN :
           Today(o, c, inChain)
    \/ \E o \in pending : FillOrder(o) \/ DropOrder(o)
    \/ Executed \/ Settle \/ Mark \/ Allocate
    \/ \E n \in 0..MaxSignals :
           \E asked \in [1..n -> UNION {AskedFor(i) : i \in setup.trades}] :
               Signals(asked)

Spec == Init /\ [][Next]_vars

-----------------------------------------------------------------------------
(* Properties                                                              *)

Positions == [qty: Int, basis: Nat, realized: Int, mark: Nat,
              markDay: -1..LastDay]

MarketOK ==
    /\ day \in 0..LastDay
    /\ {open, last} \subseteq Prices \cup {0}
    /\ {quoted, offChain} \subseteq BOOLEAN

SleeveOK ==
    /\ {cash, capital} \subseteq Int
    /\ {feesPaid, totalCosts} \subseteq Nat
    /\ pos \in [Instruments -> Positions]
    /\ \A i \in Instruments : pos[i].qty = 0 => pos[i].basis = 0

PendingOK ==
    /\ pending \subseteq [inst: Instruments, side: {"buy", "sell"},
                          qty: Nat \ {0}, day: 0..LastDay,
                          nr: Nat \ {0}]
    /\ pc \notin {"dawn", "execute"} => pending = {}

(* Every variable keeps its type; a flat position has no cost left in it,  *)
(* and no order outlives the executions of a day.                          *)
TypeOK ==
    /\ setup \in Setups
    /\ pc \in {"dawn", "execute", "settle", "mark", "signals", "orders"}
    /\ MarketOK /\ SleeveOK /\ PendingOK

(* The books balance: what the sleeve is worth above its starting cash is  *)
(* what its positions have realised and stand at, less the fees paid       *)
(* (portfolio.py 9-12), through additions, part closes, flips and          *)
(* settlements.                                                            *)
Realized == pos["S"].realized + pos["C"].realized
CostOf(p, i)    == (IF p.qty > 0 THEN 1 ELSE -1) * p.basis * Mult(i)
UnrealizedOf(i) == MarketValue(i) - CostOf(pos[i], i)
NetLiquidation ==
    Equity - StartingCash =
        Realized + UnrealizedOf("S") + UnrealizedOf("C") - feesPaid

(* A strategy that never targets a short position never gets one, although *)
(* its orders execute a day after they were sized, may be dropped or cut   *)
(* down, and settlement closes positions as well: if it signals an         *)
(* instrument once a day.  One that closes a contract and picks it again   *)
(* sells twice what is above the target, as convexity may in spite of      *)
(* "never violates the naked-short ban" (convexity.py 9).  Without an      *)
(* allocator a sleeve that is worth less than nothing has a capital below  *)
(* zero, whose share a long target is.                                     *)
LongOnlyStaysLong ==
    setup.weights \subseteq Nat /\ setup.allocator /\ ~setup.repicks
        => \A i \in Instruments : pos[i].qty >= 0

(* An order executes on the day after its signal or never: "t+1 - never on *)
(* the bar that produced the signal" (engine.py 5-6).                      *)
TradesOneDayLater ==
    [][pos' # pos /\ pc = "execute" =>
           \A o \in pending \ pending' : o.day = day - 1]_vars

(* "Zero-cost fills are impossible" (engine.py 7): an execution makes the  *)
(* sleeve poorer, valued at the mid, and by just the costs it reports.     *)
ValueAtMid(i) == pos[i].qty * Mid(ExecQuote(i)) * Mult(i)
AtMid         == cash + ValueAtMid("S") + ValueAtMid("C")
EveryFillCosts ==
    [][pos' # pos /\ pc = "execute" =>
           /\ totalCosts' > totalCosts
           /\ AtMid' - AtMid = totalCosts - totalCosts']_vars

(* No expired contract is left open or opened when a price of the stock is *)
(* known.                                                                  *)
ExpiredAreSettled ==
    pc \in {"signals", "orders"} /\ day >= Expiry /\ last > 0 =>
        pos["C"].qty = 0

(* The curve is drawn from marks of the day's close (engine.py 185), where *)
(* there is a price to mark at and the call has not just been filled off   *)
(* its chain.                                                              *)
MarksAreOfToday ==
    pc = "signals" =>
        /\ pos["S"].qty # 0 /\ last > 0 => pos["S"].mark = last
        /\ pos["C"].qty # 0 /\ last > 0 /\ ~Expired /\ ~offChain =>
               /\ quoted => pos["C"].mark = Mid(ChainQuote)
               /\ ~quoted /\ setup.fallback => pos["C"].mark = Theo(last)
=============================================================================
