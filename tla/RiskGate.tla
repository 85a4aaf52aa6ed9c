------------------------------ MODULE RiskGate ------------------------------
(***************************************************************************)
(* The pre-trade gate (risk/limits.py, RiskManager.check_order) in front   *)
(* of an account, over the passes of the loop (live/runner.py).            *)
(*                                                                         *)
(* A pass reads the account once: every order of it is judged on that      *)
(* reading, the book, whatever the orders before it have changed since.    *)
(* An order that is let through fills at the pass's mark, before the next  *)
(* pass reads the account, or not at all.                                  *)
(*                                                                         *)
(* One underlying: its shares, in lots of 100, and option contracts on it. *)
(* Money is in units of a contract's multiplier, so a contract or a lot is *)
(* worth its price.  Of the caps 5 to 8 (underlying, sector, gross, greeks)*)
(* only gross is kept: they share one rule and differ in the measure.      *)
(***************************************************************************)
EXTENDS Integers, FiniteSetsExt

CONSTANTS
    Contracts,      \* option contracts
    Right,          \* contract -> "call" or "put"
    Expiry,         \* contract -> expiration
    Strike,         \* contract -> strike
    Shares,         \* the equity leg
    Orders,         \* orders strategies may send: [legs -> signed quantity]
    StartCash,
    Prices,         \* instrument -> prices it may take
    MaxOrderNotional, MaxPositionNotional,  \* RiskLimits, per leg
    MaxGross,       \* gross exposure, in multiples of equity
    PremiumPct,     \* long premium, in percent of equity
    BufferPct,      \* cash buffer, in percent of equity
    MaxQty,         \* most lots or contracts of one instrument   (bound)
    MaxCash,        \* most cash the account reaches              (bound)
    MaxSales        \* most sales of shares in one pass           (bound)

Instruments == Contracts \cup {Shares}

ASSUME GateAssumption ==
    /\ IsFiniteSet(Contracts) /\ Shares \notin Contracts
    /\ Right \in [Contracts -> {"call", "put"}]
    /\ Strike \in [Contracts -> Nat]
    /\ \A o \in Orders :
           /\ DOMAIN o \subseteq Instruments /\ DOMAIN o # {}
           /\ \A i \in DOMAIN o : o[i] \in Int \ {0}
    /\ Prices \in [Instruments -> SUBSET (Nat \ {0})]
    /\ {StartCash, MaxOrderNotional, MaxPositionNotional, MaxGross,
        PremiumPct, BufferPct, MaxQty, MaxCash, MaxSales} \subseteq Nat

VARIABLES
    pos,      \* the account: quantity held, signed, by instrument
    cash,
    book,     \* the pass's portfolio: pos and cash as it read them
    bookCash,
    price,    \* mark of each instrument, the same for a whole pass
    sold,     \* orders of the pass that sold shares              (history)
    crossed   \* some order drew on what one before it in its pass had
              \* drawn from: cash, or the collateral of puts      (history)

vars == <<pos, cash, book, bookCash, price, sold, crossed>>

Abs(n)    == IF n < 0 THEN -n ELSE n
AtLeast0(n) == IF n > 0 THEN n ELSE 0

Equity == bookCash + SumFunction([i \in Instruments |-> book[i] * price[i]])

(* Positions after an order, and what the order costs.                     *)
After(p, o) == [i \in Instruments |-> p[i] + IF i \in DOMAIN o THEN o[i] ELSE 0]
CashOut(o)  == SumFunction([i \in DOMAIN o |-> o[i] * price[i]])

-----------------------------------------------------------------------------
(* 1) Undefined risk *)

(* Contracts of the same right and expiration offset each other.           *)
GroupOf(c) == {d \in Contracts : Right[d] = Right[c] /\ Expiry[d] = Expiry[c]}
Groups     == {GroupOf(c) : c \in Contracts}
RightOf(g) == Right[CHOOSE c \in g : TRUE]

Uncovered(g, p) ==
    AtLeast0(SumFunction([c \in g |-> AtLeast0(-p[c])])
             - SumFunction([c \in g |-> AtLeast0(p[c])]))

(* The groups an order is judged on: touched, and left with uncovered      *)
(* shorts it did not reduce.                                               *)
Judged(o) ==
    {g \in Groups : /\ g \cap DOMAIN o # {}
                    /\ Uncovered(g, After(book, o)) > 0
                    /\ Uncovered(g, After(book, o)) >= Uncovered(g, book)}

(* What a put group needs in reserve: its highest short strike for every   *)
(* uncovered contract.                                                     *)
Reserve(g, o) ==
    LET short == {c \in g : book[c] < 0 \/ (c \in DOMAIN o /\ o[c] < 0)}
    IN  IF short = {} THEN 0
        ELSE Max({Strike[c] : c \in short}) * Uncovered(g, After(book, o))

(* Mutation: call groups are not judged. *)
DefinedRiskPutsOnly(o) ==
    LET puts == {g \in Judged(o) : RightOf(g) = "put"}
    IN  SumFunction([g \in puts |-> Reserve(g, o)]) <= bookCash

(* Mutation: put groups are not judged. *)
DefinedRiskCallsOnly(o) ==
    LET calls == {g \in Judged(o) : RightOf(g) = "call"}
    IN  calls # {} =>
            SumFunction([g \in calls |-> Uncovered(g, After(book, o))]) <= book[Shares]

(* _undefined_risk_reason: within one order the shares under its calls and *)
(* the cash under its puts are consumed from group to group.               *)
DefinedRisk(o) ==
    LET calls == {g \in Judged(o) : RightOf(g) = "call"}
        puts  == {g \in Judged(o) : RightOf(g) = "put"}
    IN  /\ calls # {} =>
               SumFunction([g \in calls |-> Uncovered(g, After(book, o))]) <= book[Shares]
        /\ puts # {} => SumFunction([g \in puts |-> Reserve(g, o)]) <= bookCash

-----------------------------------------------------------------------------
(* 2) to 4) Shorts and size *)

(* Mutation: the ban on short shares is gone. *)
NoBan(o) == TRUE

NoShortShares(o) ==
    Shares \in DOMAIN o /\ o[Shares] < 0 => -o[Shares] <= book[Shares]

(* A single leg above the per-order limit is cut down to it.               *)
Downsized(o) ==
    [i \in DOMAIN o |->
        IF Abs(o[i]) * price[i] <= MaxOrderNotional THEN o[i]
        ELSE (MaxOrderNotional \div price[i]) * IF o[i] < 0 THEN -1 ELSE 1]

FitsOrderLimit(o) ==
    \/ Downsized(o) = o
    \/ Cardinality(DOMAIN o) = 1 /\ \A i \in DOMAIN o : Downsized(o)[i] # 0

FitsPositionLimit(o) ==
    \A i \in DOMAIN o : Abs(After(book, o)[i]) * price[i] <= MaxPositionNotional

(* 5) to 8) Exposure: refused only when above the cap and growing.         *)
Gross(p) == SumFunction([i \in Instruments |-> Abs(p[i]) * price[i]])

Worsens(pre, post, cap) == Abs(post) > cap /\ Abs(post) > Abs(pre)

FitsGross(o) == ~Worsens(Gross(book), Gross(After(book, o)), MaxGross * Equity)

(* 9) Premium of all long options, when the order buys any.                *)
Premium(p) == SumFunction([c \in Contracts |-> AtLeast0(p[c]) * price[c]])

FitsPremium(o) ==
    LET bought(c) == IF c \in DOMAIN o /\ o[c] > 0
                     THEN AtLeast0(IF book[c] < 0 THEN book[c] + o[c] ELSE o[c])
                     ELSE 0
        added     == SumFunction([c \in Contracts |-> bought(c) * price[c]])
    IN  added > 0 => (Premium(book) + added) * 100 <= PremiumPct * Equity

(* 10) Cash: what secures short puts is not there to be spent.             *)
Committed(p) ==
    SumFunction([c \in {d \in Contracts : Right[d] = "put" /\ p[d] < 0} |->
                     Strike[c] * Abs(p[c])])

(* Mutation: the buffer is measured on all the cash. *)
FitsTotalCash(o) ==
    CashOut(o) > 0 => (bookCash - CashOut(o)) * 100 >= BufferPct * Equity

FitsCash(o) ==
    CashOut(o) > 0 =>
        (bookCash - Committed(book) - CashOut(o)) * 100 >= BufferPct * Equity

-----------------------------------------------------------------------------
(* check_order: what of the order may go out, {} when nothing may.  The    *)
(* first two checks see the order as sent, the others as cut down.         *)
Approved(o) ==
    LET sized == Downsized(o)
    IN  IF /\ Equity > 0
           /\ DefinedRisk(o) /\ NoShortShares(o) /\ FitsOrderLimit(o)
           /\ FitsPositionLimit(sized) /\ FitsGross(sized)
           /\ FitsPremium(sized) /\ FitsCash(sized)
        THEN {sized} ELSE {}

(* The prices the market may show. *)
Marks == {p \in [Instruments -> UNION {Prices[i] : i \in Instruments}] :
             \A i \in Instruments : p[i] \in Prices[i]}

Init ==
    /\ pos = [i \in Instruments |-> 0]
    /\ cash = StartCash
    /\ book = pos /\ bookCash = cash
    /\ price \in Marks
    /\ sold = 0
    /\ crossed = FALSE

(* An order that writes puts. *)
WritesPut(o) == \E c \in DOMAIN o \cap Contracts : Right[c] = "put" /\ o[c] < 0

(* An order takes from the cash or from the collateral, or an order before *)
(* it in the pass has left less of them than the book shows.               *)
Draws(o) == CashOut(o) > 0 \/ WritesPut(o)
Drawn    == \/ cash < bookCash
            \/ \E c \in Contracts : Right[c] = "put" /\ pos[c] < book[c]

(* The account stays within the bounds of the model. *)
InBounds(o) ==
    /\ \A i \in Instruments : Abs(After(pos, o)[i]) <= MaxQty
    /\ cash - CashOut(o) <= MaxCash
    /\ Shares \in DOMAIN o /\ o[Shares] < 0 => sold < MaxSales

(* What of an order goes out changes the account, not the book.            *)
Fill(o) ==
    /\ pos' = After(pos, o)
    /\ cash' = cash - CashOut(o)
    /\ sold' = sold + IF Shares \in DOMAIN o /\ o[Shares] < 0 THEN 1 ELSE 0
    /\ crossed' = (crossed \/ (Draws(o) /\ Drawn))
    /\ UNCHANGED <<book, bookCash, price>>

(* Mutation: the order goes out as it was sent, not as it was cut down. *)
TradeUncut ==
    \E o \in Orders : \E sized \in Approved(o) : InBounds(sized) /\ Fill(o)

(* A strategy's order passes the gate and fills at the mark.               *)
Trade ==
    \E o \in Orders : \E sized \in Approved(o) : InBounds(sized) /\ Fill(sized)

(* The next pass: the market has moved one instrument, and the portfolio   *)
(* is rebuilt from the account.                                            *)
NextPass ==
    /\ \E i \in Instruments : \E p \in Prices[i] : price' = [price EXCEPT ![i] = p]
    /\ book' = pos /\ bookCash' = cash
    /\ sold' = 0
    /\ UNCHANGED <<pos, cash, crossed>>

Next == Trade \/ NextPass

Spec == Init /\ [][Next]_vars

-----------------------------------------------------------------------------
(* Properties *)

(* Positions, cash and prices keep their types.                            *)
TypeOK ==
    /\ pos \in [Instruments -> -MaxQty..MaxQty]
    /\ book \in [Instruments -> -MaxQty..MaxQty]
    /\ cash \in Int /\ bookCash \in Int
    /\ \A i \in Instruments : price[i] \in Prices[i]
    /\ sold \in 0..MaxSales
    /\ crossed \in BOOLEAN

(* A pass that sends one order to sell shares does not leave them short,   *)
(* downsizing included.  One that sends several may, as each is judged on  *)
(* the shares read at its start (src/README.md, limitation 7): n orders    *)
(* sell at most n times those shares, and nothing more is sold once a pass *)
(* has found them short.                                                   *)
SharesShortByBatchOnly == pos[Shares] >= book[Shares] - sold * AtLeast0(book[Shares])

(* An order that writes puts pays for nothing with them: it is no debit at *)
(* any price, and buys back no more contracts of a put group than it sells.*)
(* Every strategy's orders have a single leg, so they are of this kind; the*)
(* gate, which judges collateral on the cash before the order is paid for  *)
(* and on the number of contracts alone, takes it for granted.             *)
WritersSell ==
    \A o \in Orders : WritesPut(o) =>
        /\ \A p \in Marks : SumFunction([i \in DOMAIN o |-> o[i] * p[i]]) <= 0
        /\ \A g \in Groups : RightOf(g) = "put" =>
               SumFunction([c \in g |-> IF c \in DOMAIN o THEN o[c] ELSE 0]) <= 0

(* Every group of short puts that holds no long ones is, taken alone, good *)
(* for assignment: cash covers all its strikes, whatever was bought, sold  *)
(* or closed since they were written, in this pass or before, when         *)
(* WritersSell and no pass has spent or written after an order of its own  *)
(* that had done so.                                                       *)
PutGroupsSecured ==
    ~crossed =>
    \A g \in Groups :
        RightOf(g) = "put" /\ (\A c \in g : pos[c] <= 0)
            => SumFunction([c \in g |-> Strike[c] * Abs(pos[c])]) <= cash

(* Cash that secures no put. *)
Free(c, p) == c - Committed(p)

(* Money is never spent out of the collateral of the put book: a trade     *)
(* that spends, and writes no put, leaves the strike of every short put in *)
(* cash, even where those puts were short of it before, unless orders      *)
(* before it in the pass have left less free cash than the book shows.     *)
SpendingKeepsCollateral ==
    [][cash' < cash /\ Committed(pos') <= Committed(pos)
           /\ Free(bookCash, book) <= Free(cash, pos)
           => cash' >= Committed(pos')]_vars

(* Short calls of a group beyond its long calls and the shares held.       *)
Naked(g, p) == AtLeast0(Uncovered(g, p) - p[Shares])

(* No trade that leaves the shares alone makes a call group more naked:    *)
(* selling the long leg of a spread is judged like writing the short one.  *)
(* This too is for a trade before which the pass has sold none of the      *)
(* group and no shares: two writes of one pass may count on the same cover.*)
OptionTradesStayCovered ==
    [][\A g \in Groups :
           RightOf(g) = "call" /\ pos'[Shares] = pos[Shares]
           /\ (\A i \in g \cup {Shares} : pos[i] >= book[i])
               => Naked(g, pos') <= Naked(g, pos)]_vars

(* A trade that buys back short puts is risk-reducing and always allowed   *)
(* (README: "always allows risk-reducing trades"), were it only in an      *)
(* account no pass has overdrawn.                                          *)
BuyBackAllowed ==
    \A c \in Contracts :
        Right[c] = "put" /\ book[c] < 0 /\ Equity > 0 /\ ~crossed
            => Approved([i \in {c} |-> -book[c]]) # {}
=============================================================================
