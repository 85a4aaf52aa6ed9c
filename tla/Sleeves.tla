------------------------------- MODULE Sleeves -------------------------------
(***************************************************************************)
(* The sleeves that decide what is bought and sold: zero_dte, put_income,  *)
(* convexity, momentum (by shares or by options) and mean_reversion of     *)
(* strategies/, each through live/runner.py: the pass that turns a         *)
(* sleeve's own book into signals, the orders made of them, and what of    *)
(* these comes back as fills.                                              *)
(*                                                                         *)
(* Prices, momentum scores, z-scores, yields and deltas are the market's:  *)
(* every verdict on them that the code can reach is possible.  The gate    *)
(* and the broker let through an order whole, in part or not at all, and   *)
(* what got through is filled before the pass is over (FillBook has the    *)
(* fills that come late, the expiry guard and the other sleeves).          *)
(***************************************************************************)
EXTENDS Integers, Sequences, FiniteSetsExt

CONSTANTS
    Setups,         \* sleeves and circumstances to consider (see SetupType)
    Names,          \* the underlyings, in the order a sleeve prefers them
    Instruments,    \* option contracts and shares
    Under,          \* instrument -> underlying_symbol
    Right,          \* instrument -> "call", "put" or "share"
    Strike,         \* instrument -> strike, in units of secured cash
    Expiry,         \* contract -> the day it expires
    MinDte, MaxDte, ExitDte,   \* days to expiration: to open, to leave
    MaxNames,       \* max_concurrent, max_underlyings, top_n, max_names
    MaxEntries,     \* max_entries_per_day
    SecuredPct,     \* secured_cash_fraction, in percent
    PerNameCap,     \* contracts put_income writes of one name at most
    Capitals,       \* what the allocator may give the sleeve
    Lots,           \* contracts a sizing may come to
    Targets,        \* target weights, in thousandths of a share
    LastDay         \* the last day considered (bound)

Kinds == {"zero_dte", "put_income", "convexity",
          "momentum_equity", "momentum_options", "mean_reversion"}

(* closes: orders that close a position go through whole, and no contract  *)
(* that is due to leave stays in the book overnight.  repicks: the chain   *)
(* may offer the very contract that is being closed.                       *)
SetupType == [kind: Kinds, closes: BOOLEAN, repicks: BOOLEAN]

Underlyings == {Names[i] : i \in DOMAIN Names}

ASSUME SleevesAssumption ==
    /\ Setups \subseteq SetupType
    /\ Names \in Seq(STRING)
    /\ \A i, j \in DOMAIN Names : Names[i] = Names[j] => i = j
    /\ IsFiniteSet(Instruments)
    /\ Under \in [Instruments -> Underlyings]
    /\ Right \in [Instruments -> {"call", "put", "share"}]
    /\ Strike \in [Instruments -> Nat \ {0}]
    /\ Expiry \in [Instruments -> Nat]
    /\ {MinDte, MaxDte, ExitDte, MaxNames, MaxEntries, SecuredPct,
        PerNameCap, LastDay} \subseteq Nat
    /\ ExitDte < MinDte
    /\ Capitals \subseteq Nat
    /\ Lots \subseteq Nat \ {0} /\ Targets \subseteq Nat \ {0}

(* A weight of fewer contracts than that loses its 1.001 to flooring.      *)
ASSUME WritesAssumption == PerNameCap < 1000

VARIABLES
    setup,          \* the sleeve and its circumstances, fixed
    day, session,   \* the clock
    book,           \* the sleeve's positions, signed, by instrument
    entries, entryDay,  \* _entries_today, _entry_day
    pc,             \* "idle", "entries" or "orders"
    capital,        \* allocated_capital of the pass
    at,             \* the name the entries have come to
    slots,          \* names that may still be entered
    candidates,     \* <<name, right>> that may be entered
    closing,        \* CLOSE signals not yet turned into orders
    target,         \* other signals: target position in thousandths, or 0
    sent,           \* what this pass has bought or sold
    atEnd,          \* the pass's snapshot shows the session's end
    flatPass        \* a pass of today has seen the session's end (history)

clock   == <<day, session>>
memory  == <<entries, entryDay>>
plan    == <<at, slots, candidates>>
signals == <<closing, target>>
vars == <<setup, clock, book, memory, pc, capital, plan, signals, sent, atEnd,
          flatPass>>

Sessions == <<"before", "entry", "late", "flat">>

None == [c \in Instruments |-> 0]
Abs(n) == IF n < 0 THEN -n ELSE n
NamesOf(cs) == {Under[c] : c \in cs}

Live(c)    == Right[c] = "share" \/ Expiry[c] >= day
Dte(c)     == Expiry[c] - day
Leaving(c) == Right[c] # "share" /\ Dte(c) <= ExitDte
Enterable(c) == Right[c] = "share" \/ (MinDte <= Dte(c) /\ Dte(c) <= MaxDte)

(* What the account holds of the sleeve's, its orders of this pass filled. *)
Account == [c \in Instruments |-> book[c] + sent[c]]

Init ==
    /\ setup \in Setups
    /\ day = 1 /\ session = "before"
    /\ book = None /\ sent = None
    /\ entries = 0 /\ entryDay = 0
    /\ pc = "idle" /\ capital = 0
    /\ at = 1 /\ slots = 0 /\ candidates = {}
    /\ closing = {} /\ target = None
    /\ atEnd = FALSE /\ flatPass = FALSE

-----------------------------------------------------------------------------
(* The exits, judged before everything else *)

(* The positions a sleeve looks after: long options, short puts, or all.   *)
Managed ==
    {c \in Instruments :
        /\ book[c] # 0
        /\ setup.kind \in {"zero_dte", "convexity"} =>
               book[c] > 0 /\ Right[c] # "share"
        /\ setup.kind = "put_income" => book[c] < 0 /\ Right[c] = "put"
        /\ setup.kind = "mean_reversion" => Right[c] = "share"}

(* A pass begins on a snapshot; it closes exits and may enter what the     *)
(* sleeve leaves open.                                                     *)
Begin(exits, room, open) ==
    /\ pc = "idle"
    /\ closing' = exits
    /\ atEnd' = (session = "flat")
    /\ \E allotted \in Capitals :
           /\ capital' = allotted
           /\ IF room = 0 \/ open = {} \/ allotted = 0
              THEN pc' = "orders" /\ UNCHANGED plan
              ELSE /\ pc' = "entries"
                   /\ at' = 1 /\ slots' = room /\ candidates' = open
    /\ UNCHANGED <<setup, clock, book, target, sent, flatPass>>

(* Mutation: the release on intent that zero_dte.py 172-182 tells of.      *)
HeldUnlessClosing(exits) == NamesOf(Managed \ exits)

(* zero_dte: closing a contract does not free its name in the same pass.   *)
Held(exits) == NamesOf(Managed)

(* Momentum, the day's average price and the volume say call, put or no    *)
(* (SkipName).                                                             *)
Directions == {"call", "put"}

(* Names zero_dte may still enter: none outside the entry window, or with  *)
(* the day's entries used up when the pass begins.                         *)
RoomForZeroDte(open, today) ==
    IF session = "entry" /\ today < MaxEntries /\ open < MaxNames
    THEN MaxNames - open ELSE 0

(* Mutation: no pass forces the sleeve flat. *)
BeginZeroDteUnforced ==
    LET today == IF entryDay = day THEN entries ELSE 0
    IN  /\ setup.kind = "zero_dte"
        /\ entries' = today /\ entryDay' = day
        /\ \E exits \in SUBSET Managed :
               Begin(exits,
                     RoomForZeroDte(Cardinality(Managed \ exits), today),
                     (Underlyings \ Held(exits)) \X Directions)

(* zero_dte: brackets, and at the end of the session everything.  A day's  *)
(* count of entries starts with its first pass.                            *)
BeginZeroDte ==
    LET today == IF entryDay = day THEN entries ELSE 0
    IN  /\ setup.kind = "zero_dte"
        /\ entries' = today /\ entryDay' = day
        /\ \E exits \in SUBSET Managed :
               /\ session = "flat" => exits = Managed
               /\ Begin(exits,
                        RoomForZeroDte(Cardinality(Managed \ exits), today),
                        (Underlyings \ Held(exits)) \X Directions)

(* put_income and convexity: a name is free again when the last of its     *)
(* positions to be looked at is being closed, whatever the others are.     *)
Occupied(exits) ==
    {NamesOf(Managed \ exits) \ freed : freed \in SUBSET NamesOf(exits)}

(* put_income, _manage_open: profit, loss or time; no new writes in a      *)
(* high-vol regime.                                                        *)
BeginPutIncome ==
    /\ setup.kind = "put_income"
    /\ \E exits \in SUBSET Managed : \E occupied \in Occupied(exits) :
       \E highVol \in BOOLEAN :
           /\ \A c \in Managed : Leaving(c) => c \in exits
           /\ Begin(exits,
                    IF highVol \/ Cardinality(occupied) >= MaxNames THEN 0
                    ELSE MaxNames - Cardinality(occupied),
                    (Underlyings \ occupied) \X {"put"})
    /\ UNCHANGED memory

(* convexity: brackets, time, or momentum turned against the position; up  *)
(* to two calls where scores are high and up to two puts, or three in a    *)
(* downtrend, where they are low.                                          *)
Mixes == ((0..2) \X (0..2)) \cup ({0} \X (0..3))

BeginConvexity ==
    /\ setup.kind = "convexity"
    /\ \E exits \in SUBSET Managed : \E occupied \in Occupied(exits) :
       \E longs, shorts \in SUBSET (Underlyings \ occupied) :
           /\ longs \cap shorts = {}
           /\ <<Cardinality(longs), Cardinality(shorts)>> \in Mixes
           /\ \A c \in Managed :
                  \/ Leaving(c)
                  \/ Right[c] = "call" /\ Under[c] \in shorts
                  \/ Right[c] = "put" /\ Under[c] \in longs
                  => c \in exits
           /\ Begin(exits, Len(Names), (longs \X {"call"}) \cup (shorts \X {"put"}))
    /\ UNCHANGED memory

(* momentum: what has left the top, or nears its expiry, is closed; where  *)
(* no name can be scored the pass says nothing at all.                     *)
BeginMomentum ==
    /\ setup.kind \in {"momentum_equity", "momentum_options"}
    /\ \/ Begin({}, 0, {})
       \/ \E top \in SUBSET Underlyings :
              /\ Cardinality(top) <= MaxNames
              /\ Begin({c \in Managed : Under[c] \notin top \/ Leaving(c)},
                       Len(Names),
                       top \X {IF setup.kind = "momentum_equity"
                               THEN "share" ELSE "call"})
    /\ UNCHANGED memory

(* Mutation: names being closed leave their slots. *)
BeginMeanReversionFreeing ==
    /\ setup.kind = "mean_reversion"
    /\ \E exits \in SUBSET Managed, washouts \in SUBSET Underlyings :
           LET held == NamesOf(Managed \ exits)
           IN  /\ washouts \cap held = {}
               /\ Cardinality(washouts) <= MaxNames - Cardinality(held)
               /\ Begin(exits, Len(Names), washouts \X {"share"})
    /\ UNCHANGED memory

(* mean_reversion: exits as the z-score recovers; entries, unless in high  *)
(* vol, as far as the names held at the start, closing ones too, leave     *)
(* slots.                                                                  *)
BeginMeanReversion ==
    /\ setup.kind = "mean_reversion"
    /\ \E exits \in SUBSET Managed, washouts \in SUBSET Underlyings :
           LET held == NamesOf({c \in Instruments : book[c] # 0})
           IN  /\ washouts \cap held = {}
               /\ Cardinality(washouts) <= MaxNames - Cardinality(held)
                    \/ washouts = {}
               /\ Begin(exits, Len(Names), washouts \X {"share"})
    /\ UNCHANGED memory

-----------------------------------------------------------------------------
(* The entries, name by name *)

(* The strikes of the puts that are short. *)
Obligation(c, n) == IF Right[c] = "put" /\ n < 0 THEN Strike[c] * Abs(n) ELSE 0

Committed(qty) ==
    SumFunctionOnSet([c \in Instruments |-> Obligation(c, qty[c])], Instruments)

(* Contracts a signal of this pass asks for. *)
Asked == [c \in Instruments |-> -(Abs(target[c]) \div 1001)]

(* put_income: cash for puts is what its share of the capital leaves after *)
(* the puts it has, closing ones too, and those of this pass.              *)
Secured == (SecuredPct * capital) \div 100

(* Mutation: puts that are being closed are not counted. *)
BudgetOfKept ==
    Secured - Committed([c \in Instruments |->
                            IF c \in closing THEN 0 ELSE book[c]])
            - Committed(Asked)

Budget == Secured - Committed(book) - Committed(Asked)

(* A contract that may be signalled now: one of the name in turn, of a     *)
(* right the pass looks for, and in the window of expirations.             *)
Offered(c) ==
    /\ Under[c] = Names[at] /\ <<Under[c], Right[c]>> \in candidates
    /\ IF setup.kind = "zero_dte" THEN Dte(c) = 0 ELSE Enterable(c)
    /\ setup.kind = "momentum_options" => book[c] = 0
    /\ c \in closing => setup.repicks

(* The target positions a signal on it may state, in thousandths: a weight *)
(* of n contracts carries 1.001 against flooring.                          *)
Sizes(c) ==
    IF setup.kind = "put_income"
    THEN LET fit == {n \in 1..PerNameCap : Strike[c] * n <= Budget}
         IN  {-1001 * n : n \in {m \in fit : \A k \in fit : k <= m}}
    ELSE IF Right[c] = "share" THEN Targets ELSE {1001 * n : n \in Lots}

EnterName(c) ==
    /\ pc = "entries" /\ at <= Len(Names) /\ slots > 0
    /\ Offered(c)
    /\ \E t \in Sizes(c) : target' = [target EXCEPT ![c] = t]
    /\ slots' = slots - 1
    /\ entries' = IF setup.kind = "zero_dte" THEN entries + 1 ELSE entries
    /\ at' = at + 1
    /\ UNCHANGED <<setup, clock, book, entryDay, pc, capital, candidates,
                   closing, sent, atEnd, flatPass>>

(* Held, no chain, no direction, no contract, no yield, too dear.          *)
SkipName ==
    /\ pc = "entries" /\ at <= Len(Names) /\ slots > 0
    /\ at' = at + 1
    /\ UNCHANGED <<setup, clock, book, memory, pc, capital, slots, candidates,
                   signals, sent, atEnd, flatPass>>

EntriesDone ==
    /\ pc = "entries" /\ (at > Len(Names) \/ slots = 0)
    /\ pc' = "orders"
    /\ at' = 1 /\ slots' = 0 /\ candidates' = {}
    /\ UNCHANGED <<setup, clock, book, memory, capital, signals, sent, atEnd,
                   flatPass>>

-----------------------------------------------------------------------------
(* The orders, signal by signal, and their fills *)

Trade(c, q) == sent' = [sent EXCEPT ![c] = @ + q]

(* What gets through of an order: no order for a contract that expired.    *)
GetsThrough(c, qty) ==
    IF Live(c) THEN {q \in -Abs(qty)..Abs(qty) : q * qty >= 0} ELSE {0}

(* A CLOSE signal: the whole position of the sleeve's book, which fills of *)
(* this pass do not reach before its end.                                  *)
CloseOrder(c) ==
    /\ pc = "orders" /\ c \in closing
    /\ closing' = closing \ {c}
    /\ \E q \in GetsThrough(c, -book[c]) :
           /\ setup.closes /\ Live(c) => q = -book[c]
           /\ Trade(c, q)
    /\ UNCHANGED <<setup, clock, book, memory, pc, capital, plan, target, atEnd,
                   flatPass>>

(* _signal_to_order: nothing within 12% of the target, else the difference *)
(* in whole contracts or shares.                                           *)
OrderQty(t, held) ==
    LET delta == t - 1000 * held
    IN  IF held # 0 /\ 100 * Abs(delta) < 12 * Abs(t) THEN 0
        ELSE (Abs(delta) \div 1000) * IF delta > 0 THEN 1 ELSE -1

TargetOrder(c) ==
    /\ pc = "orders" /\ closing = {} /\ target[c] # 0
    /\ target' = [target EXCEPT ![c] = 0]
    /\ \E q \in GetsThrough(c, OrderQty(target[c], book[c])) :
           /\ capital = 0 => q = 0
           /\ Trade(c, q)
    /\ UNCHANGED <<setup, clock, book, memory, pc, capital, plan, closing, atEnd,
                   flatPass>>

(* Mutation: what was filled is filled again by the next pass. *)
EndPassKeeping ==
    /\ pc = "orders" /\ closing = {} /\ target = None
    /\ book' = Account
    /\ flatPass' = (flatPass \/ atEnd)
    /\ pc' = "idle"
    /\ capital' = 0 /\ atEnd' = FALSE
    /\ UNCHANGED <<setup, clock, memory, plan, signals, sent>>

(* The fills reach the sleeve's book. *)
EndPass ==
    /\ pc = "orders" /\ closing = {} /\ target = None
    /\ book' = Account
    /\ sent' = None
    /\ flatPass' = (flatPass \/ atEnd)
    /\ pc' = "idle"
    /\ capital' = 0 /\ atEnd' = FALSE
    /\ UNCHANGED <<setup, clock, memory, plan, signals>>

-----------------------------------------------------------------------------
(* Time and restarts *)

(* The session goes on, in the middle of a pass too. *)
SessionMoves ==
    /\ setup.kind = "zero_dte"
    /\ \E i \in 1..(Len(Sessions) - 1) :
           session = Sessions[i] /\ session' = Sessions[i + 1]
    /\ UNCHANGED <<setup, day, book, memory, pc, capital, plan, signals, sent,
                   atEnd, flatPass>>

(* Contracts that expired are gone from the account but stay in the        *)
(* sleeve's book: no fill tells it.                                        *)
NextDay ==
    /\ pc = "idle" /\ day < LastDay
    /\ setup.closes => \A c \in Instruments : book[c] # 0 => ~Leaving(c)
    /\ day' = day + 1
    /\ session' = "before"
    /\ flatPass' = FALSE
    /\ UNCHANGED <<setup, book, memory, pc, capital, plan, signals, sent, atEnd>>

(* A restart between passes: the book is rebuilt from the account, the     *)
(* day's count of entries is lost.                                         *)
Restart ==
    /\ pc = "idle"
    /\ book' = [c \in Instruments |-> IF Live(c) THEN book[c] ELSE 0]
    /\ entries' = 0 /\ entryDay' = 0
    /\ UNCHANGED <<setup, clock, pc, capital, plan, signals, sent, atEnd, flatPass>>

Pass ==
    \/ BeginZeroDte \/ BeginPutIncome \/ BeginConvexity
    \/ BeginMomentum \/ BeginMeanReversion
    \/ \E c \in Instruments : EnterName(c)
    \/ SkipName \/ EntriesDone
    \/ \E c \in Instruments : CloseOrder(c) \/ TargetOrder(c)
    \/ EndPass

Next == Pass \/ SessionMoves \/ NextDay \/ Restart

Spec == Init /\ [][Next]_vars

-----------------------------------------------------------------------------
(* Properties *)

TypeOK ==
    /\ setup \in Setups
    /\ day \in 1..(LastDay + 1) /\ session \in {Sessions[i] : i \in DOMAIN Sessions}
    /\ {book, sent, target} \subseteq [Instruments -> Int]
    /\ entries \in Nat /\ entryDay \in 0..day
    /\ pc \in {"idle", "entries", "orders"}
    /\ capital \in Capitals \cup {0}
    /\ at \in 1..(Len(Names) + 1) /\ slots \in Nat
    /\ candidates \subseteq Underlyings \X {"call", "put", "share"}
    /\ closing \subseteq Instruments
    /\ {atEnd, flatPass} \subseteq BOOLEAN
    /\ pc = "idle" => closing = {} /\ target = None /\ sent = None

(* A sleeve never comes to hold what it does not look after: put_income no *)
(* long put, the others nothing short ("this sleeve never violates the     *)
(* naked-short ban", convexity.py 10-11), whatever of its orders gets      *)
(* through.  Where the chain offers the contract being closed, put_income  *)
(* and convexity are excepted: the code sizes the entry against the        *)
(* position it has just closed.                                            *)
SignKept ==
    ~(setup.repicks /\ setup.kind \in {"put_income", "convexity"}) =>
        \A c \in Instruments :
            IF setup.kind = "put_income" THEN Account[c] <= 0 ELSE Account[c] >= 0

(* A sleeve of one contract a name has no two of them, zero_dte even if    *)
(* its closes are refused (the straddle of zero_dte.py 172-182), the       *)
(* others while closes go through.                                         *)
OneContractPerName ==
    \/ setup.kind = "zero_dte"
    \/ setup.kind \in {"put_income", "convexity"} /\ setup.closes /\ ~setup.repicks
    => \A c, d \in Instruments :
           c # d /\ Under[c] = Under[d] /\ Live(c) /\ Live(d) =>
               Account[c] = 0 \/ Account[d] = 0

(* No more names than the sleeve's limit, mean_reversion even if its       *)
(* closes are refused, the others while closes go through.                 *)
NamesCapped ==
    \/ setup.kind = "mean_reversion"
    \/ setup.kind # "convexity" /\ setup.closes /\ ~setup.repicks
    => Cardinality(NamesOf({c \in Instruments : Live(c) /\ Account[c] # 0}))
           <= MaxNames

(* A write never takes the strikes the sleeve is liable for above its      *)
(* share of the pass's capital ("Cash committed to strikes capped at       *)
(* secured_cash_fraction", put_income.py 12), whatever of the closes and   *)
(* the writes before it got through.                                       *)
CollateralCapped ==
    [][setup.kind = "put_income" /\ Committed(Account)' > Committed(Account)
           => Committed(Account)' <= Secured]_vars

(* zero_dte never holds a contract into the bell (zero_dte.py 34): where   *)
(* closes go through, the first whole pass that sees the end of the        *)
(* session leaves nothing open, and nothing is opened after it.            *)
FlatBeforeClose ==
    setup.kind = "zero_dte" /\ setup.closes /\ flatPass =>
        \A c \in Instruments : Live(c) => Account[c] = 0
=============================================================================
