------------------------------ MODULE MCSleeves ------------------------------
(***************************************************************************)
(* An instance of Sleeves for TLC: two names with contracts of the day,    *)
(* the next day and the last but one, a third name with shares and         *)
(* contracts of the day only.                                              *)
(***************************************************************************)
EXTENDS Sleeves, Allocation

CONSTANTS shareA, shareB, shareC, putA2, putA4, lowPutA4, callA2, putB4,
          dayCallA, dayPutA, dayCallB, dayCallC

MCNames == <<"A", "B", "C">>

Shares    == {shareA, shareB, shareC}
Puts      == {putA2, putA4, lowPutA4, putB4, dayPutA}
OnB       == {shareB, putB4, dayCallB}
OnC       == {shareC, dayCallC}
DayOnes   == {dayCallA, dayPutA, dayCallB, dayCallC}
NextOnes  == {callA2, putA2}

MCInstruments ==
    Shares \cup Puts \cup OnB \cup OnC \cup DayOnes \cup NextOnes

MCUnder == [c \in MCInstruments |->
    IF c \in OnB THEN "B" ELSE IF c \in OnC THEN "C" ELSE "A"]

MCRight == [c \in MCInstruments |->
    IF c \in Shares THEN "share" ELSE IF c \in Puts THEN "put" ELSE "call"]

MCStrike == [c \in MCInstruments |-> IF c \in OnB THEN 3 ELSE IF c = lowPutA4 THEN 1 ELSE 2]

MCExpiry == [c \in MCInstruments |->
    IF c \in DayOnes THEN 1 ELSE IF c \in NextOnes THEN 2 ELSE 4]

Calm(kind)      == [kind |-> kind, closes |-> TRUE, repicks |-> FALSE]
Refusing(kind)  == [kind |-> kind, closes |-> FALSE, repicks |-> FALSE]
Repicking(kind) == [kind |-> kind, closes |-> FALSE, repicks |-> TRUE]

(* Every sleeve, and all but convexity (too many states: the proofs have   *)
(* it) with refused closes.  The chain may offer the contract being closed *)
(* wherever the properties do not except that.                             *)
SomeSetups ==
    {Calm(k) : k \in Kinds} \cup {Refusing("put_income")}
    \cup {Repicking(k) : k \in Kinds \ {"convexity"}}

(* The sleeves' capital: three of them, split evenly, unevenly, and with   *)
(* one of no base weight.                                                  *)
MCBaseWeights ==
    {[s \in Funded |-> 1], [s \in Funded |-> 0],
     [s \in Funded |-> IF s = "zero_dte" THEN 2 ELSE 1],
     [s \in Funded |-> IF s = "zero_dte" THEN 0 ELSE 1]}

MCScores == {-2, 0, 1, 5}
MCEquities == {-1, 1}

(* Before the first pass, whatever the allocator is asked: it hands out no *)
(* more than the equity, keeps what each sleeve gets within floor and cap  *)
(* as far as the volatility target leaves it, and never gives the better   *)
(* of two equals less (CapitalAllocator.allocate).  That does not depend   *)
(* on the state: once is enough.                                           *)
CapitalSplitSound ==
    setup = Calm("momentum_equity") /\ pc = "idle" /\ day = 1 /\ session = "before"
        /\ entryDay = 0 /\ book = None
    => SplitSound
=============================================================================
