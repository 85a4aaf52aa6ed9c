----------------------------- MODULE WalkForward ----------------------------
(***************************************************************************)
(* The windows of walk-forward validation and its verdict of overfitting   *)
(* (backtest/walkforward.py).  Dates are days; the engine's filters take   *)
(* both ends of a segment in.  Sharpe ratios are in tenths.                *)
(***************************************************************************)
EXTENDS Integers, Sequences

CONSTANTS
    Horizon,      \* ranges of up to this many days are considered (bound)
    MaxSpan,      \* and train, test and purge spans up to this    (bound)
    Sharpes       \* Sharpe ratios to consider, in tenths

ASSUME WalkForwardAssumption ==
    {Horizon, MaxSpan} \subseteq Nat /\ Sharpes \subseteq Int

(* Mutation: the test segment ends a day later. *)
WindowSharing(cursor, train, test, purge) ==
    [trainStart |-> cursor,
     trainEnd   |-> cursor + train,
     testStart  |-> cursor + train + purge,
     testEnd    |-> cursor + train + purge + test]

(* A window: the test segment ends one day short, so that the next one     *)
(* does not share its last day.                                            *)
Window(cursor, train, test, purge) ==
    [trainStart |-> cursor,
     trainEnd   |-> cursor + train,
     testStart  |-> cursor + train + purge,
     testEnd    |-> cursor + train + purge + test - 1]

(* make_windows: the cursor moves by a test segment while the window fits. *)
MakeWindows(start, end, train, test, purge) ==
    LET from[cursor \in Nat] ==
            LET w == Window(cursor, train, test, purge)
            IN  IF w.testEnd > end THEN <<>> ELSE <<w>> \o from[cursor + test]
    IN  from[start]

(* overfitting_check: the in-sample Sharpe is high, the other does not     *)
(* back it up.                                                             *)
OverfittingCheck(is, oos) ==
    \/ is > 10 /\ oos < 0
    \/ is > 5 /\ oos > 0 /\ is > 2 * oos
    \/ is > 20 /\ 2 * oos < is

-----------------------------------------------------------------------------
(* No window judges a day it trained on (given a purge, else the two share *)
(* a day), no day is judged twice, and judged days follow each other       *)
(* without a gap up to the last window that fits.                          *)
WindowsTile ==
    \A end \in 0..Horizon, train, test \in 1..MaxSpan, purge \in 0..MaxSpan :
        LET ws == MakeWindows(0, end, train, test, purge)
        IN  /\ \A i \in DOMAIN ws :
                   /\ purge > 0 => ws[i].trainEnd < ws[i].testStart
                   /\ ws[i].testStart <= ws[i].testEnd /\ ws[i].testEnd <= end
                   /\ i > 1 => ws[i].testStart = ws[i - 1].testEnd + 1
            /\ end - (train + purge) - Len(ws) * test < test - 1

(* Among results above zero a worse one out of sample never takes the flag *)
(* away ("flags when IS >> OOS", walkforward.py 3).  At zero or below the  *)
(* code does take it away, against its docstring ("flags when in-sample    *)
(* looks great and out-of-sample doesn't back it up", 52-53): 0.8 with 0.2 *)
(* is flagged, with -1 it is not.                                          *)
FlagIsMonotone ==
    \A is, better, worse \in Sharpes :
        0 < worse /\ worse <= better /\ OverfittingCheck(is, better)
            => OverfittingCheck(is, worse)
=============================================================================
