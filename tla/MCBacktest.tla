------------------------------ MODULE MCBacktest -----------------------------
(***************************************************************************)
(* Instances of Backtest for TLC.                                          *)
(***************************************************************************)
EXTENDS Backtest, WalkForward

Long  == {0, 100}
Short == {-100, 50}

Setup(trades, weights, injected, fallback) ==
    [trades |-> trades, weights |-> weights, repicks |-> FALSE,
     allocator |-> injected, gate |-> injected, fallback |-> fallback]

(* The stock alone and the call alone, long with what may be injected and  *)
(* short without; a call off its chain without a price; both together; and *)
(* a call that is closed and picked again, or picked twice.                *)
SomeSetups ==
    {Setup({"S"}, Long, TRUE, TRUE), Setup({"S"}, Short, FALSE, TRUE),
     Setup({"C"}, Long, TRUE, TRUE), Setup({"C"}, Short, FALSE, TRUE),
     Setup({"C"}, Long, FALSE, FALSE), Setup({"S", "C"}, {50}, FALSE, TRUE),
     [Setup({"C"}, {50}, FALSE, TRUE) EXCEPT !.repicks = TRUE, !.allocator = TRUE]}

(* Sharpe ratios around the limits of 0.5, 1 and 2, and ratios of 2. *)
MCSharpes == {-10, 0, 1, 2, 3, 5, 6, 9, 10, 11, 12, 20, 21, 30}

(* Before the engine runs its first segment: no day is trained on and      *)
(* judged in one window, or judged twice or left out; and while the result *)
(* out of sample is above zero the flag does not go away as it gets worse, *)
(* which it does at zero and below (make_windows and overfitting_check).   *)
(* Neither depends on the state: once is enough.                           *)
WalkForwardSound ==
    pc = "dawn" /\ day = 0 => WindowsTile /\ FlagIsMonotone
=============================================================================
