----------------------------- MODULE KillPromise -----------------------------
(***************************************************************************)
(* What the kill switch promises an operator, with no threads, locks or    *)
(* crashes: an account with some exposure, a switch, and what may still    *)
(* happen to the account while the switch is engaged (live/runner.py and   *)
(* risk/kill_switch.py, at the kill checks and the flatten).  RunLoop is   *)
(* shown to implement it.                                                  *)
(***************************************************************************)
EXTENDS Naturals

CONSTANTS
    MaxExposure,    \* most orders and positions at the broker      (bound)
    MaxLate         \* most orders that slip out of one engagement

VARIABLES
    engaged,    \* the switch
    loose,      \* orders working, and positions nobody liquidates
    closing,    \* positions being liquidated
    sweep,      \* how the last flatten of this engagement ended
    late        \* orders that slipped out during this engagement

vars == <<engaged, loose, closing, sweep, late>>

Init ==
    /\ engaged = FALSE
    /\ loose = 0
    /\ closing = 0
    /\ sweep = "none"
    /\ late = 0

(* Exposure may move between loose and closing, and shrink; never grow.    *)
NoGrowth ==
    /\ loose' \in Nat
    /\ closing' \in Nat
    /\ loose' + closing' <= loose + closing

(* Released, the strategies trade as they like.                            *)
Trade ==
    /\ ~engaged
    /\ loose' \in 0..MaxExposure
    /\ closing' \in 0..MaxExposure
    /\ UNCHANGED <<engaged, sweep, late>>

Engage ==
    /\ ~engaged
    /\ engaged' = TRUE
    /\ UNCHANGED <<loose, closing, sweep, late>>

(* Engaged, orders fill or lapse.  While a flatten stands, a position      *)
(* being liquidated does not come loose again.                             *)
Shrink ==
    /\ engaged
    /\ NoGrowth
    /\ sweep = "done" => loose' <= loose
    /\ UNCHANGED <<engaged, sweep, late>>

(* Only an order that was already being sent makes exposure grow.          *)
LateOrder ==
    /\ engaged
    /\ late < MaxLate
    /\ late' = late + 1
    /\ loose' = loose + 1
    /\ UNCHANGED <<engaged, closing, sweep>>

(* A flatten leaves nothing loose...                                       *)
Flatten ==
    /\ engaged
    /\ NoGrowth
    /\ loose' = 0
    /\ sweep' = "done"
    /\ UNCHANGED <<engaged, late>>

(* ... or it fails, or no longer stands: another cancels its liquidations, *)
(* or the broker drops one.                                                *)
Unswept ==
    /\ engaged
    /\ NoGrowth
    /\ sweep' = "failed"
    /\ UNCHANGED <<engaged, late>>

Release ==
    /\ engaged
    /\ engaged' = FALSE
    /\ sweep' = "none"
    /\ late' = 0
    /\ UNCHANGED <<loose, closing>>

Next ==
    \/ Trade \/ Engage \/ Shrink \/ LateOrder \/ Flatten \/ Unswept \/ Release

Spec == Init /\ [][Next]_vars
=============================================================================
