------------------------------ MODULE MCFillBook -----------------------------
(***************************************************************************)
(* Instances of FillBook for TLC.                                          *)
(***************************************************************************)
EXTENDS FillBook

(* Either adapter on either kind of day with nothing going wrong, and the  *)
(* live adapter on an expiry day with everything going wrong.              *)
AllSetups ==
    {e \in SetupType : e.quiet /\ ~e.faults} \cup
    {[broker |-> "alpaca", expires |-> TRUE, quiet |-> FALSE, faults |-> TRUE]}

(* The day a contract expires, and nothing going wrong.                    *)
ExpiryDay == {[broker |-> "sim", expires |-> TRUE,
               quiet |-> TRUE, faults |-> FALSE]}
=============================================================================
