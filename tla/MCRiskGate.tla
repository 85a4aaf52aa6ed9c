------------------------------ MODULE MCRiskGate -----------------------------
(***************************************************************************)
(* An instance of RiskGate for TLC: two calls of one expiration, and puts  *)
(* of two strikes and two expirations.                                     *)
(***************************************************************************)
EXTENDS RiskGate, TLC

CONSTANTS call1, call2, put1, put2, putLate

MCContracts == {call1, call2, put1, put2, putLate}

MCRight == [c \in MCContracts |-> IF c \in {call1, call2} THEN "call" ELSE "put"]

MCExpiry == [c \in MCContracts |-> IF c = putLate THEN "late" ELSE "soon"]

MCStrike == [c \in MCContracts |-> IF c \in {call2, put2} THEN 12 ELSE 10]

(* One lot or contract: bought or sold of the shares, a call and a put,    *)
(* only written of the others.  Both call verticals, a put vertical, a     *)
(* write of two put groups at once, and share orders above the size limit. *)
Single == {[i \in {j} |-> q] : j \in {call1, put1, Shares}, q \in {-1, 1}}
    \cup {[i \in {j} |-> -1] : j \in {call2, put2, putLate}}
Multi == {call1 :> 1 @@ call2 :> -1, call1 :> -1 @@ call2 :> 1,
          put1 :> 1 @@ put2 :> -1, put1 :> -1 @@ putLate :> -1}
Bulk == {Shares :> 2, Shares :> -2}

MCOrders == Single \cup Multi \cup Bulk

MCPrices == [i \in MCContracts \cup {Shares} |->
    IF i = Shares THEN {10, 14} ELSE {2}]

ASSUME MCOrdersSell == WritersSell
=============================================================================
