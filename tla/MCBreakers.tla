------------------------------ MODULE MCBreakers -----------------------------
(***************************************************************************)
(* Instances of Breakers for TLC.                                          *)
(***************************************************************************)
EXTENDS Breakers

Quiet == [orders |-> FALSE, moves |-> FALSE, llm |-> FALSE, faults |-> FALSE]

(* One thing at a time: trading, a moving account, the LLM sleeve; and a   *)
(* moving account with a broker that does not answer.                      *)
EachOnItsOwn ==
    {[Quiet EXCEPT !.orders = TRUE], [Quiet EXCEPT !.moves = TRUE],
     [Quiet EXCEPT !.llm = TRUE],
     [Quiet EXCEPT !.moves = TRUE, !.faults = TRUE]}

(* A broker that does not always answer, and nothing else.                 *)
BrokerFaults == {[Quiet EXCEPT !.moves = TRUE, !.faults = TRUE]}
=============================================================================
