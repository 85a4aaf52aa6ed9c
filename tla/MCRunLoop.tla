------------------------------ MODULE MCRunLoop ------------------------------
(***************************************************************************)
(* Instances of RunLoop for TLC.                                           *)
(***************************************************************************)
EXTENDS RunLoop, TLC

(* Dashboard threads are interchangeable (safety runs only). *)
ClientSymmetry == Permutations(Clients)
=============================================================================
