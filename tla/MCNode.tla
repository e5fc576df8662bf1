------------------------------- MODULE MCNode -------------------------------
(***************************************************************************)
(* Values for the constants of the nodes and of the chain beside them.     *)
(***************************************************************************)
EXTENDS NodeProperties

CONSTANTS h1, h2

TenCoins == { [denom |-> "jct", amount |-> 10] }

OneThread  == { [start |-> 1, end |-> 1, threads |-> 1] }
TwoThreads == { [start |-> 1, end |-> 2, threads |-> 2] }

OneFile    == {{1}}
RevealOne  == { << [file |-> 1, hash |-> h2] >> }
VerifyAgree == { 1 :> h1 }
=============================================================================
