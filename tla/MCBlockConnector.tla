-------------------------- MODULE MCBlockConnector --------------------------
(***************************************************************************)
(* BlockConnector on a small block tree:                                   *)
(*                                                                         *)
(*        g --- a1 --- a2 --- a3                                           *)
(*         \                                                               *)
(*          b1               x1 is a child of a1 that does not execute     *)
(*                                                                         *)
(* b1 is heavier than a1, as heavy as a1 and a2 together and lighter than  *)
(* a3's chain: a tie, an overtaking branch and an overtaking extension.    *)
(***************************************************************************)
EXTENDS BlockConnector

CONSTANTS g, a1, a2, a3, b1, x1

MCBlock == {g, a1, a2, a3, b1, x1}

MCGenesis == g

MCParent == [b \in MCBlock |->
    CASE b \in {g, a1, b1} -> g [] b \in {a2, x1} -> a1 [] b = a3 -> a2]

MCNumber == [b \in MCBlock |->
    CASE b = g -> 0 [] b \in {a1, b1} -> 1 [] b \in {a2, x1} -> 2 [] b = a3 -> 3]

MCDifficulty == [b \in MCBlock |-> IF b = b1 THEN 2 ELSE 1]

MCChainTo[b \in MCBlock] ==
    IF b = g THEN <<g>> ELSE Append(MCChainTo[MCParent[b]], b)

MCValid == MCBlock \ {g, x1}

=============================================================================
