----------------------------- MODULE ForkChoice -----------------------------
(***************************************************************************)
(* What a node promises about its chain, whatever threads execute blocks   *)
(* and whenever it is restarted: a block is executed on an executed        *)
(* parent, its total difficulty is its parent's plus its own and never     *)
(* changes, and the persisted head only ever moves to a strictly heavier   *)
(* executed block.                                                         *)
(***************************************************************************)
EXTENDS BlockTree

VARIABLES
    block_info,  \* total difficulty of the executed blocks, 0 for the others
    head         \* the head a restart of the node finds

choiceVars == <<block_info, head>>

Init ==
    /\ block_info = [b \in Block |-> IF b = Genesis THEN Difficulty[Genesis] ELSE 0]
    /\ head = Genesis

Execute(b) ==
    /\ b \in Valid
    /\ block_info[b] = 0
    /\ block_info[Parent[b]] # 0
    /\ block_info' = [block_info EXCEPT ![b] = block_info[Parent[b]] + Difficulty[b]]
    /\ UNCHANGED head

SelectHead(b) ==
    /\ block_info[b] > block_info[head]
    /\ head' = b
    /\ UNCHANGED block_info

Next == \E b \in Block : Execute(b) \/ SelectHead(b)

Spec == Init /\ [][Next]_choiceVars

=============================================================================
