----------------------------- MODULE BlockTree -----------------------------
(***************************************************************************)
(* The blocks a node can meet, and the pure algorithms of BlockChain and   *)
(* WriteBlockChainService over them.  A block is a model value; of its     *)
(* header only parent_hash, number and difficulty are kept.  A chain is    *)
(* identified by its head block: chain.rs builds every BlockChain from a   *)
(* head whose block accumulator lists the whole path from genesis.         *)
(***************************************************************************)
EXTENDS Integers, Sequences

CONSTANTS
    Block,        \* every block any peer, miner or sync task can offer
    Genesis,      \* the genesis block, executed when the node is initialised
    Parent,       \* header.parent_hash()
    Number,       \* header.number()
    Difficulty,   \* header.difficulty()
    Valid,        \* the blocks that verify and execute on their parent
    ChainTo       \* the leaves of the block accumulator of the chain to a head

(* Verification checks a valid block's number against its parent's.  The   *)
(* accumulator of a chain is the parent's with the block's id appended:    *)
(* block_accumulator.append(&[block_id]).                                  *)
ASSUME BlockTreeAssumption ==
    /\ Genesis \in Block
    /\ Valid \subseteq Block \ {Genesis}
    /\ Parent \in [Block -> Block]
    /\ Parent[Genesis] = Genesis
    /\ Number \in [Block -> Nat]
    /\ Difficulty \in [Block -> Nat \ {0}]
    /\ Number[Genesis] = 0
    /\ \A b \in Valid : Number[b] = Number[Parent[b]] + 1
    /\ ChainTo \in [Block -> Seq(Block)]
    /\ ChainTo[Genesis] = <<Genesis>>
    /\ \A b \in Block \ {Genesis} : ChainTo[b] = Append(ChainTo[Parent[b]], b)

(* BlockChain::get_hash_by_number reads leaf number n of that accumulator. *)
get_hash_by_number(head, n) == ChainTo[head][n + 1]

Min2(m, n) == IF m < n THEN m ELSE n

(* BlockChain::find_ancestor: the numbers in (0..min_number).rev() at      *)
(* which the two chains agree; the loop stops at the largest one.  The     *)
(* range excludes min_number itself.  {} is the None of the code.          *)
CommonNumbers(head, another) ==
    {n \in 0 .. Min2(Number[head], Number[another]) - 1 :
        get_hash_by_number(head, n) = get_hash_by_number(another, n)}

find_ancestor(head, another) ==
    LET common == CommonNumbers(head, another)
    IN  {get_hash_by_number(head, n) : n \in {m \in common : \A k \in common : k <= m}}

(* Mutant: the block next to "until" is missed.                            *)
find_blocks_until_Short(from, until, max_size) ==
    LET count == Min2(Number[from] - Number[until] - 1, max_size)
    IN  SubSeq(ChainTo[from], Number[from] + 2 - count, Number[from] + 1)

(* WriteBlockChainService::find_blocks_until: walk the parents of "from"   *)
(* down to "until" (excluded), keep at most max_size, oldest first.        *)
find_blocks_until(from, until, max_size) ==
    LET count == Min2(Number[from] - Number[until], max_size)
    IN  SubSeq(ChainTo[from], Number[from] + 2 - count, Number[from] + 1)

=============================================================================
