----------------------------- MODULE ChainStore -----------------------------
(***************************************************************************)
(* The part of starcoin_storage::Storage that block execution writes.      *)
(* Every write of DBStorage is a synchronous put, so what a finished call  *)
(* wrote survives a crash; two calls are two separate writes.  The store   *)
(* is shared by the block connector and by the sync tasks, and both write  *)
(* a block in the order of BlockChain::execute_block_and_save: state and   *)
(* accumulator nodes, the block, its block info.                           *)
(***************************************************************************)
EXTENDS BlockTree

VARIABLES
    flushed,     \* blocks whose state and accumulator nodes are on disk
    stored,      \* blocks (header, body, transactions) on disk
    block_info,  \* total difficulty in the saved BlockInfo, 0 when absent
    failed,      \* the failed block store
    startup      \* StartupInfo.main on disk

storeVars == <<flushed, stored, block_info, failed, startup>>

(* Genesis::init_and_check_storage executes the genesis block and saves    *)
(* it as the startup info before any service is started.                   *)
StoreInit ==
    /\ flushed = {Genesis}
    /\ stored = {Genesis}
    /\ block_info = [b \in Block |-> IF b = Genesis THEN Difficulty[Genesis] ELSE 0]
    /\ failed = {}
    /\ startup = Genesis

block_exist(b) == block_info[b] # 0

(* Mutant: the nodes stay in memory.                                       *)
FlushNodes_Skipped(b) == UNCHANGED storeVars

(* statedb.flush, txn_accumulator.flush, block_accumulator.flush           *)
FlushNodes(b) ==
    /\ flushed' = flushed \cup {b}
    /\ UNCHANGED <<stored, block_info, failed, startup>>

(* BlockChain::save up to storage.commit_block: events, transaction infos, *)
(* transactions and the block itself.                                      *)
commit_block(b) ==
    /\ stored' = stored \cup {b}
    /\ UNCHANGED <<flushed, block_info, failed, startup>>

(* Mutant: the sign of the block's difficulty is lost.                     *)
save_block_info_Minus(b, parent) ==
    /\ block_info' = [block_info EXCEPT ![b] = block_info[parent] - Difficulty[b]]
    /\ UNCHANGED <<flushed, stored, failed, startup>>

(* storage.save_block_info with the total difficulty of the chain the      *)
(* block was executed on plus the block's own difficulty.                  *)
save_block_info(b, parent) ==
    /\ block_info' = [block_info EXCEPT ![b] = block_info[parent] + Difficulty[b]]
    /\ UNCHANGED <<flushed, stored, failed, startup>>

save_failed_block(b) ==
    /\ failed' = failed \cup {b}
    /\ UNCHANGED <<flushed, stored, block_info, startup>>

save_startup_info(b) ==
    /\ startup' = b
    /\ UNCHANGED <<flushed, stored, block_info, failed>>

StoreTypeOK ==
    /\ flushed \subseteq Block
    /\ stored \subseteq Block
    /\ block_info \in [Block -> Nat]
    /\ failed \subseteq Block
    /\ startup \in Block

=============================================================================
