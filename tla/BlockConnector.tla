--------------------------- MODULE BlockConnector ---------------------------
(***************************************************************************)
(* BlockConnectorService and its WriteBlockChainService: the actor that    *)
(* chooses the node's main chain.  Its mailbox receives blocks mined by    *)
(* this node, blocks relayed by peers and blocks a sync task has already   *)
(* executed.  It runs beside the sync tasks, which execute blocks on       *)
(* chains of their own and write the same store, and the process may stop  *)
(* between any two writes and start again from the store.                  *)
(***************************************************************************)
EXTENDS ChainStore, FiniteSets

CONSTANTS
    Minable,             \* the blocks this node's miner may seal
    Relayed,             \* the blocks peers may relay
    SyncTask,            \* the sync tasks whose collectors may run
    MAX_ROLL_BACK_BLOCK, \* blocks of a reorganisation told to the txpool
    MailboxCapacity,     \* ctx.set_mailbox_capacity(1024)
    Late,                \* valid blocks whose timestamp may be ahead of the clock
    StorageMayFail       \* whether a write of the store may return an error

ASSUME ConnectorAssumption ==
    /\ MAX_ROLL_BACK_BLOCK \in Nat \ {0}
    /\ MailboxCapacity \in Nat \ {0}
    /\ Minable \subseteq Valid
    /\ Relayed \subseteq Block
    /\ Late \subseteq Valid
    /\ StorageMayFail \in BOOLEAN

VARIABLES
    main,          \* head of WriteBlockChainService.main
    startup_info,  \* WriteBlockChainService.startup_info.main
    synced,        \* BlockConnectorService.is_synced()
    mailbox,       \* messages that wait for the service
    job,           \* the message in progress and the locals of its handler
    txpool,        \* the head of the last chain_new_block and NewHeadBlock
    task           \* per sync task, its collector's chain and progress

memVars == <<main, startup_info, synced, mailbox, job, txpool, task>>

vars == <<storeVars, memVars>>

Source == {"MinedBlock", "PeerNewBlock", "BlockConnectedEvent"}

Message == [source : Source, block : Block]

(* The points between which other threads run or the process may stop:     *)
(* before verification, before each write, and before the two effects of   *)
(* do_new_head that follow the save of the startup info.                   *)
Step == {"idle", "verify", "flush", "commit", "info", "select", "new_head", "txpool"}

(* A handler's locals.  on_main: the block is applied to self.main rather  *)
(* than to a branch; branch: the head of the chain it is applied to; prev: *)
(* the main head when the message was taken.                               *)
Job == [step : Step, source : Source, block : Block, branch : Block, on_main : BOOLEAN,
        enacted : Seq(Block), retracted : Seq(Block), prev : Block]

IdleJob == [step |-> "idle", source |-> "MinedBlock", block |-> Genesis, branch |-> Genesis,
            on_main |-> FALSE, enacted |-> <<>>, retracted |-> <<>>, prev |-> Genesis]

(* A sync task's chain.  current: the node's head when the task started;   *)
(* head: the head of the collector's own chain.                            *)
TaskStepName == {"idle", "fetch", "connect", "verify", "flush", "commit", "info", "notify"}

Task == [step : TaskStepName, current : Block, head : Block, block : Block,
         check_local_store : BOOLEAN]

IdleTask == [step |-> "idle", current |-> Genesis, head |-> Genesis, block |-> Genesis,
             check_local_store |-> FALSE]

Init ==
    /\ StoreInit
    /\ main = Genesis
    /\ startup_info = Genesis
    /\ synced = FALSE
    /\ mailbox = <<>>
    /\ job = IdleJob
    /\ txpool = Genesis
    /\ task = [t \in SyncTask |-> IdleTask]

-----------------------------------------------------------------------------
(* The senders.  notify is a try_send: a message for a full mailbox is     *)
(* dropped and the sender only logs it.                                    *)

Notify(message) ==
    mailbox' = IF Len(mailbox) < MailboxCapacity THEN Append(mailbox, message) ELSE mailbox

(* The miner broadcasts a block it sealed on the head that it knew.        *)
MinedBlock(b) ==
    /\ block_exist(Parent[b])
    /\ Notify([source |-> "MinedBlock", block |-> b])
    /\ UNCHANGED <<storeVars, main, startup_info, synced, job, txpool, task>>

(* The block relayer drops blocks that are in the failed block store and   *)
(* hands every other block a peer sent to the connector.                   *)
PeerNewBlock(b) ==
    /\ b \notin failed
    /\ Notify([source |-> "PeerNewBlock", block |-> b])
    /\ UNCHANGED <<storeVars, main, startup_info, synced, job, txpool, task>>

SyncStatusChange(is_synced) ==
    /\ synced # is_synced
    /\ synced' = is_synced
    /\ UNCHANGED <<storeVars, main, startup_info, mailbox, job, txpool, task>>

-----------------------------------------------------------------------------
(* connect_inner up to its first write.  The reads of the store are one    *)
(* step: block infos are only ever added.                                  *)

Take(message, step, branch, on_main, enacted) ==
    job' = [step |-> step, source |-> message.source, block |-> message.block,
            branch |-> branch, on_main |-> on_main,
            enacted |-> enacted, retracted |-> <<>>, prev |-> main]

(* Ignored: a peer's block while the node is not synchronized, or the      *)
(* block that is the head already.                                         *)
IgnoreMessage(message) ==
    /\ \/ message.source = "PeerNewBlock" /\ ~synced
       \/ message.block = main
    /\ UNCHANGED <<main, job>>

(* main.apply(block): the block extends the main head and is new.          *)
ConnectToMain(message) ==
    /\ main = Parent[message.block]
    /\ ~block_exist(message.block)
    /\ Take(message, "verify", main, TRUE, <<>>)
    /\ UNCHANGED main

(* Mutant: the block need not have been executed.                          *)
UpdateChainHead_Unexecuted(message) ==
    /\ startup_info = Parent[message.block]
    /\ main' = message.block
    /\ Take(message, "new_head", message.block, TRUE, <<message.block>>)

(* (true, None): executed before and its parent is the startup head, so    *)
(* update_chain_head moves main without executing.                         *)
UpdateChainHead(message) ==
    /\ block_exist(message.block)
    /\ startup_info = Parent[message.block]
    /\ main' = message.block
    /\ Take(message, "new_head", message.block, TRUE, <<message.block>>)

(* (true, Some(branch)): executed before, only select the head.            *)
SelectExecuted(message) ==
    /\ block_exist(message.block)
    /\ startup_info # Parent[message.block]
    /\ Take(message, "select", message.block, FALSE, <<>>)
    /\ UNCHANGED main

(* (false, Some(branch)): fork a chain at the parent and apply the block.  *)
ConnectToBranch(message) ==
    /\ ~block_exist(message.block)
    /\ main # Parent[message.block]
    /\ block_exist(Parent[message.block])
    /\ Take(message, "verify", Parent[message.block], FALSE, <<>>)
    /\ UNCHANGED main

(* (false, None): FutureBlock.  The block is not kept; for a peer's block  *)
(* the SyncService is told to check, for other sources the error is logged.*)
FutureBlock(message) ==
    /\ ~block_exist(message.block)
    /\ ~block_exist(Parent[message.block])
    /\ UNCHANGED <<main, job>>

Receive ==
    /\ job.step = "idle"
    /\ mailbox # <<>>
    /\ mailbox' = Tail(mailbox)
    /\ LET message == Head(mailbox)
       IN  \/ IgnoreMessage(message)
           \/ /\ message.source = "PeerNewBlock" => synced
              /\ message.block # main
              /\ \/ ConnectToMain(message)
                 \/ UpdateChainHead(message)
                 \/ SelectExecuted(message)
                 \/ ConnectToBranch(message)
                 \/ FutureBlock(message)
    /\ UNCHANGED <<storeVars, startup_info, synced, txpool, task>>

-----------------------------------------------------------------------------
(* BlockChain::apply: verify, execute_block_and_save, connect.             *)

jobUnchanged == UNCHANGED <<startup_info, synced, mailbox, txpool, task>>

VerifyOk ==
    /\ job.step = "verify"
    /\ job.block \in Valid
    /\ job' = [job EXCEPT !.step = "flush"]
    /\ UNCHANGED <<storeVars, main>>
    /\ jobUnchanged

(* A block that does not verify or whose execution does not match its      *)
(* header.  A valid block can fail too: its timestamp may be ahead of this *)
(* node's clock.  Only the handler of peers' blocks records the failure,   *)
(* and only when it is a ConnectBlockError.                                *)
VerifyFailed ==
    /\ job.step = "verify"
    /\ job.block \notin Valid \ Late
    /\ \/ job.source = "PeerNewBlock" /\ save_failed_block(job.block)
       \/ UNCHANGED storeVars
    /\ job' = IdleJob
    /\ UNCHANGED main
    /\ jobUnchanged

FlushJob ==
    /\ job.step = "flush"
    /\ FlushNodes(job.block)
    /\ job' = [job EXCEPT !.step = "commit"]
    /\ UNCHANGED main
    /\ jobUnchanged

CommitJob ==
    /\ job.step = "commit"
    /\ commit_block(job.block)
    /\ job' = [job EXCEPT !.step = "info"]
    /\ UNCHANGED main
    /\ jobUnchanged

(* save_block_info, then connect in memory: self.main or the branch has    *)
(* the block as its head.                                                  *)
SaveInfoJob ==
    /\ job.step = "info"
    /\ save_block_info(job.block, job.branch)
    /\ IF job.on_main
       THEN /\ main' = job.block
            /\ job' = [job EXCEPT !.step = "new_head", !.branch = job.block,
                                  !.enacted = <<job.block>>]
       ELSE /\ UNCHANGED main
            /\ job' = [job EXCEPT !.step = "select", !.branch = job.block]
    /\ jobUnchanged

-----------------------------------------------------------------------------
(* select_head *)

(* The enacted and the retracted blocks of a switch to the chain of b.     *)
(* find_ancestors_from_accumulator fails when there is no ancestor.        *)
CanFindAncestors(b) == startup_info = Parent[b] \/ find_ancestor(main, b) # {}

Enacted(b) ==
    IF startup_info = Parent[b] THEN <<b>>
    ELSE find_blocks_until(b, CHOOSE a \in find_ancestor(main, b) : TRUE, MAX_ROLL_BACK_BLOCK)

Retracted(b) ==
    IF startup_info = Parent[b] THEN <<>>
    ELSE find_blocks_until(main, CHOOSE a \in find_ancestor(main, b) : TRUE, MAX_ROLL_BACK_BLOCK)

(* Mutant: an equally heavy branch wins.                                   *)
BranchWins_Tie(b) == block_info[b] >= block_info[main]

(* Mutant: the longer branch wins, not the heavier one.                    *)
BranchWins_Longest(b) == Number[b] > Number[main]

BranchWins(b) == block_info[b] > block_info[main]

SelectHead ==
    /\ job.step = "select"
    /\ BranchWins(job.branch)
    /\ CanFindAncestors(job.branch)
    /\ main' = job.branch
    /\ job' = [job EXCEPT !.step = "new_head", !.enacted = Enacted(job.branch),
                          !.retracted = Retracted(job.branch)]
    /\ UNCHANGED storeVars
    /\ jobUnchanged

(* A lighter or equally heavy branch is only broadcast as NewBranch; a     *)
(* switch whose ancestor is not found is an error the handler logs.        *)
KeepHead ==
    /\ job.step = "select"
    /\ ~BranchWins(job.branch) \/ ~CanFindAncestors(job.branch)
    /\ job' = IdleJob
    /\ UNCHANGED <<storeVars, main>>
    /\ jobUnchanged

-----------------------------------------------------------------------------
(* do_new_head *)

(* Mutant: the startup info is only updated in memory.                     *)
UpdateStartupInfo_Unsaved ==
    /\ job.step = "new_head"
    /\ startup_info' = job.branch
    /\ job' = [job EXCEPT !.step = "txpool"]
    /\ UNCHANGED <<storeVars, main, synced, mailbox, txpool, task>>

(* update_startup_info: memory first, then the store.                      *)
UpdateStartupInfo ==
    /\ job.step = "new_head"
    /\ startup_info' = job.branch
    /\ save_startup_info(job.branch)
    /\ job' = [job EXCEPT !.step = "txpool"]
    /\ UNCHANGED <<main, synced, mailbox, txpool, task>>

(* commit_2_txpool and broadcast_new_head.                                 *)
CommitToTxpool ==
    /\ job.step = "txpool"
    /\ txpool' = job.enacted[Len(job.enacted)]
    /\ job' = IdleJob
    /\ UNCHANGED <<storeVars, main, startup_info, synced, mailbox, task>>

(* Mutant: the startup info in memory is left at the old head.             *)
StorageError_Rollback ==
    /\ StorageMayFail
    /\ job.step \in {"flush", "commit", "info", "new_head"}
    /\ job' = IdleJob
    /\ UNCHANGED <<storeVars, main, startup_info, synced, mailbox, txpool, task>>

(* A write returns an error: the handler returns early and logs it.        *)
StorageError ==
    /\ StorageMayFail
    /\ job.step \in {"flush", "commit", "info", "new_head"}
    /\ startup_info' = IF job.step = "new_head" THEN job.branch ELSE startup_info
    /\ job' = IdleJob
    /\ UNCHANGED <<storeVars, main, synced, mailbox, txpool, task>>

-----------------------------------------------------------------------------
(* A sync task: it fetches the blocks of its target one by one and its     *)
(* BlockCollector connects them on a chain of its own, which starts at an  *)
(* ancestor of the head the node had when the task started.                *)

taskUnchanged == UNCHANGED <<main, startup_info, synced, job, txpool>>

TaskStep(t, from, to) ==
    /\ task[t].step = from
    /\ task' = [task EXCEPT ![t].step = to]

(* full_sync_task: current is read from the store; check_local_store is    *)
(* set when the ancestor is lighter than it.                               *)
TaskStart(t, ancestor) ==
    /\ task[t].step = "idle"
    /\ \E n \in 0 .. Number[startup] : ancestor = get_hash_by_number(startup, n)
    /\ task' = [task EXCEPT ![t] =
                   [step |-> "fetch", current |-> startup, head |-> ancestor, block |-> ancestor,
                    check_local_store |-> block_info[ancestor] < block_info[startup]]]
    /\ UNCHANGED <<storeVars, mailbox>>
    /\ taskUnchanged

(* BlockSyncTask::new_sub_task: a block whose info is in the local store   *)
(* comes with it, any other block comes from a peer without.               *)
TaskFetch(t, b) ==
    /\ task[t].step = "fetch"
    /\ b # Genesis
    /\ Parent[b] = task[t].head
    /\ task' = [task EXCEPT ![t].block = b,
                            ![t].step = IF task[t].check_local_store /\ block_exist(b)
                                        THEN "connect" ELSE "verify"]
    /\ UNCHANGED <<storeVars, mailbox>>
    /\ taskUnchanged

(* collect with a block info: only the task's chain moves.                 *)
TaskConnectLocal(t) ==
    /\ task[t].step = "connect"
    /\ task' = [task EXCEPT ![t].step = "fetch", ![t].head = task[t].block]
    /\ UNCHANGED <<storeVars, mailbox>>
    /\ taskUnchanged

(* collect without: apply_block, in the order of execute_block_and_save.   *)
TaskVerifyOk(t) ==
    /\ task[t].block \in Valid
    /\ TaskStep(t, "verify", "flush")
    /\ UNCHANGED <<storeVars, mailbox>>
    /\ taskUnchanged

(* The error ends the task; a ConnectBlockError records the block.         *)
TaskVerifyFailed(t) ==
    /\ task[t].step = "verify"
    /\ task[t].block \notin Valid \ Late
    /\ save_failed_block(task[t].block) \/ UNCHANGED storeVars
    /\ task' = [task EXCEPT ![t] = IdleTask]
    /\ UNCHANGED mailbox
    /\ taskUnchanged

TaskFlush(t) ==
    /\ TaskStep(t, "flush", "commit")
    /\ FlushNodes(task[t].block)
    /\ UNCHANGED mailbox
    /\ taskUnchanged

TaskCommit(t) ==
    /\ TaskStep(t, "commit", "info")
    /\ commit_block(task[t].block)
    /\ UNCHANGED mailbox
    /\ taskUnchanged

(* Mutant: the info is saved as if the block were on the node's head.      *)
TaskSaveInfo_OnCurrent(t) ==
    /\ task[t].step = "info"
    /\ save_block_info(task[t].block, task[t].current)
    /\ task' = [task EXCEPT ![t].step = "notify", ![t].head = task[t].block]
    /\ UNCHANGED mailbox
    /\ taskUnchanged

TaskSaveInfo(t) ==
    /\ task[t].step = "info"
    /\ save_block_info(task[t].block, task[t].head)
    /\ task' = [task EXCEPT ![t].step = "notify", ![t].head = task[t].block]
    /\ UNCHANGED mailbox
    /\ taskUnchanged

(* The event is sent when the block is heavier than the head the node had  *)
(* when the task started.                                                  *)
TaskNotify(t) ==
    /\ TaskStep(t, "notify", "fetch")
    /\ IF block_info[task[t].block] > block_info[task[t].current]
       THEN Notify([source |-> "BlockConnectedEvent", block |-> task[t].block])
       ELSE UNCHANGED mailbox
    /\ UNCHANGED storeVars
    /\ taskUnchanged

(* The target is reached, the task is canceled, a fetch fails for good, or *)
(* a write returns an error.                                               *)
TaskStop(t) ==
    /\ \/ task[t].step = "fetch"
       \/ StorageMayFail /\ task[t].step \in {"flush", "commit", "info"}
    /\ task' = [task EXCEPT ![t] = IdleTask]
    /\ UNCHANGED <<storeVars, mailbox>>
    /\ taskUnchanged

-----------------------------------------------------------------------------
(* The process stops at any point and starts again: what was in memory is  *)
(* lost, BlockConnectorService::create and TxPoolActorService::create read *)
(* the startup info.                                                       *)
Crash ==
    /\ main' = startup
    /\ startup_info' = startup
    /\ synced' = FALSE
    /\ mailbox' = <<>>
    /\ job' = IdleJob
    /\ txpool' = startup
    /\ task' = [t \in SyncTask |-> IdleTask]
    /\ UNCHANGED storeVars

-----------------------------------------------------------------------------
Sender ==
    \/ \E b \in Minable : MinedBlock(b)
    \/ \E b \in Relayed : PeerNewBlock(b)
    \/ \E is_synced \in BOOLEAN : SyncStatusChange(is_synced)

Connector ==
    \/ Receive
    \/ VerifyOk \/ VerifyFailed
    \/ FlushJob \/ CommitJob \/ SaveInfoJob
    \/ SelectHead \/ KeepHead
    \/ UpdateStartupInfo \/ CommitToTxpool
    \/ StorageError

SyncTaskStep(t) ==
    \/ \E b \in Block : TaskStart(t, b) \/ TaskFetch(t, b)
    \/ TaskConnectLocal(t)
    \/ TaskVerifyOk(t) \/ TaskVerifyFailed(t)
    \/ TaskFlush(t) \/ TaskCommit(t) \/ TaskSaveInfo(t) \/ TaskNotify(t)
    \/ TaskStop(t)

(* One process without a stop.                                             *)
NodeNext == Sender \/ Connector \/ \E t \in SyncTask : SyncTaskStep(t)

Next == NodeNext \/ Crash

NodeSpec == Init /\ [][NodeNext]_vars

Spec == Init /\ [][Next]_vars

-----------------------------------------------------------------------------
(* Type correctness of the store and of the services' memory.              *)
TypeOK ==
    /\ StoreTypeOK
    /\ main \in Block
    /\ startup_info \in Block
    /\ synced \in BOOLEAN
    /\ mailbox \in Seq(Message)
    /\ job \in Job
    /\ txpool \in Block
    /\ task \in [SyncTask -> Task]

(* A block info is the last write of a block's execution: at every moment, *)
(* so after every crash, a block that has one is stored, its state and     *)
(* accumulator nodes are flushed, its parent was executed too, and its     *)
(* total difficulty is the parent's plus its own.                          *)
InfoMeansExecuted ==
    \A b \in Block : block_exist(b) =>
        /\ b \in stored
        /\ b \in flushed
        /\ b # Genesis => /\ block_exist(Parent[b])
                          /\ block_info[b] = block_info[Parent[b]] + Difficulty[b]

(* BlockConnectorService::create reads the startup info and opens a        *)
(* BlockChain on it; every block of that chain has its block, its info and *)
(* its state in the store, whenever the process stopped.                   *)
Recoverable ==
    \A i \in 1 .. Len(ChainTo[startup]) :
        LET b == ChainTo[startup][i] IN block_exist(b) /\ b \in stored /\ b \in flushed

(* Between two messages the chain in memory, the startup info in memory    *)
(* and, when no write failed, the startup info on disk and the head the    *)
(* txpool and the bus were told of are one block.                          *)
OneHead ==
    job.step = "idle" =>
        /\ main = startup_info
        /\ block_info[startup_info] >= block_info[startup]
        /\ ~StorageMayFail => startup = main /\ txpool = main

(* The persisted head is only ever replaced by a strictly heavier one, so  *)
(* neither a restart nor a concurrent sync task rolls the node back.       *)
HeadGrows == [][startup' # startup => block_info'[startup'] > block_info[startup]]_vars

(* The blocks of the accumulator of an executed head sit at their numbers, *)
(* so find_ancestor compares the chains at the right leaf, and all of them *)
(* are executed.                                                           *)
LeafIsNumber(b) ==
    /\ Len(ChainTo[b]) = Number[b] + 1
    /\ \A i \in 1 .. Len(ChainTo[b]) : Number[ChainTo[b][i]] = i - 1

LeavesExecuted(b) == \A i \in 1 .. Len(ChainTo[b]) : block_exist(ChainTo[b][i])

(* What holds between the steps of a handler.                              *)
JobInv ==
    /\ job.step \in {"verify", "flush", "commit", "info"} =>
           /\ job.branch = Parent[job.block]
           /\ job.block # Genesis
           /\ block_exist(job.branch)
           /\ job.on_main => main = job.branch
    /\ job.step \in {"flush", "commit", "info"} => job.block \in Valid
    /\ job.step \in {"commit", "info"} => job.block \in flushed
    /\ job.step = "info" => job.block \in stored
    /\ job.step = "select" => block_exist(job.branch)
    /\ job.step \in {"new_head", "txpool"} =>
           /\ main = job.branch
           /\ job.enacted # <<>>
           /\ job.enacted[Len(job.enacted)] = job.branch

(* How the three heads and the txpool stand to each other at every step.   *)
HeadInv ==
    /\ block_exist(main)
    /\ block_exist(startup_info)
    /\ block_exist(startup)
    /\ job.step # "new_head" => main = startup_info
    /\ job.step = "new_head" => block_info[main] > block_info[startup_info]
    /\ block_info[startup_info] >= block_info[startup]
    /\ ~StorageMayFail => /\ startup = startup_info
                          /\ job.step # "txpool" => txpool = startup_info
    /\ job.step = "txpool" => startup = startup_info

(* What holds between the steps of a sync task.                            *)
TaskInv ==
    \A t \in SyncTask :
        /\ task[t].step # "idle" => block_exist(task[t].head) /\ block_exist(task[t].current)
        /\ task[t].step \in {"connect", "verify", "flush", "commit", "info"} =>
               Parent[task[t].block] = task[t].head /\ task[t].block # Genesis
        /\ task[t].step \in {"connect", "notify"} => block_exist(task[t].block)
        /\ task[t].step \in {"flush", "commit", "info"} => task[t].block \in Valid
        /\ task[t].step \in {"commit", "info"} => task[t].block \in flushed
        /\ task[t].step = "info" => task[t].block \in stored

(* The inductive invariant.                                                *)
IInv ==
    /\ TypeOK
    /\ InfoMeansExecuted
    /\ \A b \in Block : block_exist(b) => LeafIsNumber(b) /\ LeavesExecuted(b)
    /\ JobInv
    /\ HeadInv
    /\ TaskInv

(* Once the new head is saved the txpool is told of the reorganisation     *)
(* (after a failed save_startup_info it is not told): of the newest        *)
(* MAX_ROLL_BACK_BLOCK blocks of the old chain those that left the main    *)
(* chain are retracted, of those of the new chain the ones that joined it  *)
(* are enacted, and enacted ends with the new head.                        *)
OnChain(b, head) == ChainTo[head][Number[b] + 1] = b

Newest(head) == {b \in Block : Number[head] - MAX_ROLL_BACK_BLOCK < Number[b]
                                /\ Number[b] <= Number[head] /\ OnChain(b, head)}

Joined(head, prev) == {b \in Newest(head) : Number[b] > Number[prev] \/ ~OnChain(b, prev)}

ReorgToldToTxpool ==
    LET in(seq) == {seq[i] : i \in DOMAIN seq}
    IN  job.step = "txpool" =>
            /\ Joined(job.branch, job.prev) \subseteq in(job.enacted)
            /\ Joined(job.prev, job.branch) \subseteq in(job.retracted)
            /\ job.enacted[Len(job.enacted)] = job.branch

(* txpool/api/src/lib.rs:57: enacted blocks enter the main chain and       *)
(* retracted blocks belonged to the previous one, so none is both.         *)
EnactedNotRetracted ==
    \A i \in DOMAIN job.enacted, j \in DOMAIN job.retracted :
        job.enacted[i] # job.retracted[j]

(* Without a sync task beside it and without a stop, the connector idles   *)
(* on a heaviest executed block, in whatever order blocks arrive.          *)
HeadIsHeaviest ==
    job.step = "idle" => \A b \in Block : block_info[b] <= block_info[main]

(* The store as the abstract fork choice sees it.  A crash is a stutter.   *)
Choice == INSTANCE ForkChoice WITH head <- startup

RefinesForkChoice == Choice!Spec

=============================================================================
