------------------------ MODULE BlockConnectorProofs ------------------------
(***************************************************************************)
(* Proofs about BlockConnector for every block tree, every set of sync     *)
(* tasks, any mailbox capacity and with or without failing writes.         *)
(***************************************************************************)
EXTENDS ConnectorTaskProofs

(* What the senders put in the mailbox.                                    *)
LEMMA SenderIInv == IInv /\ Sender => IInv'
<1> SUFFICES ASSUME IInv, Sender PROVE IInv' OBVIOUS
<1>0. StoreInv BY DEF IInv, TypeOK, StoreInv
<1>1. /\ UNCHANGED <<storeVars, main, startup_info, job, txpool, task>>
      /\ mailbox' \in Seq(Message)
      /\ synced' \in BOOLEAN
  <2>1. CASE \E b \in Minable : MinedBlock(b)
    BY <2>1, NotifyTypeOK, BlockTreeAssumption, ConnectorAssumption, Zenon
       DEF IInv, TypeOK, MinedBlock, Message, Source
  <2>2. CASE \E b \in Relayed : PeerNewBlock(b)
    BY <2>2, NotifyTypeOK, ConnectorAssumption, Zenon DEF IInv, TypeOK, PeerNewBlock, Message, Source
  <2>3. CASE \E is_synced \in BOOLEAN : SyncStatusChange(is_synced)
    BY <2>3 DEF IInv, TypeOK, SyncStatusChange
  <2> QED BY <2>1, <2>2, <2>3 DEF Sender
<1>2. StoreInv' /\ StoreGrows BY <1>0, <1>1, StoreKept
<1>3. TypeOK' BY <1>1, <1>2 DEF IInv, TypeOK, StoreInv
<1> QED BY <1>1, <1>2, <1>3, GrowthKeeps DEF IInv, StoreInv, storeVars

-----------------------------------------------------------------------------
(* Taking a message from the mailbox.                                      *)
LEMMA ReceiveIInv == IInv /\ Receive => IInv'
<1> SUFFICES ASSUME IInv, Receive PROVE IInv' OBVIOUS
<1> DEFINE message == Head(mailbox)
           b == message.block
<1>0. StoreInv /\ HeadInv BY DEF IInv, TypeOK, StoreInv
<1>1. /\ UNCHANGED <<storeVars, startup_info, synced, txpool, task>>
      /\ job.step = "idle" /\ mailbox # <<>> /\ mailbox' = Tail(mailbox)
  BY DEF Receive
<1>2. StoreInv' /\ StoreGrows BY <1>0, <1>1, StoreKept
<1>3. TaskInv' BY <1>1, <1>2, GrowthKeeps
<1>4. /\ message \in Message /\ b \in Block /\ message.source \in Source
      /\ mailbox' \in Seq(Message)
  <2>1. mailbox \in Seq(Message) BY DEF IInv, TypeOK
  <2>2. message \in Message /\ mailbox' \in Seq(Message) BY <1>1, <2>1, HeadTailProperties
  <2> QED BY <2>2 DEF Message
<1>5. /\ main \in Block /\ startup_info \in Block /\ Parent[b] \in Block
      /\ block_info \in [Block -> Nat] /\ main = startup_info
  BY <1>0, <1>1, <1>4, BlockTreeAssumption, Zenon DEF IInv, TypeOK, StoreTypeOK, HeadInv
<1>6. \A x : block_exist(x)' <=> block_exist(x) BY <1>1 DEF storeVars, block_exist
<1> HIDE DEF message
<1>7. ASSUME NEW step \in Step, NEW branch \in Block, NEW on_main \in BOOLEAN,
             NEW enacted \in Seq(Block), Take(message, step, branch, on_main, enacted)
      PROVE  /\ job' \in Job
             /\ job'.step = step /\ job'.block = b /\ job'.branch = branch
             /\ job'.on_main = on_main /\ job'.enacted = enacted
  <2>1. <<>> \in Seq(Block) OBVIOUS
  <2>2. job' = [step |-> step, source |-> message.source, block |-> b, branch |-> branch,
                on_main |-> on_main, enacted |-> enacted, retracted |-> <<>>, prev |-> main]
    BY <1>7 DEF Take
  <2> QED BY <1>4, <1>5, <2>1, <2>2 DEF Job
<1>e. <<>> \in Seq(Block) OBVIOUS
<1>8. /\ main' \in Block /\ job' \in Job
      /\ JobInv' /\ HeadInv'
  <2>1. CASE IgnoreMessage(message) \/ FutureBlock(message)
    <3>1. UNCHANGED <<main, job>> BY <2>1 DEF IgnoreMessage, FutureBlock
    <3>2. main' \in Block /\ job' \in Job BY <3>1 DEF IInv, TypeOK
    <3> QED BY <3>1, <3>2, <1>1, <1>2, GrowthKeeps DEF storeVars
  <2>2. CASE ConnectToMain(message)
    <3>1. /\ UNCHANGED main /\ main = Parent[b] /\ ~block_exist(b)
          /\ Take(message, "verify", main, TRUE, <<>>)
      BY <2>2, Zenon DEF ConnectToMain
    <3>2. b # Genesis BY <3>1, <1>0, BlockTreeAssumption DEF HeadInv
    <3>3. /\ job' \in Job /\ job'.step = "verify" /\ job'.block = b /\ job'.branch = main
      BY <3>1, <1>5, <1>7, <1>e, Zenon DEF Step
    <3>4. JobInv' BY <3>1, <3>2, <3>3, <1>0, <1>6 DEF JobInv, HeadInv
    <3>5. HeadInv' BY <3>1, <3>3, <1>0, <1>1, <1>5 DEF HeadInv, storeVars, block_exist
    <3> QED BY <3>1, <3>3, <3>4, <3>5, <1>5
  <2>3. CASE UpdateChainHead(message) /\ b # main
    <3>1. /\ block_exist(b) /\ startup_info = Parent[b] /\ main' = b /\ b # main
          /\ Take(message, "new_head", b, TRUE, <<b>>)
      BY <2>3, Zenon DEF UpdateChainHead
    <3>2. b # Genesis BY <3>1, <1>5, BlockTreeAssumption
    <3>3. block_info[b] > block_info[startup_info]
      <4>1. block_info[b] = block_info[Parent[b]] + Difficulty[b]
        BY <3>1, <3>2, <1>0, <1>4 DEF StoreInv, InfoMeansExecuted
      <4>2. Difficulty[b] \in Nat \ {0} BY <1>4, BlockTreeAssumption
      <4> QED BY <4>1, <4>2, <3>1, <1>5
    <3>4. <<b>> \in Seq(Block) /\ <<b>> # <<>> /\ <<b>>[Len(<<b>>)] = b BY <1>4
    <3>5. /\ job' \in Job /\ job'.step = "new_head" /\ job'.branch = b /\ job'.enacted = <<b>>
      BY <3>1, <3>4, <1>4, <1>7, Zenon DEF Step
    <3>6. JobInv' BY <3>1, <3>4, <3>5 DEF JobInv
    <3>7. HeadInv'
      BY <3>1, <3>3, <3>5, <1>0, <1>1, <1>5 DEF HeadInv, storeVars, block_exist
    <3> QED BY <3>1, <3>5, <3>6, <3>7, <1>4
  <2>4. CASE SelectExecuted(message)
    <3>1. /\ UNCHANGED main /\ block_exist(b) /\ Take(message, "select", b, FALSE, <<>>)
      BY <2>4, Zenon DEF SelectExecuted
    <3>2. job' \in Job /\ job'.step = "select" /\ job'.branch = b
      BY <3>1, <1>4, <1>7, <1>e, Zenon DEF Step
    <3>3. JobInv' BY <3>1, <3>2, <1>6 DEF JobInv
    <3>4. HeadInv' BY <3>1, <3>2, <1>0, <1>1, <1>5 DEF HeadInv, storeVars, block_exist
    <3> QED BY <3>1, <3>2, <3>3, <3>4, <1>5
  <2>5. CASE ConnectToBranch(message)
    <3>1. /\ UNCHANGED main /\ ~block_exist(b) /\ block_exist(Parent[b])
          /\ Take(message, "verify", Parent[b], FALSE, <<>>)
      BY <2>5, Zenon DEF ConnectToBranch
    <3>2. b # Genesis BY <3>1, BlockTreeAssumption
    <3>3. /\ job' \in Job /\ job'.step = "verify" /\ job'.block = b
          /\ job'.branch = Parent[b] /\ job'.on_main = FALSE
      BY <3>1, <1>5, <1>7, <1>e, Zenon DEF Step
    <3>4. JobInv' BY <3>1, <3>2, <3>3, <1>6 DEF JobInv
    <3>5. HeadInv' BY <3>1, <3>3, <1>0, <1>1, <1>5 DEF HeadInv, storeVars, block_exist
    <3> QED BY <3>1, <3>3, <3>4, <3>5, <1>5
  <2> QED BY <2>1, <2>2, <2>3, <2>4, <2>5 DEF Receive, message
<1>9. TypeOK' BY <1>1, <1>2, <1>4, <1>8 DEF IInv, TypeOK, StoreInv
<1> QED BY <1>2, <1>3, <1>8, <1>9 DEF IInv, StoreInv

-----------------------------------------------------------------------------
(* The steps of a handler after it took a message.                         *)

(* An idle handler meets every condition on the job.                       *)
LEMMA IdleJobOK == IdleJob \in Job /\ IdleJob.step = "idle"
<1>1. Genesis \in Block /\ <<>> \in Seq(Block) BY BlockTreeAssumption
<1> QED BY <1>1 DEF IdleJob, Job, Step, Source

(* A handler that returns early, whatever its last write was, when main    *)
(* agrees with the startup info in memory.                                 *)
LEMMA EarlyReturn ==
    ASSUME IInv, StoreInv', StoreGrows, jobUnchanged, UNCHANGED <<main, startup>>,
           job' = IdleJob, job.step \notin {"new_head", "txpool"}
    PROVE  IInv'
<1>1. job'.step = "idle" /\ job' \in Job BY IdleJobOK
<1>2. TypeOK' BY <1>1 DEF IInv, TypeOK, StoreInv, jobUnchanged
<1>3. JobInv' BY <1>1 DEF JobInv
<1>4. HeadInv'
  <2>1. /\ main \in Block /\ startup_info \in Block /\ startup \in Block
        /\ block_info \in [Block -> Nat]
    BY DEF IInv, TypeOK, StoreTypeOK
  <2>2. /\ block_exist(main) /\ block_exist(startup_info) /\ block_exist(startup)
        /\ main = startup_info /\ block_info[startup_info] >= block_info[startup]
        /\ ~StorageMayFail => startup = startup_info /\ txpool = startup_info
    BY DEF IInv, HeadInv
  <2> QED BY <1>1, <2>1, <2>2 DEF HeadInv, StoreGrows, jobUnchanged, block_exist
<1>5. TaskInv' BY GrowthKeeps DEF jobUnchanged
<1> QED BY <1>2, <1>3, <1>4, <1>5 DEF IInv, StoreInv

(* A handler that goes from one step before the head selection to another. *)
LEMMA NextJobStep ==
    ASSUME IInv, StoreInv', StoreGrows, jobUnchanged, UNCHANGED <<main, startup>>,
           job' \in Job, JobInv',
           job.step \notin {"new_head", "txpool"}, job'.step \notin {"new_head", "txpool"}
    PROVE  IInv'
<1>1. TypeOK' BY DEF IInv, TypeOK, StoreInv, jobUnchanged
<1>2. HeadInv'
  <2>1. /\ main \in Block /\ startup_info \in Block /\ startup \in Block
    BY DEF IInv, TypeOK, StoreTypeOK
  <2>2. /\ block_exist(main) /\ block_exist(startup_info) /\ block_exist(startup)
        /\ main = startup_info /\ block_info[startup_info] >= block_info[startup]
        /\ ~StorageMayFail => startup = startup_info /\ txpool = startup_info
    BY DEF IInv, HeadInv
  <2> QED BY <2>1, <2>2 DEF HeadInv, StoreGrows, jobUnchanged, block_exist
<1>3. TaskInv' BY GrowthKeeps DEF jobUnchanged
<1> QED BY <1>1, <1>2, <1>3 DEF IInv, StoreInv

LEMMA ApplyIInv ==
    IInv /\ (VerifyOk \/ VerifyFailed \/ FlushJob \/ CommitJob \/ SaveInfoJob) => IInv'
<1> SUFFICES ASSUME IInv, VerifyOk \/ VerifyFailed \/ FlushJob \/ CommitJob \/ SaveInfoJob
             PROVE  IInv'
  OBVIOUS
<1>0. /\ StoreInv /\ JobInv /\ HeadInv
      /\ job \in Job /\ job.block \in Block /\ job.branch \in Block
  BY DEF IInv, TypeOK, StoreInv, Job
<1>1. CASE VerifyOk
  <2>1. StoreInv' /\ StoreGrows BY <1>0, <1>1, StoreKept DEF VerifyOk
  <2>2. job' = [job EXCEPT !.step = "flush"] /\ job.step = "verify" /\ UNCHANGED <<main, startup>>
        /\ job.block \in Valid
    BY <1>1 DEF VerifyOk, storeVars
  <2>3. job' \in Job /\ job'.step = "flush" /\ job'.block = job.block
        /\ job'.branch = job.branch /\ job'.on_main = job.on_main
    BY <1>0, <2>2 DEF Job, Step
  <2>4. JobInv' BY <1>0, <2>1, <2>2, <2>3 DEF JobInv, StoreGrows, block_exist
  <2> QED BY <1>1, <2>1, <2>2, <2>3, <2>4, NextJobStep DEF VerifyOk
<1>2. CASE VerifyFailed
  <2>1. StoreInv' /\ StoreGrows /\ UNCHANGED startup
    BY <1>0, <1>2, StoreKept, SmallWrites DEF VerifyFailed, storeVars, save_failed_block
  <2> QED BY <1>2, <2>1, EarlyReturn DEF VerifyFailed
<1>3. CASE FlushJob
  <2>1. StoreInv' /\ StoreGrows /\ UNCHANGED startup /\ job.block \in flushed'
    BY <1>0, <1>3, SmallWrites DEF FlushJob, FlushNodes
  <2>2. job' = [job EXCEPT !.step = "commit"] /\ job.step = "flush" /\ UNCHANGED main
    BY <1>3 DEF FlushJob
  <2>3. job' \in Job /\ job'.step = "commit" /\ job'.block = job.block
        /\ job'.branch = job.branch /\ job'.on_main = job.on_main
    BY <1>0, <2>2 DEF Job, Step
  <2>4. JobInv' BY <1>0, <2>1, <2>2, <2>3 DEF JobInv, StoreGrows, block_exist
  <2> QED BY <1>3, <2>1, <2>2, <2>3, <2>4, NextJobStep DEF FlushJob
<1>4. CASE CommitJob
  <2>1. StoreInv' /\ StoreGrows /\ UNCHANGED startup /\ job.block \in stored'
    BY <1>0, <1>4, SmallWrites DEF CommitJob, commit_block
  <2>2. job' = [job EXCEPT !.step = "info"] /\ job.step = "commit" /\ UNCHANGED main
    BY <1>4 DEF CommitJob
  <2>3. job' \in Job /\ job'.step = "info" /\ job'.block = job.block
        /\ job'.branch = job.branch /\ job'.on_main = job.on_main
    BY <1>0, <2>2 DEF Job, Step
  <2>4. JobInv' BY <1>0, <2>1, <2>2, <2>3 DEF JobInv, StoreGrows, block_exist
  <2> QED BY <1>4, <2>1, <2>2, <2>3, <2>4, NextJobStep DEF CommitJob
<1>5. CASE SaveInfoJob
  <2>1. /\ job.step = "info" /\ job.block \in Valid /\ job.block \in flushed /\ job.block \in stored
        /\ job.branch = Parent[job.block] /\ block_exist(job.branch)
        /\ job.on_main => main = job.branch
    BY <1>0, <1>5 DEF SaveInfoJob, JobInv
  <2>2. /\ StoreInv' /\ StoreGrows /\ block_info'[job.block] # 0 /\ UNCHANGED startup
        /\ block_info'[job.block] > block_info[job.branch]
    <3>1. save_block_info(job.block, Parent[job.block]) /\ block_exist(Parent[job.block])
      BY <1>5, <2>1 DEF SaveInfoJob
    <3> QED BY <1>0, <2>1, <3>1, InfoWrite DEF block_exist
  <2>3. CASE job.on_main
    <3>1. /\ main' = job.block
          /\ job' = [job EXCEPT !.step = "new_head", !.branch = job.block,
                                !.enacted = <<job.block>>]
      BY <1>5, <2>3 DEF SaveInfoJob
    <3>2. <<job.block>> \in Seq(Block) /\ <<job.block>> # <<>>
          /\ <<job.block>>[Len(<<job.block>>)] = job.block
      BY <1>0
    <3>3. job' \in Job /\ job'.step = "new_head" /\ job'.branch = job.block
          /\ job'.enacted = <<job.block>>
      BY <1>0, <3>1, <3>2, Zenon DEF Job, Step
    <3>4. JobInv' BY <3>1, <3>2, <3>3 DEF JobInv
    <3>5. HeadInv'
      <4>1. main \in Block /\ startup \in Block /\ startup_info \in Block
        BY DEF IInv, TypeOK, StoreTypeOK
      <4>2. /\ block_info'[main] = block_info[main] /\ block_info'[startup] = block_info[startup]
            /\ main = startup_info
        BY <1>0, <2>1, <2>2, <4>1 DEF HeadInv, StoreGrows
      <4>3. block_info'[main'] > block_info'[startup_info]
        BY <2>1, <2>2, <2>3, <3>1, <4>2
      <4>4. /\ block_exist(main)' /\ block_exist(startup_info)' /\ block_exist(startup)'
        BY <1>0, <2>2, <3>1, <4>1, <4>2, <1>5 DEF HeadInv, block_exist, SaveInfoJob, jobUnchanged
      <4> QED BY <1>0, <1>5, <2>1, <2>2, <3>3, <4>2, <4>3, <4>4
              DEF HeadInv, SaveInfoJob, jobUnchanged
    <3>6. TypeOK' BY <1>0, <1>5, <2>2, <3>1, <3>3 DEF IInv, TypeOK, StoreInv, SaveInfoJob, jobUnchanged
    <3>7. TaskInv' BY <1>5, <2>2, GrowthKeeps DEF SaveInfoJob, jobUnchanged
    <3> QED BY <2>2, <3>4, <3>5, <3>6, <3>7 DEF IInv, StoreInv
  <2>4. CASE ~job.on_main
    <3>1. UNCHANGED main /\ job' = [job EXCEPT !.step = "select", !.branch = job.block]
      BY <1>5, <2>4 DEF SaveInfoJob
    <3>2. job' \in Job /\ job'.step = "select" /\ job'.branch = job.block
      BY <1>0, <3>1, Zenon DEF Job, Step
    <3>3. JobInv' BY <2>2, <3>2 DEF JobInv, block_exist
    <3> QED BY <1>5, <2>1, <2>2, <3>1, <3>2, <3>3, NextJobStep DEF SaveInfoJob
  <2> QED BY <2>3, <2>4
<1> QED BY <1>1, <1>2, <1>3, <1>4, <1>5

-----------------------------------------------------------------------------
(* select_head and do_new_head.                                            *)

(* A switch to a heavier executed branch enacts a sequence that ends with  *)
(* the branch's head.                                                      *)
LEMMA EnactedEndsWithHead ==
    ASSUME StoreInv, NEW b \in Block, main \in Block, block_exist(b), block_exist(main),
           CanFindAncestors(b)
    PROVE  /\ Enacted(b) \in Seq(Block) /\ Retracted(b) \in Seq(Block)
           /\ Enacted(b) # <<>> /\ Enacted(b)[Len(Enacted(b))] = b
<1>1. CASE startup_info = Parent[b]
  <2>1. Enacted(b) = <<b>> /\ Retracted(b) = <<>> BY <1>1 DEF Enacted, Retracted
  <2>2. <<b>> \in Seq(Block) /\ <<b>> # <<>> /\ Len(<<b>>) = 1 /\ <<b>>[1] = b
        /\ <<>> \in Seq(Block)
    OBVIOUS
  <2> QED BY <2>1, <2>2
<1>2. CASE startup_info # Parent[b]
  <2> DEFINE a == CHOOSE x \in find_ancestor(main, b) : TRUE
  <2>1. a \in find_ancestor(main, b) BY <1>2 DEF CanFindAncestors
  <2>2. Enacted(b) = find_blocks_until(b, a, MAX_ROLL_BACK_BLOCK)
        /\ Retracted(b) = find_blocks_until(main, a, MAX_ROLL_BACK_BLOCK)
    BY <1>2 DEF Enacted, Retracted
  <2> HIDE DEF a
  <2>3. LeafIsNumber(main) /\ LeafIsNumber(b) BY DEF StoreInv
  <2>4. a \in Block /\ Number[a] < Number[main] /\ Number[a] < Number[b]
    BY <2>1, <2>3, AncestorBelow
  <2>5. /\ find_blocks_until(b, a, MAX_ROLL_BACK_BLOCK) \in Seq(Block)
        /\ find_blocks_until(b, a, MAX_ROLL_BACK_BLOCK) # <<>>
        /\ find_blocks_until(b, a, MAX_ROLL_BACK_BLOCK)
              [Len(find_blocks_until(b, a, MAX_ROLL_BACK_BLOCK))] = b
    BY <2>3, <2>4, BlocksUntil
  <2>6. find_blocks_until(main, a, MAX_ROLL_BACK_BLOCK) \in Seq(Block)
    BY <2>3, <2>4, BlocksUntil
  <2> QED BY <2>2, <2>5, <2>6
<1> QED BY <1>1, <1>2

LEMMA NewHeadIInv ==
    IInv /\ (SelectHead \/ KeepHead \/ UpdateStartupInfo \/ CommitToTxpool \/ StorageError) => IInv'
<1> SUFFICES ASSUME IInv,
                    SelectHead \/ KeepHead \/ UpdateStartupInfo \/ CommitToTxpool \/ StorageError
             PROVE  IInv'
  OBVIOUS
<1>0. /\ StoreInv /\ JobInv /\ HeadInv
      /\ job \in Job /\ job.block \in Block /\ job.branch \in Block
      /\ main \in Block /\ startup \in Block /\ startup_info \in Block /\ txpool \in Block
      /\ block_info \in [Block -> Nat]
  BY DEF IInv, TypeOK, StoreTypeOK, StoreInv, Job
<1>1. CASE SelectHead
  <2> DEFINE b == job.branch
  <2>1. /\ job.step = "select" /\ block_info[b] > block_info[main] /\ CanFindAncestors(b)
        /\ main' = b
        /\ job' = [job EXCEPT !.step = "new_head", !.enacted = Enacted(b), !.retracted = Retracted(b)]
        /\ UNCHANGED storeVars /\ jobUnchanged
    BY <1>1 DEF SelectHead, BranchWins
  <2>2. block_exist(b) /\ block_exist(main) /\ main = startup_info
    BY <1>0, <2>1 DEF JobInv, HeadInv
  <2>3. /\ Enacted(b) \in Seq(Block) /\ Retracted(b) \in Seq(Block)
        /\ Enacted(b) # <<>> /\ Enacted(b)[Len(Enacted(b))] = b
    BY <1>0, <2>1, <2>2, EnactedEndsWithHead
  <2>4. StoreInv' /\ StoreGrows BY <1>0, <2>1, StoreKept
  <2>5. /\ job' \in Job /\ job'.step = "new_head" /\ job'.branch = b /\ job'.enacted = Enacted(b)
    BY <1>0, <2>1, <2>3, Zenon DEF Job, Step
  <2>6. JobInv' BY <2>1, <2>3, <2>5 DEF JobInv
  <2>7. HeadInv' BY <1>0, <2>1, <2>2, <2>5 DEF HeadInv, storeVars, jobUnchanged, block_exist
  <2>8. TypeOK' BY <1>0, <2>1, <2>4, <2>5 DEF IInv, TypeOK, StoreInv, jobUnchanged
  <2>9. TaskInv' BY <2>1, <2>4, GrowthKeeps DEF jobUnchanged
  <2> QED BY <2>4, <2>6, <2>7, <2>8, <2>9 DEF IInv, StoreInv
<1>2. CASE KeepHead
  <2>1. StoreInv' /\ StoreGrows BY <1>0, <1>2, StoreKept DEF KeepHead
  <2> QED BY <1>2, <2>1, EarlyReturn DEF KeepHead, storeVars
<1>3. CASE UpdateStartupInfo
  <2>1. /\ job.step = "new_head" /\ startup_info' = job.branch /\ startup' = job.branch
        /\ UNCHANGED block_info
        /\ job' = [job EXCEPT !.step = "txpool"]
        /\ UNCHANGED <<main, synced, mailbox, txpool, task>>
    BY <1>3 DEF UpdateStartupInfo, save_startup_info
  <2>2. StoreInv' /\ StoreGrows BY <1>0, <1>3, SmallWrites DEF UpdateStartupInfo
  <2>3. /\ job' \in Job /\ job'.step = "txpool" /\ job'.branch = job.branch
        /\ job'.enacted = job.enacted
    BY <1>0, <2>1, Zenon DEF Job, Step
  <2>4. JobInv' BY <1>0, <2>1, <2>3 DEF JobInv
  <2>5. main = job.branch BY <1>0, <2>1 DEF JobInv
  <2>6. HeadInv' BY <1>0, <2>1, <2>3, <2>5 DEF HeadInv, block_exist
  <2>7. TypeOK' BY <1>0, <2>1, <2>2, <2>3 DEF IInv, TypeOK, StoreInv
  <2>8. TaskInv' BY <2>1, <2>2, GrowthKeeps
  <2> QED BY <2>2, <2>4, <2>6, <2>7, <2>8 DEF IInv, StoreInv
<1>4. CASE CommitToTxpool
  <2>1. /\ job.step = "txpool" /\ txpool' = job.enacted[Len(job.enacted)] /\ job' = IdleJob
        /\ UNCHANGED <<storeVars, main, startup_info, synced, mailbox, task>>
    BY <1>4 DEF CommitToTxpool
  <2>2. StoreInv' /\ StoreGrows BY <1>0, <2>1, StoreKept
  <2>3. txpool' = job.branch /\ main = job.branch /\ main = startup_info BY <1>0, <2>1 DEF JobInv, HeadInv
  <2>4. job' \in Job /\ job'.step = "idle" BY <2>1, IdleJobOK
  <2>5. JobInv' BY <2>4 DEF JobInv
  <2>6. HeadInv' BY <1>0, <2>1, <2>3, <2>4 DEF HeadInv, storeVars, block_exist
  <2>7. TypeOK' BY <1>0, <2>1, <2>2, <2>3, <2>4 DEF IInv, TypeOK, StoreInv
  <2>8. TaskInv' BY <2>1, <2>2, GrowthKeeps
  <2> QED BY <2>2, <2>5, <2>6, <2>7, <2>8 DEF IInv, StoreInv
<1>5. CASE StorageError
  <2>1. /\ StorageMayFail /\ job.step \in {"flush", "commit", "info", "new_head"}
        /\ startup_info' = (IF job.step = "new_head" THEN job.branch ELSE startup_info)
        /\ job' = IdleJob
        /\ UNCHANGED <<storeVars, main, synced, mailbox, txpool, task>>
    BY <1>5 DEF StorageError
  <2>2. StoreInv' /\ StoreGrows BY <1>0, <2>1, StoreKept
  <2>3. job' \in Job /\ job'.step = "idle" BY <2>1, IdleJobOK
  <2>4. JobInv' BY <2>3 DEF JobInv
  <2>5. startup_info' = main /\ block_info[main] >= block_info[startup_info]
    BY <1>0, <2>1 DEF JobInv, HeadInv
  <2>6. HeadInv' BY <1>0, <2>1, <2>3, <2>5 DEF HeadInv, storeVars, block_exist
  <2>7. TypeOK' BY <1>0, <2>1, <2>2, <2>3, <2>5 DEF IInv, TypeOK, StoreInv
  <2>8. TaskInv' BY <2>1, <2>2, GrowthKeeps
  <2> QED BY <2>2, <2>4, <2>6, <2>7, <2>8 DEF IInv, StoreInv
<1> QED BY <1>1, <1>2, <1>3, <1>4, <1>5

-----------------------------------------------------------------------------
(* A stop at any point and a restart.                                      *)
LEMMA CrashIInv == IInv /\ Crash => IInv'
<1> SUFFICES ASSUME IInv, Crash PROVE IInv' OBVIOUS
<1>0. /\ StoreInv /\ startup \in Block /\ block_exist(startup) /\ block_info \in [Block -> Nat]
  BY DEF IInv, TypeOK, StoreTypeOK, StoreInv, HeadInv
<1>1. /\ main' = startup /\ startup_info' = startup /\ synced' = FALSE /\ mailbox' = <<>>
      /\ job' = IdleJob /\ txpool' = startup /\ task' = [t \in SyncTask |-> IdleTask]
      /\ UNCHANGED storeVars
  BY DEF Crash
<1>2. StoreInv' BY <1>0, <1>1, StoreKept
<1>3. job' \in Job /\ job'.step = "idle" BY <1>1, IdleJobOK
<1>4. IdleTask \in Task /\ IdleTask.step = "idle"
  BY BlockTreeAssumption DEF IdleTask, Task, TaskStepName
<1>5. mailbox' \in Seq(Message) BY <1>1
<1>6. TypeOK' BY <1>0, <1>1, <1>2, <1>3, <1>4, <1>5, Zenon DEF TypeOK, StoreInv
<1>7. JobInv' BY <1>3 DEF JobInv
<1>8. HeadInv' BY <1>0, <1>1, <1>3 DEF HeadInv, storeVars, block_exist
<1>9. TaskInv' BY <1>1, <1>4 DEF TaskInv
<1> QED BY <1>2, <1>6, <1>7, <1>8, <1>9 DEF IInv, StoreInv

-----------------------------------------------------------------------------
LEMMA NextIInv == IInv /\ [Next]_vars => IInv'
<1> SUFFICES ASSUME IInv, [Next]_vars PROVE IInv' OBVIOUS
<1>1. CASE Sender BY <1>1, SenderIInv
<1>2. CASE Connector BY <1>2, ReceiveIInv, ApplyIInv, NewHeadIInv DEF Connector
<1>3. CASE \E t \in SyncTask : SyncTaskStep(t) BY <1>3, TaskIInv
<1>4. CASE Crash BY <1>4, CrashIInv
<1>5. CASE UNCHANGED vars
  <2>1. StoreInv BY DEF IInv, TypeOK, StoreInv
  <2>2. UNCHANGED storeVars /\ UNCHANGED memVars BY <1>5 DEF vars
  <2>3. StoreInv' /\ StoreGrows BY <2>1, <2>2, StoreKept
  <2>4. TypeOK' BY <2>2, <2>3 DEF IInv, TypeOK, StoreInv, memVars
  <2> QED BY <2>2, <2>3, <2>4, GrowthKeeps DEF IInv, StoreInv, storeVars, memVars
<1> QED BY <1>1, <1>2, <1>3, <1>4, <1>5 DEF Next, NodeNext

(* The inductive invariant of the connector, the sync tasks and the store. *)
THEOREM Invariance == Spec => []IInv
<1>1. Init => IInv BY InitIInv
<1>2. IInv /\ [Next]_vars => IInv' BY NextIInv
<1> QED BY <1>1, <1>2, PTL DEF Spec

(* Type correctness, for every block tree and number of sync tasks.        *)
THEOREM TypeCorrect == Spec => []TypeOK
<1>1. IInv => TypeOK BY DEF IInv
<1> QED BY <1>1, Invariance, PTL

(* A saved block info means that the block and all of its ancestors are    *)
(* stored with their state, whichever of the concurrent writers crashed.   *)
THEOREM InfoIsLastWrite == Spec => []InfoMeansExecuted
<1>1. IInv => InfoMeansExecuted BY DEF IInv
<1> QED BY <1>1, Invariance, PTL

(* Whenever the process stops, the chain of the persisted head is whole.   *)
THEOREM RestartIsSafe == Spec => []Recoverable
<1>1. ASSUME IInv PROVE Recoverable
  <2>1. startup \in Block /\ LeavesExecuted(startup)
    BY <1>1 DEF IInv, TypeOK, StoreTypeOK, HeadInv
  <2>2. ASSUME NEW i \in 1 .. Len(ChainTo[startup])
        PROVE  /\ block_exist(ChainTo[startup][i])
               /\ ChainTo[startup][i] \in stored /\ ChainTo[startup][i] \in flushed
    <3>1. ChainTo[startup][i] \in Block BY <2>1, LastLeaf
    <3>2. block_exist(ChainTo[startup][i]) BY <2>1, <2>2 DEF LeavesExecuted
    <3> QED BY <1>1, <3>1, <3>2 DEF IInv, InfoMeansExecuted
  <2> QED BY <2>2 DEF Recoverable
<1>2. IInv => Recoverable BY <1>1
<1> QED BY <1>2, Invariance, PTL

(* Between two messages memory, disk and txpool agree on the head.         *)
THEOREM HeadsAgree == Spec => []OneHead
<1>1. IInv => OneHead BY DEF IInv, OneHead, HeadInv
<1> QED BY <1>1, Invariance, PTL

(* Every step that changes the persisted head moves it to a heavier block. *)
LEMMA HeadStep ==
    ASSUME IInv, IInv', [Next]_vars, startup' # startup
    PROVE  UpdateStartupInfo
<1>1. \A b : \/ FlushNodes(b) \/ commit_block(b) \/ save_failed_block(b)
           \/ save_block_info(b, Parent[b])
           => UNCHANGED startup
  BY DEF FlushNodes, commit_block, save_failed_block, save_block_info
<1>2. \A b, c : save_block_info(b, c) => UNCHANGED startup BY DEF save_block_info
<1>3. UNCHANGED storeVars => UNCHANGED startup BY DEF storeVars
<1>4. CASE Sender BY <1>3, <1>4, Zenon DEF Sender, MinedBlock, PeerNewBlock, SyncStatusChange
<1>5. CASE Connector
  BY <1>1, <1>2, <1>3, <1>5
     DEF Connector, Receive, VerifyOk, VerifyFailed, FlushJob, CommitJob, SaveInfoJob,
         SelectHead, KeepHead, CommitToTxpool, StorageError
<1>6. ASSUME NEW t \in SyncTask, SyncTaskStep(t) PROVE FALSE
  BY <1>1, <1>2, <1>3, <1>6, Zenon
     DEF SyncTaskStep, TaskStart, TaskFetch, TaskConnectLocal, TaskVerifyOk, TaskVerifyFailed,
         TaskFlush, TaskCommit, TaskSaveInfo, TaskNotify, TaskStop
<1>7. CASE Crash BY <1>3, <1>7 DEF Crash
<1>8. CASE UNCHANGED vars BY <1>3, <1>8 DEF vars
<1> QED BY <1>4, <1>5, <1>6, <1>7, <1>8 DEF Next, NodeNext

LEMMA HeadStepHeavier ==
    ASSUME IInv, UpdateStartupInfo
    PROVE  block_info'[startup'] > block_info[startup] /\ UNCHANGED block_info
<1>1. /\ job.step = "new_head" /\ startup' = job.branch /\ UNCHANGED block_info
  BY DEF UpdateStartupInfo, save_startup_info
<1>2. /\ job.branch = main /\ block_info[main] > block_info[startup_info]
      /\ block_info[startup_info] >= block_info[startup]
  BY <1>1 DEF IInv, JobInv, HeadInv
<1>3. /\ block_info[main] \in Nat /\ block_info[startup_info] \in Nat /\ block_info[startup] \in Nat
  BY DEF IInv, TypeOK, StoreTypeOK
<1> QED BY <1>1, <1>2, <1>3

(* The persisted head never gets lighter, through crashes and failed       *)
(* writes, with any number of sync tasks writing beside the connector.     *)
THEOREM HeadNeverLighter == Spec => HeadGrows
<1>1. IInv /\ IInv' /\ [Next]_vars =>
          [startup' # startup => block_info'[startup'] > block_info[startup]]_vars
  BY HeadStep, HeadStepHeavier
<1> QED BY <1>1, Invariance, PTL DEF Spec, HeadGrows

-----------------------------------------------------------------------------
(* The connector with its store implements ForkChoice.                     *)

(* A step that changes a block info saves the info of a valid block on its *)
(* executed parent.                                                        *)
LEMMA InfoStep ==
    ASSUME IInv, [Next]_vars, block_info' # block_info
    PROVE  \E b \in Valid : block_exist(Parent[b]) /\ save_block_info(b, Parent[b])
<1>1. \A b : \/ FlushNodes(b) \/ commit_block(b) \/ save_failed_block(b) \/ save_startup_info(b)
           => UNCHANGED block_info
  BY DEF FlushNodes, commit_block, save_failed_block, save_startup_info
<1>2. UNCHANGED storeVars => UNCHANGED block_info BY DEF storeVars
<1>3. CASE Sender BY <1>2, <1>3, Zenon DEF Sender, MinedBlock, PeerNewBlock, SyncStatusChange
<1>4. CASE Connector
  <2>1. SaveInfoJob
    BY <1>1, <1>2, <1>4
       DEF Connector, Receive, VerifyOk, VerifyFailed, FlushJob, CommitJob, UpdateStartupInfo,
           SelectHead, KeepHead, CommitToTxpool, StorageError
  <2>2. /\ job.block \in Valid /\ job.branch = Parent[job.block] /\ block_exist(job.branch)
        /\ save_block_info(job.block, job.branch)
    BY <2>1 DEF IInv, JobInv, SaveInfoJob
  <2> QED BY <2>2
<1>5. ASSUME NEW t \in SyncTask, SyncTaskStep(t)
      PROVE  \E b \in Valid : block_exist(Parent[b]) /\ save_block_info(b, Parent[b])
  <2>1. TaskSaveInfo(t)
    BY <1>1, <1>2, <1>5, Zenon
       DEF SyncTaskStep, TaskStart, TaskFetch, TaskConnectLocal, TaskVerifyOk, TaskVerifyFailed,
           TaskFlush, TaskCommit, TaskNotify, TaskStop
  <2>2. /\ task[t].block \in Valid /\ task[t].head = Parent[task[t].block]
        /\ block_exist(task[t].head) /\ save_block_info(task[t].block, task[t].head)
    BY <2>1 DEF IInv, TaskInv, TaskSaveInfo
  <2> QED BY <2>2
<1>6. CASE Crash BY <1>2, <1>6 DEF Crash
<1>7. CASE UNCHANGED vars BY <1>2, <1>7 DEF vars
<1> QED BY <1>3, <1>4, <1>5, <1>6, <1>7 DEF Next, NodeNext

(* A write of a block info that changes something is the first one for its *)
(* block: a second one would write the same total difficulty.              *)
LEMMA NewInfo ==
    ASSUME TypeOK, InfoMeansExecuted, NEW b \in Valid,
           save_block_info(b, Parent[b]), block_info' # block_info
    PROVE  block_info[b] = 0
<1>1. block_info' = [block_info EXCEPT ![b] = block_info[Parent[b]] + Difficulty[b]]
  BY DEF save_block_info
<1>2. b \in Block /\ b # Genesis /\ block_info \in [Block -> Nat]
  BY BlockTreeAssumption DEF TypeOK, StoreTypeOK
<1>3. block_info[b] # 0 => block_info[b] = block_info[Parent[b]] + Difficulty[b]
  BY <1>2 DEF InfoMeansExecuted, block_exist
<1>4. block_info[b] # 0 => block_info' = block_info BY <1>1, <1>2, <1>3
<1> QED BY <1>4

(* Each step is a step or a stutter of the abstract fork choice.           *)
LEMMA StepSimulation ==
    ASSUME IInv, IInv', [Next]_vars
    PROVE  [Choice!Next]_(Choice!choiceVars)
<1>1. CASE UNCHANGED <<block_info, startup>> BY <1>1 DEF Choice!choiceVars
<1>2. CASE startup' # startup
  <2>1. UpdateStartupInfo BY <1>2, HeadStep
  <2>2. block_info'[startup'] > block_info[startup] /\ UNCHANGED block_info
    BY <2>1, HeadStepHeavier
  <2>3. startup' \in Block BY DEF IInv, TypeOK, StoreTypeOK
  <2> QED BY <2>2, <2>3 DEF Choice!Next, Choice!SelectHead
<1>3. CASE startup' = startup /\ block_info' # block_info
  <2>1. PICK b \in Valid : block_exist(Parent[b]) /\ save_block_info(b, Parent[b])
    BY <1>3, InfoStep
  <2>2. block_info' = [block_info EXCEPT ![b] = block_info[Parent[b]] + Difficulty[b]]
    BY <2>1 DEF save_block_info
  <2>3. b \in Block /\ b # Genesis /\ block_info \in [Block -> Nat]
    BY BlockTreeAssumption DEF IInv, TypeOK, StoreTypeOK
  <2>4. block_info[b] = 0 BY <1>3, <2>1, NewInfo, Zenon DEF IInv
  <2>5. Choice!Execute(b)
    BY <1>3, <2>1, <2>2, <2>4, Zenon DEF Choice!Execute, block_exist
  <2> QED BY <2>3, <2>5, Zenon DEF Choice!Next
<1> QED BY <1>1, <1>2, <1>3

(* Every behaviour of the connector, the sync tasks and their crashes is a *)
(* behaviour of the abstract fork choice on the persisted head.            *)
THEOREM ImplementsForkChoice == Spec => RefinesForkChoice
<1>1. Init => Choice!Init BY DEF Init, StoreInit, Choice!Init
<1>2. IInv /\ IInv' /\ [Next]_vars => [Choice!Next]_(Choice!choiceVars) BY StepSimulation
<1> QED BY <1>1, <1>2, Invariance, PTL DEF Spec, RefinesForkChoice, Choice!Spec

=============================================================================
