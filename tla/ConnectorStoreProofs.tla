------------------------ MODULE ConnectorStoreProofs ------------------------
(***************************************************************************)
(* Lemmas about the chains of a block tree and about the durable writes of *)
(* BlockConnector, and the initial state.                                  *)
(***************************************************************************)
EXTENDS BlockConnector, SequenceTheorems, TLAPS

(* The last leaf of the accumulator of a chain is the chain's head.        *)
LEMMA LastLeaf ==
    ASSUME NEW b \in Block
    PROVE  /\ ChainTo[b] \in Seq(Block)
           /\ Len(ChainTo[b]) > 0
           /\ ChainTo[b][Len(ChainTo[b])] = b
<1>1. ChainTo[b] \in Seq(Block) BY BlockTreeAssumption
<1>2. CASE b = Genesis BY <1>1, <1>2, BlockTreeAssumption
<1>3. CASE b # Genesis
  <2>1. ChainTo[b] = Append(ChainTo[Parent[b]], b) BY <1>3, BlockTreeAssumption
  <2>2. ChainTo[Parent[b]] \in Seq(Block) BY BlockTreeAssumption
  <2> QED BY <1>1, <2>1, <2>2
<1> QED BY <1>2, <1>3

(* find_blocks_until returns a non-empty sequence that ends with the block *)
(* it starts from, when the block it stops at has a smaller number.        *)
LEMMA BlocksUntil ==
    ASSUME NEW from \in Block, NEW until \in Block,
           LeafIsNumber(from), Number[until] < Number[from]
    PROVE  LET blocks == find_blocks_until(from, until, MAX_ROLL_BACK_BLOCK)
           IN  /\ blocks \in Seq(Block)
               /\ blocks # <<>>
               /\ blocks[Len(blocks)] = from
<1> DEFINE count == Min2(Number[from] - Number[until], MAX_ROLL_BACK_BLOCK)
           n == Number[from] + 1
           m == Number[from] + 2 - count
           blocks == SubSeq(ChainTo[from], m, n)
<1>1. Number[from] \in Nat /\ Number[until] \in Nat BY BlockTreeAssumption
<1>2. count \in 1 .. Number[from] BY <1>1, ConnectorAssumption DEF Min2
<1>3. m \in 2 .. n BY <1>1, <1>2
<1>4. ChainTo[from] \in Seq(Block) /\ Len(ChainTo[from]) = n /\ ChainTo[from][n] = from
  BY LastLeaf DEF LeafIsNumber
<1> HIDE DEF m, n, count
<1>a. n \in Nat /\ m \in Int BY <1>1, <1>3 DEF n
<1>b. \A i \in m .. n : ChainTo[from][i] \in Block BY <1>3, <1>4, <1>a
<1>c. /\ blocks \in Seq(Block)
      /\ Len(blocks) = IF m <= n THEN n - m + 1 ELSE 0
      /\ \A i \in 1 .. n - m + 1 : blocks[i] = ChainTo[from][m + i - 1]
  BY <1>a, <1>b, SubSeqProperties
<1>5. blocks \in Seq(Block) /\ Len(blocks) = n - m + 1 BY <1>3, <1>a, <1>c
<1> HIDE DEF blocks
<1>6. blocks[n - m + 1] = ChainTo[from][n]
  <2>1. n - m + 1 \in 1 .. n - m + 1 BY <1>3, <1>a
  <2>2. m + (n - m + 1) - 1 = n BY <1>a
  <2> QED BY <1>c, <2>1, <2>2
<1>7. n - m + 1 > 0 /\ n - m + 1 \in Nat BY <1>3, <1>1 DEF n
<1>8. blocks = find_blocks_until(from, until, MAX_ROLL_BACK_BLOCK)
  BY DEF find_blocks_until, n, m, count, blocks
<1>9. blocks # <<>> /\ blocks[Len(blocks)] = from BY <1>4, <1>5, <1>6, <1>7
<1> QED BY <1>5, <1>8, <1>9

(* An ancestor that find_ancestor finds lies below both heads.             *)
LEMMA AncestorBelow ==
    ASSUME NEW head \in Block, NEW another \in Block, LeafIsNumber(head), LeafIsNumber(another),
           NEW a \in find_ancestor(head, another)
    PROVE  a \in Block /\ Number[a] < Number[head] /\ Number[a] < Number[another]
<1>1. PICK n \in CommonNumbers(head, another) : a = get_hash_by_number(head, n)
  BY DEF find_ancestor
<1>2. Number[head] \in Nat /\ Number[another] \in Nat BY BlockTreeAssumption
<1>3. n \in Nat /\ n < Number[head] /\ n < Number[another]
  BY <1>1, <1>2 DEF CommonNumbers, Min2
<1>4. n + 1 \in 1 .. Len(ChainTo[head]) BY <1>2, <1>3 DEF LeafIsNumber
<1>5. Number[a] = n BY <1>1, <1>3, <1>4 DEF LeafIsNumber, get_hash_by_number
<1>6. a \in Block BY <1>1, <1>4, LastLeaf DEF get_hash_by_number
<1> QED BY <1>3, <1>5, <1>6

-----------------------------------------------------------------------------
(* The invariant holds initially.                                          *)
LEMMA InitIInv == Init => IInv
<1> SUFFICES ASSUME Init PROVE IInv OBVIOUS
<1> USE DEF Init, StoreInit
<1>0. Genesis \in Block /\ Difficulty[Genesis] \in Nat \ {0} BY BlockTreeAssumption
<1>1. TypeOK
  <2>1. StoreTypeOK BY <1>0 DEF StoreTypeOK
  <2>2. IdleJob \in Job BY <1>0 DEF Job, Step, Source, IdleJob
  <2>3. IdleTask \in Task BY <1>0 DEF Task, TaskStepName, IdleTask
  <2>4. mailbox \in Seq(Message) OBVIOUS
  <2> HIDE DEF StoreInit
  <2> QED BY <1>0, <2>1, <2>2, <2>3, <2>4, Zenon DEF TypeOK
<1>2. InfoMeansExecuted BY <1>0 DEF InfoMeansExecuted, block_exist
<1>3. ASSUME NEW b \in Block, block_exist(b) PROVE LeafIsNumber(b) /\ LeavesExecuted(b)
  <2>1. b = Genesis BY <1>3 DEF block_exist
  <2>2. ChainTo[b] = <<Genesis>> /\ Number[Genesis] = 0 BY <2>1, BlockTreeAssumption
  <2>3. Len(<<Genesis>>) = 1 /\ <<Genesis>>[1] = Genesis OBVIOUS
  <2>4. \A i \in 1 .. 1 : i = 1 OBVIOUS
  <2> QED BY <1>3, <2>1, <2>2, <2>3, <2>4 DEF LeafIsNumber, LeavesExecuted
<1>4. JobInv BY DEF JobInv, IdleJob
<1>5. HeadInv BY <1>0 DEF HeadInv, IdleJob, block_exist
<1>6. TaskInv BY DEF TaskInv, IdleTask
<1> QED BY <1>1, <1>2, <1>3, <1>4, <1>5, <1>6 DEF IInv

-----------------------------------------------------------------------------
(* The part of the invariant about the store alone, and what every write   *)
(* of it keeps: nothing executed is changed and nothing is deleted.        *)
StoreInv ==
    /\ StoreTypeOK
    /\ InfoMeansExecuted
    /\ \A b \in Block : block_exist(b) => LeafIsNumber(b) /\ LeavesExecuted(b)

StoreGrows ==
    /\ \A b \in Block : block_exist(b) => block_info'[b] = block_info[b]
    /\ flushed \subseteq flushed'
    /\ stored \subseteq stored'

(* An unchanged store keeps its part of the invariant.                     *)
LEMMA StoreKept ==
    ASSUME StoreInv, UNCHANGED storeVars
    PROVE  StoreInv' /\ StoreGrows
BY DEF StoreInv, StoreGrows, StoreTypeOK, storeVars, InfoMeansExecuted, LeavesExecuted, block_exist

LEMMA SmallWrites ==
    ASSUME StoreInv, NEW b \in Block,
           \/ FlushNodes(b)
           \/ commit_block(b)
           \/ save_failed_block(b)
           \/ save_startup_info(b)
    PROVE  StoreInv' /\ StoreGrows /\ UNCHANGED block_info
<1>1. /\ UNCHANGED block_info
      /\ flushed \subseteq flushed' /\ flushed' \subseteq Block
      /\ stored \subseteq stored' /\ stored' \subseteq Block
      /\ failed' \subseteq Block
      /\ startup' \in Block
  BY DEF StoreInv, StoreTypeOK, FlushNodes, commit_block, save_failed_block, save_startup_info
<1> QED BY <1>1
        DEF StoreInv, StoreTypeOK, StoreGrows, InfoMeansExecuted, LeavesExecuted, block_exist

(* Saving the info of a valid block on an executed parent: if the block    *)
(* was executed before, by this or by another thread, the same total       *)
(* difficulty is written again.                                            *)
LEMMA InfoWrite ==
    ASSUME StoreInv, NEW b \in Valid, b \in flushed, b \in stored,
           block_exist(Parent[b]), save_block_info(b, Parent[b])
    PROVE  StoreInv' /\ StoreGrows /\ block_exist(b)' /\ UNCHANGED startup
           /\ block_info'[b] > block_info[Parent[b]]
<1>1. /\ b \in Block /\ b # Genesis /\ Parent[b] \in Block
      /\ Difficulty[b] \in Nat \ {0}
      /\ Number[Parent[b]] \in Nat /\ Number[b] = Number[Parent[b]] + 1
      /\ ChainTo[b] = Append(ChainTo[Parent[b]], b) /\ ChainTo[Parent[b]] \in Seq(Block)
  BY BlockTreeAssumption, Zenon
<1>2. block_info \in [Block -> Nat] BY DEF StoreInv, StoreTypeOK
<1>3. /\ block_info' = [block_info EXCEPT ![b] = block_info[Parent[b]] + Difficulty[b]]
      /\ UNCHANGED <<flushed, stored, failed, startup>>
  BY DEF save_block_info
<1>4. block_info[Parent[b]] + Difficulty[b] \in Nat \ {0} BY <1>1, <1>2
<1>5. block_info' \in [Block -> Nat] /\ block_info'[b] = block_info[Parent[b]] + Difficulty[b]
  BY <1>1, <1>2, <1>3, <1>4
<1>6. \A x \in Block : x # b => block_info'[x] = block_info[x] BY <1>2, <1>3
<1>7. block_exist(b) => block_info'[b] = block_info[b]
  BY <1>1, <1>5 DEF StoreInv, InfoMeansExecuted
<1>8. StoreGrows BY <1>3, <1>6, <1>7 DEF StoreGrows
<1>9. StoreTypeOK' BY <1>3, <1>5 DEF StoreInv, StoreTypeOK
<1>10. block_exist(b)' BY <1>4, <1>5 DEF block_exist
<1>11. InfoMeansExecuted'
  <2> SUFFICES ASSUME NEW x \in Block, block_exist(x)'
               PROVE  /\ x \in stored' /\ x \in flushed'
                      /\ x # Genesis => /\ block_exist(Parent[x])'
                                        /\ block_info'[x] = block_info'[Parent[x]] + Difficulty[x]
    BY DEF InfoMeansExecuted
  <2>0. block_exist(Parent[b])' /\ block_info'[Parent[b]] = block_info[Parent[b]]
    BY <1>1, <1>8 DEF StoreGrows, block_exist
  <2>1. CASE x = b BY <2>0, <2>1, <1>3, <1>5
  <2>2. CASE x # b
    <3>1. block_exist(x) /\ block_info'[x] = block_info[x] BY <2>2, <1>6 DEF block_exist
    <3>2. CASE x = Genesis BY <3>1, <3>2, <1>3 DEF StoreInv, InfoMeansExecuted
    <3>3. CASE x # Genesis
      <4>1. /\ x \in stored /\ x \in flushed
            /\ block_exist(Parent[x]) /\ block_info[x] = block_info[Parent[x]] + Difficulty[x]
        BY <3>1, <3>3 DEF StoreInv, InfoMeansExecuted
      <4>2. Parent[x] \in Block BY BlockTreeAssumption
      <4>3. block_info'[Parent[x]] = block_info[Parent[x]] BY <4>1, <4>2, <1>8 DEF StoreGrows
      <4> QED BY <3>1, <4>1, <4>3, <1>3 DEF block_exist
    <3> QED BY <3>2, <3>3
  <2> QED BY <2>1, <2>2
<1>12. LeafIsNumber(b) /\ LeavesExecuted(b)'
  <2>1. /\ Len(ChainTo[Parent[b]]) = Number[Parent[b]] + 1
        /\ \A i \in 1 .. Len(ChainTo[Parent[b]]) : Number[ChainTo[Parent[b]][i]] = i - 1
    BY <1>1 DEF StoreInv, LeafIsNumber
  <2>2. Len(ChainTo[b]) = Number[b] + 1 BY <1>1, <2>1
  <2>3. ASSUME NEW i \in 1 .. Len(ChainTo[b]) PROVE Number[ChainTo[b][i]] = i - 1
    <3>1. CASE i = Len(ChainTo[b]) BY <3>1, <2>2, <1>1, LastLeaf
    <3>2. CASE i # Len(ChainTo[b])
      <4>1. i \in 1 .. Len(ChainTo[Parent[b]]) BY <3>2, <2>1, <2>2, <1>1
      <4>2. ChainTo[b][i] = ChainTo[Parent[b]][i] BY <4>1, <1>1
      <4> QED BY <4>1, <4>2, <2>1
    <3> QED BY <3>1, <3>2
  <2>4. ASSUME NEW i \in 1 .. Len(ChainTo[b]) PROVE block_exist(ChainTo[b][i])'
    <3>1. CASE i = Len(ChainTo[b]) BY <3>1, <1>1, <1>10, LastLeaf
    <3>2. CASE i # Len(ChainTo[b])
      <4>1. i \in 1 .. Len(ChainTo[Parent[b]]) BY <3>2, <2>1, <2>2, <1>1
      <4>2. ChainTo[b][i] = ChainTo[Parent[b]][i] /\ ChainTo[b][i] \in Block BY <4>1, <1>1
      <4>3. block_exist(ChainTo[b][i]) BY <4>1, <4>2, <1>1 DEF StoreInv, LeavesExecuted
      <4> QED BY <4>2, <4>3, <1>8 DEF StoreGrows, block_exist
    <3> QED BY <3>1, <3>2
  <2> QED BY <2>2, <2>3, <2>4 DEF LeafIsNumber, LeavesExecuted
<1>13. ASSUME NEW x \in Block, block_exist(x)' PROVE LeafIsNumber(x) /\ LeavesExecuted(x)'
  <2>1. CASE x = b BY <2>1, <1>12
  <2>2. CASE x # b
    <3>1. LeafIsNumber(x) /\ LeavesExecuted(x) BY <2>2, <1>6, <1>13 DEF StoreInv, block_exist
    <3>2. \A i \in 1 .. Len(ChainTo[x]) : ChainTo[x][i] \in Block BY LastLeaf
    <3> QED BY <3>1, <3>2, <1>8 DEF LeavesExecuted, StoreGrows, block_exist
  <2> QED BY <2>1, <2>2
<1>14. block_info'[b] > block_info[Parent[b]] BY <1>1, <1>2, <1>5
<1> QED BY <1>3, <1>8, <1>9, <1>10, <1>11, <1>13, <1>14 DEF StoreInv

(* A growing store keeps the invariants of the tasks and of the job that   *)
(* do not move themselves.                                                 *)
LEMMA GrowthKeeps ==
    ASSUME IInv, StoreInv', StoreGrows
    PROVE  /\ UNCHANGED task => TaskInv'
           /\ UNCHANGED <<job, main>> => JobInv'
           /\ UNCHANGED <<job, main, startup_info, startup, txpool>> => HeadInv'
<1>1. \A b \in Block : block_exist(b) => block_exist(b)' BY DEF StoreGrows, block_exist
<1>2. /\ main \in Block /\ startup_info \in Block /\ startup \in Block
      /\ job.branch \in Block /\ job.block \in Block
      /\ \A t \in SyncTask : task[t].head \in Block /\ task[t].current \in Block
                              /\ task[t].block \in Block
  BY DEF IInv, TypeOK, StoreTypeOK, Job, Task
<1>3. UNCHANGED task => TaskInv' BY <1>1, <1>2 DEF IInv, TaskInv, StoreGrows
<1>4. UNCHANGED <<job, main>> => JobInv' BY <1>1, <1>2 DEF IInv, JobInv, StoreGrows
<1>5. UNCHANGED <<job, main, startup_info, startup, txpool>> => HeadInv'
  BY <1>1, <1>2 DEF IInv, HeadInv, StoreGrows
<1> QED BY <1>3, <1>4, <1>5

-----------------------------------------------------------------------------
(* What the senders put in the mailbox.                                    *)
LEMMA NotifyTypeOK ==
    ASSUME NEW message \in Message, mailbox \in Seq(Message), Notify(message)
    PROVE  mailbox' \in Seq(Message)
BY DEF Notify

=============================================================================
