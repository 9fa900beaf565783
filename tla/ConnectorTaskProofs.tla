------------------------ MODULE ConnectorTaskProofs -------------------------
(***************************************************************************)
(* The steps of the sync tasks keep the invariant of BlockConnector.       *)
(***************************************************************************)
EXTENDS ConnectorStoreProofs

(* What the invariant asks of a task, before and after a step.             *)
TaskFits(old) ==
    /\ old.step # "idle" => block_info[old.head] # 0 /\ block_info[old.current] # 0
    /\ old.step \in {"connect", "verify", "flush", "commit", "info"} =>
           Parent[old.block] = old.head /\ old.block # Genesis
    /\ old.step \in {"connect", "notify"} => block_info[old.block] # 0
    /\ old.step \in {"flush", "commit", "info"} => old.block \in Valid
    /\ old.step \in {"commit", "info"} => old.block \in flushed
    /\ old.step = "info" => old.block \in stored

TaskWillFit(new) ==
    /\ new.step # "idle" => block_info'[new.head] # 0 /\ block_info'[new.current] # 0
    /\ new.step \in {"connect", "verify", "flush", "commit", "info"} =>
           Parent[new.block] = new.head /\ new.block # Genesis
    /\ new.step \in {"connect", "notify"} => block_info'[new.block] # 0
    /\ new.step \in {"flush", "commit", "info"} => new.block \in Valid
    /\ new.step \in {"commit", "info"} => new.block \in flushed'
    /\ new.step = "info" => new.block \in stored'

(* What the fields of a task record range over.                            *)
LEMMA TaskFields ==
    ASSUME NEW old \in Task
    PROVE  /\ old.step \in TaskStepName
           /\ old.current \in Block /\ old.head \in Block /\ old.block \in Block
           /\ old.check_local_store \in BOOLEAN
BY DEF Task

(* A task record after an assignment to its step, its head or its block.   *)
LEMMA SetStep ==
    ASSUME NEW old \in Task, NEW s \in TaskStepName
    PROVE  LET new == [old EXCEPT !.step = s]
           IN  /\ new \in Task /\ new.step = s /\ new.block = old.block
               /\ new.head = old.head /\ new.current = old.current
BY DEF Task

LEMMA SetHead ==
    ASSUME NEW old \in Task, NEW s \in TaskStepName
    PROVE  LET new == [old EXCEPT !.step = s, !.head = old.block]
           IN  /\ new \in Task /\ new.step = s /\ new.block = old.block
               /\ new.head = old.block /\ new.current = old.current
BY Zenon DEF Task

LEMMA SetBlock ==
    ASSUME NEW old \in Task, NEW s \in TaskStepName, NEW b \in Block
    PROVE  LET new == [old EXCEPT !.block = b, !.step = s]
           IN  /\ new \in Task /\ new.step = s /\ new.block = b
               /\ new.head = old.head /\ new.current = old.current
BY Zenon DEF Task

(* An executed block stays executed.                                       *)
LEMMA StaysExecuted ==
    ASSUME StoreGrows, NEW b \in Block, block_info[b] # 0
    PROVE  block_info'[b] # 0
BY DEF StoreGrows, block_exist

(* A growing store suits a task that does not move.                        *)
LEMMA StillFits ==
    ASSUME StoreGrows, NEW old \in Task, TaskFits(old)
    PROVE  TaskWillFit(old)
<1>1. old.head \in Block /\ old.current \in Block /\ old.block \in Block BY TaskFields
<1>2. /\ block_info[old.head] # 0 => block_info'[old.head] # 0
      /\ block_info[old.current] # 0 => block_info'[old.current] # 0
      /\ block_info[old.block] # 0 => block_info'[old.block] # 0
  BY <1>1, StaysExecuted
<1>3. flushed \subseteq flushed' /\ stored \subseteq stored' BY DEF StoreGrows
<1> QED BY <1>2, <1>3 DEF TaskFits, TaskWillFit

(* Only the moving task's condition and the store need a look.             *)
LEMMA OneTaskMoves ==
    ASSUME IInv, NEW t \in SyncTask, NEW new \in Task, task' = [task EXCEPT ![t] = new],
           taskUnchanged, mailbox' \in Seq(Message), StoreInv', StoreGrows, UNCHANGED startup,
           TaskWillFit(new)
    PROVE  IInv'
<1>1. task \in [SyncTask -> Task] BY DEF IInv, TypeOK
<1>2. task' \in [SyncTask -> Task] /\ task'[t] = new
      /\ \A u \in SyncTask \ {t} : task'[u] = task[u]
  BY <1>1
<1>3. TypeOK' BY <1>2 DEF IInv, TypeOK, StoreInv, taskUnchanged
<1>4. JobInv' /\ HeadInv' BY GrowthKeeps DEF taskUnchanged
<1>5. \A u \in SyncTask : TaskWillFit(task'[u])
  <2> SUFFICES ASSUME NEW u \in SyncTask PROVE TaskWillFit(task'[u]) OBVIOUS
  <2>1. CASE u = t BY <1>2, <2>1
  <2>2. CASE u # t
    <3>1. TaskFits(task[u]) BY DEF IInv, TaskInv, TaskFits, block_exist
    <3>2. TaskWillFit(task[u]) BY <1>1, <3>1, StillFits
    <3> QED BY <1>2, <2>2, <3>2
  <2> QED BY <2>1, <2>2
<1>6. TaskInv' BY <1>5, Zenon DEF TaskInv, TaskWillFit, block_exist
<1> QED BY <1>3, <1>4, <1>6 DEF IInv, StoreInv

(* Every step of a sync task: its start at an ancestor of the head, a      *)
(* fetched block, and each write of the execution of a block.              *)
LEMMA TaskIInv ==
    ASSUME IInv, NEW t \in SyncTask, SyncTaskStep(t)
    PROVE  IInv'
<1>0. /\ StoreInv /\ mailbox \in Seq(Message) /\ task \in [SyncTask -> Task]
      /\ startup \in Block /\ block_info[startup] # 0
  BY DEF IInv, TypeOK, StoreTypeOK, StoreInv, HeadInv, block_exist
<1>1. PICK old \in Task : old = task[t] BY <1>0
<1>2. TaskFits(old) BY <1>1 DEF IInv, TaskInv, TaskFits, block_exist
<1>3. old.head \in Block /\ old.current \in Block /\ old.block \in Block BY TaskFields
<1>4. ASSUME NEW new \in Task, task' = [task EXCEPT ![t] = new], taskUnchanged,
             UNCHANGED <<storeVars, mailbox>>, TaskWillFit(new)
      PROVE  IInv'
  <2>1. StoreInv' /\ StoreGrows BY <1>0, <1>4, StoreKept
  <2>2. UNCHANGED <<mailbox, startup>> BY <1>4 DEF storeVars
  <2> QED BY <1>0, <1>4, <2>1, <2>2, OneTaskMoves, Zenon
<1>5. ASSUME NEW ancestor \in Block, TaskStart(t, ancestor) PROVE IInv'
  <2> DEFINE local == block_info[ancestor] < block_info[startup]
             new == [step |-> "fetch", current |-> startup, head |-> ancestor,
                     block |-> ancestor, check_local_store |-> local]
  <2>1. /\ task' = [task EXCEPT ![t] = new] /\ UNCHANGED <<storeVars, mailbox>> /\ taskUnchanged
        /\ \E n \in 0 .. Number[startup] : ancestor = get_hash_by_number(startup, n)
    BY <1>5 DEF TaskStart
  <2>2. block_info[ancestor] # 0
    <3>1. PICK n \in 0 .. Number[startup] : ancestor = ChainTo[startup][n + 1]
      BY <2>1 DEF get_hash_by_number
    <3>2. LeafIsNumber(startup) /\ LeavesExecuted(startup) /\ Number[startup] \in Nat
      BY <1>0, BlockTreeAssumption DEF StoreInv, block_exist
    <3>3. n + 1 \in 1 .. Len(ChainTo[startup]) BY <3>2 DEF LeafIsNumber
    <3> QED BY <3>1, <3>2, <3>3 DEF LeavesExecuted, block_exist
  <2>3. local \in BOOLEAN OBVIOUS
  <2> HIDE DEF local
  <2>4. new \in Task BY <1>0, <2>3 DEF Task, TaskStepName
  <2>5. new.step = "fetch" /\ new.head = ancestor /\ new.current = startup OBVIOUS
  <2> HIDE DEF new
  <2>6. block_info' = block_info BY <2>1 DEF storeVars
  <2>7. TaskWillFit(new) BY <1>0, <2>2, <2>5, <2>6 DEF TaskWillFit
  <2> QED BY <1>4, <2>1, <2>4, <2>7, Zenon
<1>6. ASSUME NEW b \in Block, TaskFetch(t, b) PROVE IInv'
  <2> DEFINE s == IF old.check_local_store /\ block_exist(b) THEN "connect" ELSE "verify"
             new == [old EXCEPT !.block = b, !.step = s]
  <2>1. /\ old.step = "fetch" /\ b # Genesis /\ Parent[b] = old.head
        /\ UNCHANGED <<storeVars, mailbox>> /\ taskUnchanged
    BY <1>1, <1>6 DEF TaskFetch
  <2>2. task' = [task EXCEPT ![t] = new] BY <1>0, <1>1, <1>6, Zenon DEF TaskFetch
  <2>3. s \in {"connect", "verify"} /\ (s = "connect" => block_info[b] # 0) BY DEF block_exist
  <2> HIDE DEF s
  <2>4. s \in TaskStepName BY <2>3 DEF TaskStepName
  <2>5. /\ new \in Task /\ new.step = s /\ new.block = b
        /\ new.head = old.head /\ new.current = old.current
    BY <2>4, SetBlock, Zenon
  <2> HIDE DEF new
  <2>6. block_info' = block_info BY <2>1 DEF storeVars
  <2>7. TaskWillFit(new) BY <1>2, <2>1, <2>3, <2>5, <2>6 DEF TaskFits, TaskWillFit
  <2> QED BY <1>4, <2>1, <2>2, <2>5, <2>7, Zenon
<1>7. ASSUME TaskConnectLocal(t) PROVE IInv'
  <2> DEFINE new == [old EXCEPT !.step = "fetch", !.head = old.block]
  <2>1. old.step = "connect" /\ UNCHANGED <<storeVars, mailbox>> /\ taskUnchanged
    BY <1>1, <1>7 DEF TaskConnectLocal
  <2>2. task' = [task EXCEPT ![t] = new] BY <1>0, <1>1, <1>7, Zenon DEF TaskConnectLocal
  <2>n. "fetch" \in TaskStepName BY DEF TaskStepName
  <2>3. /\ new \in Task /\ new.step = "fetch" /\ new.head = old.block /\ new.current = old.current
    BY <2>n, SetHead, Zenon
  <2> HIDE DEF new
  <2>4. block_info' = block_info BY <2>1 DEF storeVars
  <2>5. TaskWillFit(new) BY <1>2, <2>1, <2>3, <2>4 DEF TaskFits, TaskWillFit
  <2> QED BY <1>4, <2>1, <2>2, <2>3, <2>5, Zenon
<1>8. ASSUME NEW from \in TaskStepName, NEW to \in {"flush", "commit", "info", "fetch"},
             TaskStep(t, from, to), taskUnchanged, mailbox' \in Seq(Message), UNCHANGED startup,
             from # "idle", to # "fetch" => from \in {"verify", "flush", "commit"},
             StoreInv', StoreGrows, to # "fetch" => old.block \in Valid,
             to \in {"commit", "info"} => old.block \in flushed',
             to = "info" => old.block \in stored'
      PROVE  IInv'
  <2> DEFINE new == [old EXCEPT !.step = to]
  <2>1. old.step = from BY <1>1, <1>8 DEF TaskStep
  <2>2. task' = [task EXCEPT ![t] = new] BY <1>0, <1>1, <1>8 DEF TaskStep
  <2>3. to \in TaskStepName BY <1>8 DEF TaskStepName
  <2>4. /\ new \in Task /\ new.step = to /\ new.block = old.block
        /\ new.head = old.head /\ new.current = old.current
    BY <2>3, SetStep, Zenon
  <2> HIDE DEF new
  <2>5. block_info'[old.head] # 0 /\ block_info'[old.current] # 0
    BY <1>2, <1>3, <1>8, <2>1, StaysExecuted DEF TaskFits
  <2>6. TaskWillFit(new) BY <1>2, <1>8, <2>1, <2>4, <2>5 DEF TaskFits, TaskWillFit
  <2> QED BY <1>8, <2>2, <2>4, <2>6, OneTaskMoves, Zenon
<1>9. ASSUME TaskVerifyOk(t) PROVE IInv'
  <2>1. StoreInv' /\ StoreGrows /\ UNCHANGED startup
    BY <1>0, <1>9, StoreKept DEF TaskVerifyOk, storeVars
  <2>2. /\ TaskStep(t, "verify", "flush") /\ taskUnchanged /\ UNCHANGED mailbox
        /\ old.block \in Valid
    BY <1>1, <1>9 DEF TaskVerifyOk
  <2> QED BY <1>0, <1>8, <2>1, <2>2 DEF TaskStepName
<1>10. ASSUME TaskVerifyFailed(t) \/ TaskStop(t) PROVE IInv'
  <2>1. /\ task' = [task EXCEPT ![t] = IdleTask] /\ taskUnchanged /\ UNCHANGED mailbox
        /\ save_failed_block(old.block) \/ UNCHANGED storeVars
    BY <1>1, <1>10 DEF TaskVerifyFailed, TaskStop
  <2>2. StoreInv' /\ StoreGrows BY <1>0, <1>3, <2>1, StoreKept, SmallWrites
  <2>3. UNCHANGED startup BY <2>1 DEF storeVars, save_failed_block
  <2>4. IdleTask \in Task /\ IdleTask.step = "idle"
    BY BlockTreeAssumption DEF IdleTask, Task, TaskStepName
  <2>5. TaskWillFit(IdleTask) BY <2>4 DEF TaskWillFit
  <2> QED BY <1>0, <2>1, <2>2, <2>3, <2>4, <2>5, OneTaskMoves, Zenon
<1>11. ASSUME TaskFlush(t) PROVE IInv'
  <2>1. /\ TaskStep(t, "flush", "commit") /\ taskUnchanged /\ UNCHANGED mailbox
        /\ FlushNodes(old.block)
    BY <1>1, <1>11 DEF TaskFlush
  <2>2. old.block \in flushed' /\ UNCHANGED startup BY <2>1 DEF FlushNodes
  <2>3. StoreInv' /\ StoreGrows BY <1>0, <1>3, <2>1, SmallWrites
  <2>4. old.block \in Valid BY <1>1, <1>2, <2>1 DEF TaskStep, TaskFits
  <2> QED BY <1>0, <1>8, <2>1, <2>2, <2>3, <2>4 DEF TaskStepName
<1>12. ASSUME TaskCommit(t) PROVE IInv'
  <2>1. /\ TaskStep(t, "commit", "info") /\ taskUnchanged /\ UNCHANGED mailbox
        /\ commit_block(old.block)
    BY <1>1, <1>12 DEF TaskCommit
  <2>2. old.block \in stored' /\ UNCHANGED <<startup, flushed>> BY <2>1 DEF commit_block
  <2>3. StoreInv' /\ StoreGrows BY <1>0, <1>3, <2>1, SmallWrites
  <2>4. old.block \in Valid /\ old.block \in flushed BY <1>1, <1>2, <2>1 DEF TaskStep, TaskFits
  <2> QED BY <1>0, <1>8, <2>1, <2>2, <2>3, <2>4 DEF TaskStepName
<1>13. ASSUME TaskSaveInfo(t) PROVE IInv'
  <2> DEFINE new == [old EXCEPT !.step = "notify", !.head = old.block]
  <2>1. /\ old.step = "info" /\ save_block_info(old.block, old.head)
        /\ UNCHANGED mailbox /\ taskUnchanged
    BY <1>1, <1>13 DEF TaskSaveInfo
  <2>2. task' = [task EXCEPT ![t] = new] BY <1>0, <1>1, <1>13, Zenon DEF TaskSaveInfo
  <2>3. /\ old.block \in Valid /\ old.block \in flushed /\ old.block \in stored
        /\ save_block_info(old.block, Parent[old.block]) /\ block_info[Parent[old.block]] # 0
        /\ block_info[old.current] # 0
    BY <1>2, <2>1 DEF TaskFits
  <2>4. StoreInv' /\ StoreGrows /\ block_info'[old.block] # 0 /\ UNCHANGED startup
    BY <1>0, <2>3, InfoWrite DEF block_exist
  <2>5. block_info'[old.current] # 0 BY <1>3, <2>3, <2>4, StaysExecuted
  <2>n. "notify" \in TaskStepName BY DEF TaskStepName
  <2>6. /\ new \in Task /\ new.step = "notify" /\ new.head = old.block /\ new.block = old.block
        /\ new.current = old.current
    BY <2>n, SetHead, Zenon
  <2> HIDE DEF new
  <2>7. TaskWillFit(new) BY <2>4, <2>5, <2>6 DEF TaskWillFit
  <2> QED BY <1>0, <2>1, <2>2, <2>4, <2>6, <2>7, OneTaskMoves, Zenon
<1>14. ASSUME TaskNotify(t) PROVE IInv'
  <2>1. TaskStep(t, "notify", "fetch") /\ taskUnchanged /\ UNCHANGED storeVars
    BY <1>14 DEF TaskNotify
  <2>2. mailbox' \in Seq(Message)
    <3>1. [source |-> "BlockConnectedEvent", block |-> old.block] \in Message
      BY <1>3 DEF Message, Source
    <3> QED BY <1>0, <1>1, <1>14, <3>1, NotifyTypeOK DEF TaskNotify
  <2>3. StoreInv' /\ StoreGrows /\ UNCHANGED startup BY <1>0, <2>1, StoreKept DEF storeVars
  <2> QED BY <1>8, <2>1, <2>2, <2>3 DEF TaskStepName
<1> QED BY <1>5, <1>6, <1>7, <1>9, <1>10, <1>11, <1>12, <1>13, <1>14 DEF SyncTaskStep

=============================================================================
