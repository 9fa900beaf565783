------------------------- MODULE SyncServiceProofs -------------------------
(***************************************************************************)
(* Proofs about SyncService: for any set of tasks, any chains and any      *)
(* number of waiting checks, the stage machine never has two sync tasks.   *)
(***************************************************************************)
EXTENDS SyncService, SequenceTheorems, TLAPS

(* What the short mailboxes of the service look like after one step.       *)
LEMMA ShortSequences ==
    ASSUME NEW a, NEW b
    PROVE  /\ Head(<<a>>) = a /\ Tail(<<a>>) = <<>> /\ <<a>> # <<>>
           /\ Head(<<a, b>>) = a /\ Tail(<<a, b>>) = <<b>> /\ <<a, b>> # <<>>
           /\ Append(<<>>, a) = <<a>> /\ Append(<<a>>, b) = <<a, b>>
<1>1. Head(<<a>>) = a /\ <<a>> # <<>> /\ Head(<<a, b>>) = a /\ <<a, b>> # <<>> OBVIOUS
<1> DEFINE S == {a, b}
<1>a. <<>> \in Seq(S) OBVIOUS
<1>b. <<a>> \in Seq(S) OBVIOUS
<1>2. Append(<<>>, a) = <<a>> /\ Append(<<a>>, b) = <<a, b>>
  <2>1. Append(<<>>, a) = <<a>> BY <1>a, AppendProperties
  <2>2. Append(<<a>>, b) = <<a, b>>
    <3> DEFINE s == Append(<<a>>, b)
    <3>1. s \in Seq(S) /\ Len(s) = 2 /\ s[1] = a /\ s[2] = b BY <1>b, AppendProperties
    <3>2. <<a, b>> \in Seq(S) /\ Len(<<a, b>>) = 2 OBVIOUS
    <3> HIDE DEF s
    <3>3. s = <<a, b>> BY <3>1, <3>2, SeqEqual
    <3> QED BY <3>3 DEF s
  <2> QED BY <2>1, <2>2
<1>3. Tail(<<a>>) = <<>> OBVIOUS
<1>4. Tail(<<a, b>>) = <<b>> OBVIOUS
<1> QED BY <1>1, <1>2, <1>3, <1>4

LEMMA InitIInv == Init => IInv
<1> SUFFICES ASSUME Init PROVE IInv OBVIOUS
<1>1. <<>> \in Seq([event : {"SyncBegin", "SyncDone"}, task : Task]) OBVIOUS
<1>a. task \in [Task -> [pc : Pc, target : Nat]] BY DEF Init, Idle, Pc
<1>b. 0 \in 0 .. MaxChecks BY SyncAssumption
<1>2. TypeOK BY <1>1, <1>a, <1>b DEF Init, TypeOK, Stage, State
<1>3. PICK t \in Task : TRUE BY SyncAssumption
<1>4. Fits(t) BY <1>3 DEF Init, Fits, Idle
<1> QED BY <1>2, <1>3, <1>4 DEF IInv

LEMMA TypeStep == TypeOK /\ [Next]_vars => TypeOK'
<1> SUFFICES ASSUME TypeOK, [Next]_vars PROVE TypeOK' OBVIOUS
<1> DEFINE Message == [event : {"SyncBegin", "SyncDone"}, task : Task]
<1>a. mailbox \in Seq(Message) BY DEF TypeOK
<1>b. mailbox # <<>> => Tail(mailbox) \in Seq(Message) BY <1>a
<1>c. ASSUME NEW t \in Task
      PROVE  /\ Append(mailbox, SyncBeginEvent(t)) \in Seq(Message)
             /\ Append(mailbox, SyncDoneEvent(t)) \in Seq(Message)
  BY <1>a DEF SyncBeginEvent, SyncDoneEvent
<1> USE SyncAssumption DEF TypeOK, Stage, State, Pc, outside
<1>1. CASE PeerAdvance \/ NewHead \/ NewHeadBlock BY <1>1 DEF PeerAdvance, NewHead, NewHeadBlock
<1>2. CASE SystemStarted \/ PeerOpen BY <1>2 DEF SystemStarted, PeerOpen, AddCheck
<1>3. CASE SyncCancelRequest BY <1>3 DEF SyncCancelRequest, cancel_task
<1>4. ASSUME NEW force \in BOOLEAN, SyncStartRequest(force) PROVE TypeOK'
  <2>1. CASE force BY <1>4, <2>1 DEF SyncStartRequest, cancel_task, AddCheck
  <2>2. CASE ~force BY <1>4, <2>2 DEF SyncStartRequest, AddCheck
  <2> QED BY <2>1, <2>2
<1>5. CASE StartTask
  <2>1. PICK t \in Task : task' = [task EXCEPT ![t].pc = "wait"] /\ canceled' = canceled \ {t}
    BY <1>5, Zenon DEF StartTask
  <2>2. task' \in [Task -> [pc : Pc, target : Nat]] BY <2>1, Zenon
  <2>3. canceled' \subseteq Task BY <2>1
  <2>4. checks' \in 0 .. MaxChecks BY <1>5 DEF StartTask
  <2> QED BY <1>5, <2>2, <2>3, <2>4 DEF StartTask
<1>6. CASE AlreadyStarted BY <1>6 DEF AlreadyStarted
<1>7. ASSUME NEW t \in Task, FindTarget(t) PROVE TypeOK' BY <1>7, <1>c DEF FindTarget
<1>8. ASSUME NEW t \in Task, Finish(t) PROVE TypeOK' BY <1>8, <1>c, Zenon DEF Finish
<1>9. ASSUME NEW t \in Task, SyncBegin(t) PROVE TypeOK' BY <1>9, <1>b DEF SyncBegin, ReceiveFrom
<1>10. ASSUME NEW t \in Task, SyncDone(t) PROVE TypeOK' BY <1>10, <1>b DEF SyncDone, ReceiveFrom
<1>11. CASE UNCHANGED vars BY <1>11 DEF vars
<1>12. ASSUME NEW t \in Task, EnoughPeers(t) PROVE TypeOK' BY <1>12, Zenon DEF EnoughPeers
<1>13. ASSUME NEW t \in Task, PeerSetFails(t) PROVE TypeOK' BY <1>13, <1>c, Zenon DEF PeerSetFails
<1>14. CASE PeerSetChange BY <1>14, Zenon DEF PeerSetChange
<1> QED
  BY <1>1, <1>2, <1>3, <1>4, <1>5, <1>6, <1>7, <1>8, <1>9, <1>10, <1>11, <1>12, <1>13, <1>14,
     Zenon DEF Next

LEMMA FitsStep ==
    ASSUME TypeOK, NEW t \in Task, Fits(t), [Next]_vars
    PROVE  \E u \in Task : Fits(u)'
<1> DEFINE B == SyncBeginEvent(t)
           D == SyncDoneEvent(t)
<1>s. /\ Head(<<B>>) = B /\ Tail(<<B>>) = <<>> /\ Head(<<D>>) = D /\ Tail(<<D>>) = <<>>
      /\ Head(<<B, D>>) = B /\ Tail(<<B, D>>) = <<D>>
      /\ Append(<<>>, B) = <<B>> /\ Append(<<>>, D) = <<D>> /\ Append(<<B>>, D) = <<B, D>>
      /\ <<B>> # <<>> /\ <<D>> # <<>> /\ <<B, D>> # <<>>
  BY ShortSequences
<1>m. mailbox \in {<<>>, <<B>>, <<D>>, <<B, D>>} BY DEF Fits
<1>1. CASE PeerAdvance \/ NewHead \/ NewHeadBlock \/ PeerSetChange
  BY <1>1 DEF Fits, PeerAdvance, NewHead, NewHeadBlock, PeerSetChange, outside
<1>2. CASE SystemStarted \/ PeerOpen BY <1>2 DEF Fits, SystemStarted, PeerOpen, outside
<1>3. CASE SyncCancelRequest BY <1>3 DEF Fits, SyncCancelRequest, cancel_task, outside
<1>4. ASSUME NEW force \in BOOLEAN, SyncStartRequest(force) PROVE Fits(t)'
  BY <1>4 DEF Fits, SyncStartRequest, cancel_task, outside
<1>5. CASE StartTask
  <2>1. PICK u \in Task : task' = [task EXCEPT ![u].pc = "wait"] BY <1>5, Zenon DEF StartTask
  <2>2. \A v \in Task : task[v].pc = "idle" BY <1>5 DEF Fits, StartTask
  <2>3. task'[u].pc = "wait" /\ \A v \in Task \ {u} : task'[v].pc = "idle"
    BY <2>1, <2>2 DEF TypeOK
  <2>4. Fits(u)' BY <1>5, <2>3 DEF Fits, StartTask
  <2> QED BY <2>4
<1>6. CASE AlreadyStarted BY <1>6 DEF Fits, AlreadyStarted, outside
<1>7. ASSUME NEW u \in Task, FindTarget(u) PROVE Fits(t)'
  <2>1. u = t /\ stage = "Checking" /\ mailbox = <<>> BY <1>7 DEF Fits, FindTarget
  <2>2. mailbox' = <<B>> BY <1>7, <1>s, <2>1 DEF FindTarget
  <2>3. task'[t].pc = "run" /\ \A v \in Task \ {t} : task'[v].pc = "idle"
    BY <1>7, <2>1 DEF FindTarget, Fits, TypeOK
  <2> QED BY <1>7, <2>1, <2>2, <2>3 DEF Fits, FindTarget
<1>8. ASSUME NEW u \in Task, Finish(u) PROVE Fits(t)'
  <2>1. u = t BY <1>8 DEF Fits, Finish
  <2>2. task'[t].pc = "idle" /\ \A v \in Task \ {t} : task'[v].pc = "idle"
    BY <1>8, <2>1 DEF Finish, Fits, TypeOK
  <2>3. mailbox' = Append(mailbox, D) BY <1>8, <2>1 DEF Finish
  <2>4. UNCHANGED <<stage, handle, state, started, canceled>> BY <1>8 DEF Finish, outside
  <2>5. task[t].pc \in {"check", "run"} BY <1>8, <2>1 DEF Finish
  <2>6. CASE mailbox = <<>> BY <1>s, <2>2, <2>3, <2>4, <2>5, <2>6 DEF Fits
  <2>7. CASE mailbox = <<B>>
    <3>1. mailbox' = <<B, D>> BY <1>s, <2>3, <2>7
    <3>2. <<B>> # <<D>> BY DEF SyncBeginEvent, SyncDoneEvent
    <3>3. stage = "Checking" BY <1>s, <2>5, <2>7, <3>2 DEF Fits
    <3> QED BY <2>2, <2>4, <3>1, <3>3 DEF Fits
  <2> QED BY <1>s, <2>5, <2>6, <2>7 DEF Fits
<1>9. ASSUME NEW u \in Task, SyncBegin(u) PROVE Fits(t)'
  <2>1. Head(mailbox) = SyncBeginEvent(u) /\ mailbox # <<>> /\ mailbox' = Tail(mailbox)
    BY <1>9 DEF SyncBegin, ReceiveFrom, SyncBeginEvent
  <2>2. Head(mailbox) # D BY <2>1 DEF SyncBeginEvent, SyncDoneEvent
  <2>3. mailbox = <<B>> \/ mailbox = <<B, D>> BY <1>m, <1>s, <2>1, <2>2
  <2>4. u = t BY <1>s, <2>1, <2>3 DEF SyncBeginEvent
  <2>5. mailbox # <<D>> BY <1>s, <2>2
  <2>6. stage = "Checking" BY <1>s, <2>1, <2>5 DEF Fits
  <2>7. /\ stage' = "Synchronizing" /\ handle' = t /\ UNCHANGED task
        /\ state' = "Synchronizing" \/ t \in canceled'
    BY <1>9, <2>4, <2>6 DEF SyncBegin
  <2>8. \/ mailbox' = <<>> /\ task[t].pc = "run"
        \/ mailbox' = <<D>> /\ task[t].pc = "idle"
    <3>1. <<B>> # <<B, D>> BY <1>s
    <3> QED BY <1>s, <2>1, <2>3, <2>5, <3>1, Zenon DEF Fits
  <2> QED BY <2>7, <2>8 DEF Fits
<1>10. ASSUME NEW u \in Task, SyncDone(u) PROVE Fits(t)'
  <2>1. Head(mailbox) = SyncDoneEvent(u) /\ mailbox # <<>> /\ mailbox' = Tail(mailbox)
    BY <1>10 DEF SyncDone, ReceiveFrom, SyncDoneEvent
  <2>2. Head(mailbox) # B BY <2>1 DEF SyncBeginEvent, SyncDoneEvent
  <2>3. mailbox = <<D>> BY <1>m, <1>s, <2>1, <2>2
  <2>4. mailbox # <<B>> /\ mailbox # <<B, D>> BY <1>s, <2>2
  <2>5. task[t].pc = "idle" BY <2>1, <2>3, <2>4, <1>s DEF Fits
  <2>6. mailbox' = <<>> /\ stage' = "Done" /\ UNCHANGED task
    BY <1>10, <1>s, <2>1, <2>3 DEF SyncDone
  <2> QED BY <2>5, <2>6 DEF Fits
<1>11. CASE UNCHANGED vars BY <1>11 DEF vars, outside, Fits
<1>12. ASSUME NEW u \in Task, EnoughPeers(u) PROVE Fits(t)'
  <2>1. u = t /\ stage = "Checking" /\ mailbox = <<>> BY <1>12 DEF Fits, EnoughPeers
  <2>2. task'[t].pc = "check" /\ \A v \in Task \ {t} : task'[v].pc = "idle"
    BY <1>12, <2>1 DEF EnoughPeers, Fits, TypeOK
  <2> QED BY <1>12, <2>1, <2>2 DEF Fits, EnoughPeers
<1>13. ASSUME NEW u \in Task, PeerSetFails(u) PROVE Fits(t)'
  <2>1. u = t /\ stage = "Checking" /\ mailbox = <<>> BY <1>13 DEF Fits, PeerSetFails
  <2>2. mailbox' = <<D>> BY <1>13, <1>s, <2>1 DEF PeerSetFails
  <2>3. task'[t].pc = "idle" /\ \A v \in Task \ {t} : task'[v].pc = "idle"
    BY <1>13, <2>1 DEF PeerSetFails, Fits, TypeOK
  <2> QED BY <1>13, <2>1, <2>2, <2>3 DEF Fits, PeerSetFails
<1> QED
  BY <1>1, <1>2, <1>3, <1>4, <1>5, <1>6, <1>7, <1>8, <1>9, <1>10, <1>11, <1>12, <1>13 DEF Next

(* The inductive invariant holds in every reachable state.                 *)
THEOREM Invariance == Spec => []IInv
<1>1. IInv /\ [Next]_vars => IInv'
  <2> SUFFICES ASSUME IInv, [Next]_vars PROVE IInv' OBVIOUS
  <2>1. PICK t \in Task : Fits(t) BY DEF IInv
  <2>2. \E u \in Task : Fits(u)' BY <2>1, FitsStep DEF IInv
  <2>3. TypeOK' BY TypeStep DEF IInv
  <2> QED BY <2>2, <2>3 DEF IInv
<1> QED BY <1>1, InitIInv, PTL DEF Spec

(* The service never has two sync tasks, whatever the interleaving of its  *)
(* checks, its cancel requests and the messages of the task.               *)
THEOREM NeverTwoTasks == Spec => []OneTask
<1>1. IInv => OneTask
  <2> SUFFICES ASSUME IInv PROVE OneTask OBVIOUS
  <2>1. PICK t \in Task : Fits(t) BY DEF IInv
  <2> QED BY <2>1, ShortSequences DEF Fits, OneTask
<1> QED BY <1>1, Invariance, PTL

(* While the service holds a task that is not canceled, the status shows   *)
(* it, whatever the head did between the choice of the target and          *)
(* SyncBegin.                                                              *)
THEOREM NothingRunsUnseen == Spec => []SyncIsShown
<1>1. IInv => SyncIsShown
  <2> SUFFICES ASSUME IInv, stage = "Synchronizing", started # "late"
      PROVE  state = "Synchronizing" \/ handle \in canceled
    BY DEF SyncIsShown
  <2>1. PICK t \in Task : Fits(t) BY DEF IInv
  <2> QED BY <2>1 DEF Fits
<1> QED BY <1>1, Invariance, PTL

(* The branches of the SyncBeginEvent handler that its comments call       *)
(* unexpected are never taken.                                             *)
THEOREM UnexpectedNeverHappens == Spec => []BeginOnlyInChecking
<1>1. IInv => BeginOnlyInChecking
  <2> SUFFICES ASSUME IInv, mailbox # <<>>, Head(mailbox).event = "SyncBegin"
      PROVE stage = "Checking"
    BY DEF BeginOnlyInChecking
  <2>1. PICK t \in Task : Fits(t) BY DEF IInv
  <2>2. Head(<<SyncDoneEvent(t)>>).event = "SyncDone" BY DEF SyncDoneEvent
  <2>3. mailbox # <<SyncDoneEvent(t)>> BY <2>2
  <2> QED BY <2>1, <2>3 DEF Fits
<1> QED BY <1>1, Invariance, PTL

=============================================================================
