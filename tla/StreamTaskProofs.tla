-------------------------- MODULE StreamTaskProofs --------------------------
(***************************************************************************)
(* Proofs about StreamTask for any number of sub tasks and items, any      *)
(* buffer size, any number of retries and any length of the chain.         *)
(***************************************************************************)
EXTENDS StreamTask, SequenceTheorems, TLAPS

SubTask == [id : Nat, attempt : Nat, result : {"running", "ok", "error"}]

LEMMA ItemsType ==
    ASSUME NEW n \in Nat, n > 0
    PROVE  /\ Items(n) \in Seq(Nat)
           /\ Len(Items(n)) = ItemsPerTask
           /\ \A k \in 1 .. ItemsPerTask : Items(n)[k] = (n - 1) * ItemsPerTask + k
<1>1. n - 1 \in Nat OBVIOUS
<1>2. (n - 1) * ItemsPerTask \in Nat BY <1>1, StreamAssumption
<1>3. \A k \in 1 .. ItemsPerTask : (n - 1) * ItemsPerTask + k \in Nat BY <1>2, StreamAssumption
<1> DEFINE f == [k \in 1 .. ItemsPerTask |-> (n - 1) * ItemsPerTask + k]
<1>4. f \in Seq(Nat) /\ Len(f) = ItemsPerTask BY <1>3, StreamAssumption
<1> QED BY <1>4, Zenon DEF Items

LEMMA HeadTail ==
    ASSUME NEW S, NEW s \in Seq(S), s # <<>>
    PROVE  /\ Head(s) \in S /\ Head(s) = s[1]
           /\ Tail(s) \in Seq(S)
           /\ Len(s) \in Nat \ {0} /\ Len(Tail(s)) = Len(s) - 1
           /\ \A i \in 1 .. Len(Tail(s)) : Tail(s)[i] = s[i + 1]
BY HeadTailProperties

LEMMA InitIInv == Init => IInv
<1> SUFFICES ASSUME Init PROVE IInv OBVIOUS
<1>1. <<>> \in Seq(Nat) /\ <<>> \in Seq(SubTask) OBVIOUS
<1>a. 1 \in 1 .. SubTasks + 1 /\ 1 \in 1 .. Stages BY StreamAssumption
<1>2. TypeOK BY <1>1, <1>a, Zenon DEF Init, TypeOK, SubTask
<1>3. Len(<<>>) = 0 OBVIOUS
<1>4. 0 * ItemsPerTask = 0 BY StreamAssumption
<1>5. InOrder /\ Contiguous /\ OkIsComplete
  BY <1>3, <1>4 DEF Init, InOrder, Contiguous, OkIsComplete
<1> QED BY <1>2, <1>5 DEF IInv

(* A step that leaves the items alone and does not start to wait or        *)
(* succeed keeps the invariant's parts about items.                        *)
LEMMA StartKeeps ==
    ASSUME NEW s \in 1 .. Stages, StartTask(s) PROVE IInv'
<1>1. <<>> \in Seq(Nat) /\ <<>> \in Seq(SubTask) OBVIOUS
<1>a. 1 \in 1 .. SubTasks + 1 /\ 1 \in 1 .. Stages BY StreamAssumption
<1>2. TypeOK' BY <1>1, <1>a, Zenon DEF StartTask, TypeOK, SubTask
<1>3. Len(<<>>) = 0 OBVIOUS
<1>4. 0 * ItemsPerTask = 0 BY StreamAssumption
<1>5. InOrder' /\ Contiguous' /\ OkIsComplete'
  BY <1>3, <1>4 DEF StartTask, InOrder, Contiguous, OkIsComplete
<1> QED BY <1>2, <1>5 DEF IInv

LEMMA NewSubTaskKeeps == ASSUME IInv, NewSubTask PROVE IInv'
<1> DEFINE r == [id |-> next, attempt |-> 1, result |-> "running"]
<1>1. window \in Seq(SubTask) /\ r \in SubTask /\ next \in Nat /\ next <= SubTasks
  BY StreamAssumption DEF IInv, TypeOK, NewSubTask, SubTask
<1>2. /\ window' \in Seq(SubTask)
      /\ Len(window') = Len(window) + 1
      /\ \A i \in 1 .. Len(window) : window'[i] = window[i]
      /\ window'[Len(window) + 1] = r
  BY <1>1, AppendProperties DEF NewSubTask
<1>3. next' = next + 1 /\ UNCHANGED <<stage, batch, channel, closed, collected, collector, main>>
  BY DEF NewSubTask
<1>4. TypeOK' BY <1>1, <1>2, <1>3, StreamAssumption DEF IInv, TypeOK, SubTask
<1>5. main = "sending" BY DEF NewSubTask, Polling
<1>6. Len(window) \in Nat BY <1>1
<1>7. \A i \in 1 .. Len(window') : window'[i].id = next' - Len(window') + i - 1
  <2> SUFFICES ASSUME NEW i \in 1 .. Len(window') PROVE window'[i].id = next' - Len(window') + i - 1
    OBVIOUS
  <2>1. CASE i \in 1 .. Len(window)
    BY <1>1, <1>2, <1>3, <1>5, <1>6, <2>1 DEF IInv, Contiguous
  <2>2. CASE i = Len(window) + 1 BY <1>1, <1>2, <1>3, <1>6, <2>2
  <2> QED BY <1>2, <1>6, <2>1, <2>2
<1>8. next' - Len(window') - 1 = next - Len(window) - 1 BY <1>1, <1>2, <1>3, <1>6
<1>9. Contiguous'
  BY <1>1, <1>2, <1>3, <1>5, <1>6, <1>7, <1>8 DEF IInv, Contiguous
<1> QED BY <1>3, <1>4, <1>9 DEF IInv, InOrder, OkIsComplete

(* The result of a sub task changes nothing but its record.                *)
LEMMA SubTaskKeeps ==
    ASSUME IInv, NEW i \in 1 .. Len(window), SubTaskOk(i) \/ handle(i) PROVE IInv'
<1>1. window \in Seq(SubTask) BY DEF IInv, TypeOK, SubTask
<1>2. PICK r \in SubTask : window' = [window EXCEPT ![i] = r] /\ r.id = window[i].id
  <2>1. window[i] \in SubTask BY <1>1
  <2>2. CASE window' = [window EXCEPT ![i].result = "ok"]
    <3> DEFINE r == [window[i] EXCEPT !.result = "ok"]
    <3>1. r \in SubTask /\ r.id = window[i].id BY <2>1 DEF SubTask
    <3>2. window' = [window EXCEPT ![i] = r] BY <2>2
    <3> QED BY <3>1, <3>2, Zenon
  <2>3. CASE window' = [window EXCEPT ![i].result = "error"]
    <3> DEFINE r == [window[i] EXCEPT !.result = "error"]
    <3>1. r \in SubTask /\ r.id = window[i].id BY <2>1 DEF SubTask
    <3>2. window' = [window EXCEPT ![i] = r] BY <2>3
    <3> QED BY <3>1, <3>2, Zenon
  <2>4. CASE window' = [window EXCEPT ![i].attempt = @ + 1]
    <3> DEFINE r == [window[i] EXCEPT !.attempt = @ + 1]
    <3>1. r \in SubTask /\ r.id = window[i].id BY <2>1 DEF SubTask
    <3>2. window' = [window EXCEPT ![i] = r] BY <2>4
    <3> QED BY <3>1, <3>2, Zenon
  <2> QED BY <2>2, <2>3, <2>4 DEF SubTaskOk, handle
<1>3. /\ window' \in Seq(SubTask) /\ Len(window') = Len(window)
      /\ \A k \in 1 .. Len(window) : window'[k].id = window[k].id
  BY <1>1, <1>2
<1>4. UNCHANGED <<stage, next, batch, channel, closed, collected, collector, main>>
  BY DEF SubTaskOk, handle
<1>5. TypeOK' BY <1>3, <1>4 DEF IInv, TypeOK, SubTask
<1>6. Contiguous' BY <1>3, <1>4 DEF IInv, Contiguous
<1> QED BY <1>4, <1>5, <1>6 DEF IInv, InOrder, OkIsComplete

LEMMA YieldKeeps == ASSUME IInv, Yield PROVE IInv'
<1> DEFINE K == ItemsPerTask
           first == next - Len(window)
<1>1. window \in Seq(SubTask) /\ window # <<>> BY DEF IInv, TypeOK, SubTask, Yield
<1>2. /\ Head(window) = window[1] /\ Tail(window) \in Seq(SubTask)
      /\ Len(window) \in Nat \ {0} /\ Len(Tail(window)) = Len(window) - 1
      /\ \A i \in 1 .. Len(Tail(window)) : Tail(window)[i] = window[i + 1]
  BY <1>1, HeadTail
<1>3. main = "sending" /\ batch = <<>> /\ window' = Tail(window)
      /\ batch' = Items(window[1].id)
      /\ UNCHANGED <<stage, next, channel, closed, collected, collector, main>>
  BY <1>2 DEF Yield, Polling
<1>4. next \in Nat /\ Len(window) < next BY <1>3, StreamAssumption DEF IInv, TypeOK, Contiguous
<1>5. first \in Nat /\ first > 0 /\ window[1].id = first
  BY <1>2, <1>3, <1>4 DEF IInv, Contiguous
<1>6. /\ batch' \in Seq(Nat) /\ Len(batch') = K
      /\ \A k \in 1 .. K : batch'[k] = (first - 1) * K + k
  BY <1>3, <1>5, ItemsType, Zenon
<1>7. TypeOK' BY <1>2, <1>3, <1>6 DEF IInv, TypeOK, SubTask
<1>8. \A i \in 1 .. Len(window') : window'[i].id = next' - Len(window') + i - 1
  BY <1>2, <1>3, <1>4 DEF IInv, Contiguous
<1>9. next' - Len(window') - 1 = first BY <1>2, <1>3, <1>4
<1>10. first * K = (first - 1) * K + K
  <2> HIDE DEF first
  <2>1. K \in Nat BY StreamAssumption
  <2> HIDE DEF K
  <2> QED BY <1>5, <2>1
<1>11. collector = "running" => Len(collected) + Len(channel) = (first - 1) * K
  BY <1>3 DEF IInv, Contiguous, TypeOK
<1>12. Len(window') < next' BY <1>2, <1>3, <1>4
<1>13. collector' = "running" =>
        /\ \A i \in 1 .. Len(batch') : batch'[i] = Len(collected') + Len(channel') + i
        /\ Len(collected') + Len(channel') + Len(batch') = (next' - Len(window') - 1) * K
  BY <1>3, <1>6, <1>9, <1>10, <1>11, Zenon
<1>14. Contiguous' BY <1>3, <1>8, <1>12, <1>13 DEF IInv, Contiguous
<1> QED BY <1>3, <1>7, <1>14 DEF IInv, InOrder, OkIsComplete

LEMMA SendKeeps == ASSUME IInv, Send PROVE IInv'
<1>1. batch \in Seq(Nat) /\ batch # <<>> /\ channel \in Seq(Nat) /\ collected \in Seq(Nat)
  BY DEF IInv, TypeOK, Send
<1>2. /\ Head(batch) \in Nat /\ Head(batch) = batch[1] /\ Tail(batch) \in Seq(Nat)
      /\ Len(batch) \in Nat \ {0} /\ Len(Tail(batch)) = Len(batch) - 1
      /\ \A i \in 1 .. Len(Tail(batch)) : Tail(batch)[i] = batch[i + 1]
  BY <1>1, HeadTail
<1>3. main = "sending" /\ collector = "running" /\ batch' = Tail(batch)
      /\ channel' = Append(channel, Head(batch))
      /\ UNCHANGED <<stage, next, window, closed, collected, collector, main>>
  BY DEF Send
<1>4. /\ channel' \in Seq(Nat) /\ Len(channel') = Len(channel) + 1
      /\ \A i \in 1 .. Len(channel) : channel'[i] = channel[i]
      /\ channel'[Len(channel) + 1] = batch[1]
  BY <1>1, <1>2, <1>3, AppendProperties
<1>5. TypeOK' BY <1>2, <1>3, <1>4 DEF IInv, TypeOK
<1>6. Len(channel) \in Nat /\ Len(collected) \in Nat BY <1>1
<1>7. \A i \in 1 .. Len(batch) : batch[i] = Len(collected) + Len(channel) + i
  BY <1>3 DEF IInv, Contiguous
<1>8. \A i \in 1 .. Len(channel') : channel'[i] = Len(collected') + i
  <2> SUFFICES ASSUME NEW i \in 1 .. Len(channel') PROVE channel'[i] = Len(collected') + i OBVIOUS
  <2>1. CASE i \in 1 .. Len(channel) BY <1>3, <1>4, <2>1 DEF IInv, Contiguous
  <2>2. CASE i = Len(channel) + 1
    <3>1. batch[1] = Len(collected) + Len(channel) + 1 BY <1>2, <1>7
    <3> QED BY <1>3, <1>4, <1>6, <2>2, <3>1
  <2> QED BY <1>4, <1>6, <2>1, <2>2
<1>9. \A i \in 1 .. Len(batch') : batch'[i] = Len(collected') + Len(channel') + i
  <2> SUFFICES ASSUME NEW i \in 1 .. Len(batch')
      PROVE batch'[i] = Len(collected') + Len(channel') + i
    OBVIOUS
  <2>1. batch'[i] = batch[i + 1] /\ i + 1 \in 1 .. Len(batch) BY <1>2, <1>3
  <2>2. i \in Nat BY <1>2, <1>3
  <2>3. batch[i + 1] = Len(collected) + Len(channel) + (i + 1) BY <1>7, <2>1
  <2>4. Len(collected') + Len(channel') + i = Len(collected) + Len(channel) + (i + 1)
    BY <1>3, <1>4, <1>6, <2>2
  <2> QED BY <2>1, <2>3, <2>4
<1>10. Len(collected') + Len(channel') + Len(batch') = Len(collected) + Len(channel) + Len(batch)
  BY <1>2, <1>3, <1>4, <1>6
<1>11. Contiguous' BY <1>3, <1>8, <1>9, <1>10, Zenon DEF IInv, Contiguous
<1> QED BY <1>3, <1>5, <1>11 DEF IInv, InOrder, OkIsComplete

LEMMA CollectKeeps == ASSUME IInv, Collect PROVE IInv'
<1>1. channel \in Seq(Nat) /\ channel # <<>> /\ collected \in Seq(Nat)
  BY DEF IInv, TypeOK, Collect
<1>2. /\ Head(channel) \in Nat /\ Head(channel) = channel[1] /\ Tail(channel) \in Seq(Nat)
      /\ Len(channel) \in Nat \ {0} /\ Len(Tail(channel)) = Len(channel) - 1
      /\ \A i \in 1 .. Len(Tail(channel)) : Tail(channel)[i] = channel[i + 1]
  BY <1>1, HeadTail
<1>3. collector = "running" /\ collected' = Append(collected, Head(channel))
      /\ UNCHANGED <<stage, next, window, batch, closed, main>>
  BY DEF Collect
<1>4. /\ collected' \in Seq(Nat) /\ Len(collected') = Len(collected) + 1
      /\ \A i \in 1 .. Len(collected) : collected'[i] = collected[i]
      /\ collected'[Len(collected) + 1] = channel[1]
  BY <1>1, <1>2, <1>3, AppendProperties
<1>5. Len(collected) \in Nat BY <1>1
<1>6. \A i \in 1 .. Len(channel) : channel[i] = Len(collected) + i
  BY <1>3 DEF IInv, Contiguous
<1>7. channel[1] = Len(collected) + 1 BY <1>2, <1>6
<1>8. InOrder'
  <2> SUFFICES ASSUME NEW i \in 1 .. Len(collected') PROVE collected'[i] = i BY DEF InOrder
  <2>1. CASE i \in 1 .. Len(collected) BY <1>4, <2>1 DEF IInv, InOrder
  <2>2. CASE i = Len(collected) + 1 BY <1>4, <1>7, <2>2
  <2> QED BY <1>4, <1>5, <2>1, <2>2
<1>9. main # "ok" BY <1>3 DEF IInv, OkIsComplete
<1>10. OkIsComplete' BY <1>3, <1>9 DEF OkIsComplete
<1>11. CASE channel' = Tail(channel) /\ UNCHANGED collector
  <2>1. TypeOK' BY <1>2, <1>3, <1>4, <1>11 DEF IInv, TypeOK
  <2>2. \A i \in 1 .. Len(channel') : channel'[i] = Len(collected') + i
    <3> SUFFICES ASSUME NEW i \in 1 .. Len(channel') PROVE channel'[i] = Len(collected') + i OBVIOUS
    <3>1. channel'[i] = channel[i + 1] /\ i + 1 \in 1 .. Len(channel) BY <1>2, <1>11
    <3> QED BY <1>4, <1>5, <1>6, <3>1
  <2>3. Len(collected') + Len(channel') = Len(collected) + Len(channel)
    BY <1>2, <1>4, <1>5, <1>11
  <2>4. Contiguous' BY <1>3, <1>11, <2>2, <2>3, Zenon DEF IInv, Contiguous
  <2> QED BY <1>8, <1>10, <2>1, <2>4 DEF IInv
<1>12. CASE channel' = <<>> /\ collector' \in {"enough", "error"}
  <2>1. TypeOK' BY <1>3, <1>4, <1>12 DEF IInv, TypeOK
  <2>2. Contiguous' BY <1>3, <1>12 DEF IInv, Contiguous
  <2> QED BY <1>8, <1>10, <2>1, <2>2 DEF IInv
<1> QED BY <1>11, <1>12 DEF Collect

LEMMA StreamEndKeeps == ASSUME IInv, StreamEnd PROVE IInv'
<1>1. TypeOK' BY DEF IInv, TypeOK, StreamEnd
<1>2. window = <<>> /\ batch = <<>> /\ main = "sending" /\ next > SubTasks
  BY DEF StreamEnd, Polling
<1>3. next = SubTasks + 1 BY <1>2, StreamAssumption DEF IInv, TypeOK
<1>4. next - Len(window) - 1 = SubTasks BY <1>2, <1>3, StreamAssumption
<1>5. collector = "running" => Len(collected) + Len(channel) = SubTasks * ItemsPerTask
  BY <1>2, <1>4 DEF IInv, Contiguous, TypeOK
<1>6. Contiguous' BY <1>2, <1>5 DEF IInv, Contiguous, StreamEnd
<1> QED BY <1>1, <1>6 DEF IInv, InOrder, OkIsComplete, StreamEnd

LEMMA Inductive == IInv /\ [Next]_vars => IInv'
<1> SUFFICES ASSUME IInv, [Next]_vars PROVE IInv' OBVIOUS
<1>e. <<>> \in Seq(Nat) /\ <<>> \in Seq(SubTask) OBVIOUS
<1>1. CASE NewSubTask BY <1>1, NewSubTaskKeeps
<1>2. ASSUME NEW i \in 1 .. Len(window), SubTaskOk(i) \/ handle(i) PROVE IInv'
  BY <1>2, SubTaskKeeps
<1>3. CASE Yield BY <1>3, YieldKeeps
<1>4. CASE StreamError
  <2>1. TypeOK' BY <1>4, <1>e DEF IInv, TypeOK, StreamError, SubTask
  <2> QED BY <1>4, <2>1 DEF IInv, InOrder, Contiguous, OkIsComplete, StreamError
<1>5. CASE StreamEnd BY <1>5, StreamEndKeeps
<1>6. CASE Send BY <1>6, SendKeeps
<1>7. CASE SendEnough
  <2>1. TypeOK' BY <1>7, <1>e DEF IInv, TypeOK, SendEnough, SubTask
  <2> QED BY <1>7, <2>1 DEF IInv, InOrder, Contiguous, OkIsComplete, SendEnough
<1>8. CASE Collect BY <1>8, CollectKeeps
<1>9. CASE CollectorEnd
  <2>1. TypeOK' BY <1>9 DEF IInv, TypeOK, CollectorEnd
  <2>2. Len(channel) = 0 BY <1>9 DEF CollectorEnd
  <2>3. main # "sending" BY <1>9 DEF IInv, Contiguous, CollectorEnd
  <2>4. main # "ok" BY <1>9 DEF IInv, OkIsComplete, CollectorEnd
  <2>5. Len(collected) \in Nat BY DEF IInv, TypeOK
  <2> QED BY <1>9, <2>1, <2>2, <2>3, <2>4, <2>5
          DEF IInv, InOrder, Contiguous, OkIsComplete, CollectorEnd
<1>10. CASE wait_output
  <2>1. TypeOK' BY <1>10 DEF IInv, TypeOK, wait_output
  <2> QED BY <1>10, <2>1 DEF IInv, TypeOK, InOrder, Contiguous, OkIsComplete, wait_output
<1>11. CASE AndThen
  <2>1. CASE StartTask(stage + 1)
    <3>1. stage + 1 \in 1 .. Stages BY <1>11, StreamAssumption DEF AndThen, IInv, TypeOK
    <3> QED BY <2>1, <3>1, StartKeeps
  <2>2. CASE main' = "break" /\ UNCHANGED <<stage, next, window, batch, channel, closed, collected, collector>>
    <3>1. TypeOK' BY <2>2 DEF IInv, TypeOK
    <3> QED BY <2>2, <3>1 DEF IInv, InOrder, Contiguous, OkIsComplete
  <2> QED BY <1>11, <2>1, <2>2 DEF AndThen
<1>12. CASE cancel
  <2>1. TypeOK' BY <1>12, <1>e DEF IInv, TypeOK, cancel, SubTask
  <2> QED BY <1>12, <2>1 DEF IInv, InOrder, Contiguous, OkIsComplete, cancel
<1>13. CASE UNCHANGED vars
  BY <1>13 DEF vars, IInv, TypeOK, InOrder, Contiguous, OkIsComplete
<1> QED BY <1>1, <1>2, <1>3, <1>4, <1>5, <1>6, <1>7, <1>8, <1>9, <1>10, <1>11, <1>12, <1>13
        DEF Next, Step

(* The inductive invariant holds in every reachable state.                 *)
THEOREM Invariance == Spec => []IInv
BY InitIInv, Inductive, PTL DEF Spec

(* The collector of a task sees the items in order, without a gap and      *)
(* without a repetition, however the sub tasks complete, fail and retry.   *)
THEOREM CollectsInOrder == Spec => []InOrder
<1>1. IInv => InOrder BY DEF IInv
<1> QED BY <1>1, Invariance, PTL

(* A task that reports success has collected everything its collector      *)
(* wanted.                                                                 *)
THEOREM SuccessIsComplete == Spec => []OkIsComplete
<1>1. IInv => OkIsComplete BY DEF IInv
<1> QED BY <1>1, Invariance, PTL

=============================================================================
