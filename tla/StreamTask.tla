----------------------------- MODULE StreamTask -----------------------------
(***************************************************************************)
(* commons/stream-task: a task is a stream of sub tasks that run           *)
(* concurrently and are retried, whose items are sent in order through a   *)
(* bounded channel to a collector that runs in a task of its own; tasks    *)
(* are chained with and_then and can be canceled.  The downloads of the    *)
(* block synchronisation are such chains.                                  *)
(***************************************************************************)
EXTENDS Naturals, Sequences

CONSTANTS
    SubTasks,       \* number of sub tasks of a task (TaskState::next)
    ItemsPerTask,   \* items a sub task returns
    BufferSize,     \* sub tasks in flight, and the channel's buffer
    MaxRetryTimes,  \* max_retry_times
    Stages          \* length of the and_then chain

ASSUME StreamAssumption ==
    /\ SubTasks \in Nat \ {0} /\ ItemsPerTask \in Nat /\ BufferSize \in Nat \ {0}
    /\ MaxRetryTimes \in Nat /\ Stages \in Nat \ {0}

VARIABLES
    stage,      \* which task of the chain runs
    next,       \* the next sub task of the stream
    window,     \* the sub tasks in flight, in order
    batch,      \* items of the last yielded sub task that are still to send
    channel,    \* items in the channel
    closed,     \* no sender is left
    collected,  \* items the collector took
    collector,  \* the collector's task
    main        \* the task's future

vars == <<stage, next, window, batch, channel, closed, collected, collector, main>>

(* The items of sub task i, numbered through the whole task.               *)
Items(i) == [k \in 1 .. ItemsPerTask |-> (i - 1) * ItemsPerTask + k]

StartTask(s) ==
    /\ stage' = s
    /\ next' = 1
    /\ window' = <<>> /\ batch' = <<>> /\ channel' = <<>>
    /\ closed' = FALSE
    /\ collected' = <<>>
    /\ collector' = "running"
    /\ main' = "sending"

Init ==
    /\ stage = 1
    /\ next = 1
    /\ window = <<>> /\ batch = <<>> /\ channel = <<>>
    /\ closed = FALSE
    /\ collected = <<>>
    /\ collector = "running"
    /\ main = "sending"

-----------------------------------------------------------------------------
(* The stream.  It is only polled while no item waits to be sent.          *)
Polling == main = "sending" /\ batch = <<>>

(* Mutant: the state is not advanced when the window is filled.            *)
NewSubTask_Repeat ==
    /\ Polling
    /\ next <= SubTasks
    /\ Len(window) < BufferSize
    /\ window' = Append(window, [id |-> next, attempt |-> 1, result |-> "running"])
    /\ next' \in {next, next + 1}
    /\ UNCHANGED <<stage, batch, channel, closed, collected, collector, main>>

(* poll_next: the buffered stream fills its window.                        *)
NewSubTask ==
    /\ Polling
    /\ next <= SubTasks
    /\ Len(window) < BufferSize
    /\ window' = Append(window, [id |-> next, attempt |-> 1, result |-> "running"])
    /\ next' = next + 1
    /\ UNCHANGED <<stage, batch, channel, closed, collected, collector, main>>

SubTaskOk(i) ==
    /\ Polling
    /\ window[i].result = "running"
    /\ window' = [window EXCEPT ![i].result = "ok"]
    /\ UNCHANGED <<stage, next, batch, channel, closed, collected, collector, main>>

(* TaskErrorHandle::handle: an error is retried up to MaxRetryTimes, a     *)
(* BreakError is forwarded at once.                                        *)
handle(i) ==
    /\ Polling
    /\ window[i].result = "running"
    /\ \/ window' = IF window[i].attempt > MaxRetryTimes
                    THEN [window EXCEPT ![i].result = "error"]
                    ELSE [window EXCEPT ![i].attempt = @ + 1]
       \/ window' = [window EXCEPT ![i].result = "error"]
    /\ UNCHANGED <<stage, next, batch, channel, closed, collected, collector, main>>

(* Mutant: the first finished sub task is yielded, as buffer_unordered.    *)
Yield_Unordered ==
    /\ Polling
    /\ \E i \in 1 .. Len(window) :
        /\ window[i].result = "ok"
        /\ batch' = Items(window[i].id)
        /\ window' = SubSeq(window, 1, i - 1) \o SubSeq(window, i + 1, Len(window))
    /\ UNCHANGED <<stage, next, channel, closed, collected, collector, main>>

(* buffered: the oldest sub task is yielded once it has finished.          *)
Yield ==
    /\ Polling
    /\ window # <<>>
    /\ Head(window).result = "ok"
    /\ batch' = Items(Head(window).id)
    /\ window' = Tail(window)
    /\ UNCHANGED <<stage, next, channel, closed, collected, collector, main>>

(* send_all returns the first error; the sink is dropped, its collector    *)
(* task is detached and drains the channel.                                *)
StreamError ==
    /\ Polling
    /\ window # <<>>
    /\ Head(window).result = "error"
    /\ main' = "error"
    /\ window' = <<>>
    /\ closed' = TRUE
    /\ UNCHANGED <<stage, next, batch, channel, collected, collector>>

StreamEnd ==
    /\ Polling
    /\ window = <<>>
    /\ next > SubTasks
    /\ main' = "waiting"
    /\ closed' = TRUE
    /\ UNCHANGED <<stage, next, window, batch, channel, collected, collector>>

-----------------------------------------------------------------------------
(* The sink and the collector's task.                                      *)

(* A futures channel holds its buffer and one item per sender.             *)
Send ==
    /\ main = "sending"
    /\ batch # <<>>
    /\ collector = "running"
    /\ Len(channel) < BufferSize + 1
    /\ channel' = Append(channel, Head(batch))
    /\ batch' = Tail(batch)
    /\ UNCHANGED <<stage, next, window, closed, collected, collector, main>>

(* The receiver is gone: the sink maps that to CollectorEnough, no error.  *)
SendEnough ==
    /\ main = "sending"
    /\ batch # <<>>
    /\ collector # "running"
    /\ main' = "waiting"
    /\ batch' = <<>>
    /\ window' = <<>>
    /\ closed' = TRUE
    /\ UNCHANGED <<stage, next, channel, collected, collector>>

(* The collector needs more items, has enough, or fails: in the last two   *)
(* cases its task ends and the receiver is dropped.                        *)
Collect ==
    /\ collector = "running"
    /\ channel # <<>>
    /\ collected' = Append(collected, Head(channel))
    /\ \/ /\ channel' = Tail(channel)
          /\ UNCHANGED collector
       \/ /\ channel' = <<>>
          /\ collector' \in {"enough", "error"}
    /\ UNCHANGED <<stage, next, window, batch, closed, main>>

CollectorEnd ==
    /\ collector = "running"
    /\ closed
    /\ channel = <<>>
    /\ collector' \in {"finished", "error"}
    /\ UNCHANGED <<stage, next, window, batch, channel, closed, collected, main>>

(* Mutant: the output is not looked at.                                    *)
wait_output_Ignored ==
    /\ main = "waiting"
    /\ collector # "running"
    /\ main' = "ok"
    /\ UNCHANGED <<stage, next, window, batch, channel, closed, collected, collector>>

wait_output ==
    /\ main = "waiting"
    /\ collector # "running"
    /\ main' = IF collector = "error" THEN "error" ELSE "ok"
    /\ UNCHANGED <<stage, next, window, batch, channel, closed, collected, collector>>

-----------------------------------------------------------------------------
(* and_then: the next task starts from the output, or its init function    *)
(* fails with a BreakError.                                                *)
AndThen ==
    /\ main = "ok"
    /\ stage < Stages
    /\ \/ StartTask(stage + 1)
       \/ /\ main' = "break"
          /\ UNCHANGED <<stage, next, window, batch, channel, closed, collected, collector>>

(* Mutant: the future is aborted but keeps the sender.                     *)
cancel_KeepSender ==
    /\ main \in {"sending", "waiting"}
    /\ main' = "canceled"
    /\ window' = <<>>
    /\ batch' = <<>>
    /\ UNCHANGED <<stage, next, channel, closed, collected, collector>>

(* TaskHandle::cancel aborts the future: the stream and the sink are       *)
(* dropped, the collector's task is detached.                              *)
cancel ==
    /\ main \in {"sending", "waiting"}
    /\ main' = "canceled"
    /\ window' = <<>>
    /\ batch' = <<>>
    /\ closed' = TRUE
    /\ UNCHANGED <<stage, next, channel, collected, collector>>

-----------------------------------------------------------------------------
Step ==
    \/ NewSubTask
    \/ \E i \in 1 .. Len(window) : SubTaskOk(i) \/ handle(i)
    \/ Yield \/ StreamError \/ StreamEnd
    \/ Send \/ SendEnough \/ Collect \/ CollectorEnd \/ wait_output
    \/ AndThen

Next == Step \/ cancel

(* The executor polls what is ready, and every request of a sub task is    *)
(* answered or times out.                                                  *)
Spec == Init /\ [][Next]_vars /\ WF_vars(Step)

-----------------------------------------------------------------------------
TypeOK ==
    /\ stage \in 1 .. Stages
    /\ next \in 1 .. SubTasks + 1
    /\ window \in Seq([id : Nat, attempt : Nat, result : {"running", "ok", "error"}])
    /\ batch \in Seq(Nat) /\ channel \in Seq(Nat) /\ collected \in Seq(Nat)
    /\ closed \in BOOLEAN
    /\ collector \in {"running", "enough", "finished", "error"}
    /\ main \in {"sending", "waiting", "ok", "error", "break", "canceled"}

(* What was collected is the beginning of the item sequence: concurrent    *)
(* sub tasks, retries, errors and cancels lose, repeat and reorder nothing *)
(* in between.                                                             *)
InOrder == \A i \in 1 .. Len(collected) : collected[i] = i

(* A task that succeeds has collected every item, or as many as its        *)
(* collector asked for; a collector's error is never a success.            *)
OkIsComplete ==
    main = "ok" =>
        /\ collector \in {"enough", "finished"}
        /\ collector = "finished" => Len(collected) = SubTasks * ItemsPerTask

(* Collected, channel, batch and window are consecutive parts of the item  *)
(* sequence for as long as the collector takes items.                      *)
Contiguous ==
    /\ collector = "running" =>
        \A i \in 1 .. Len(channel) : channel[i] = Len(collected) + i
    /\ main = "sending" =>
        /\ ~closed
        /\ collector # "finished"
        /\ Len(window) < next
        /\ \A i \in 1 .. Len(window) : window[i].id = next - Len(window) + i - 1
        /\ collector = "running" =>
            /\ \A i \in 1 .. Len(batch) : batch[i] = Len(collected) + Len(channel) + i
            /\ Len(collected) + Len(channel) + Len(batch) = (next - Len(window) - 1) * ItemsPerTask
    /\ main = "waiting" =>
        /\ collector = "running" => Len(collected) + Len(channel) = SubTasks * ItemsPerTask
        /\ collector = "finished" => Len(collected) = SubTasks * ItemsPerTask

(* The inductive invariant.                                                *)
IInv == TypeOK /\ InOrder /\ Contiguous /\ OkIsComplete

(* Every task ends, and its collector's task does not stay behind, also    *)
(* when the task was canceled or failed.                                   *)
Terminates ==
    <>[](/\ \/ main \in {"error", "break", "canceled"}
            \/ main = "ok" /\ stage = Stages
         /\ collector # "running")

=============================================================================
