----------------------------- MODULE NodeEvents -----------------------------
(***************************************************************************)
(* The services of a node that follow the state of block synchronisation,  *)
(* with the requests to the bus that each of them makes in `started` and   *)
(* `stopped`.                                                              *)
(***************************************************************************)
EXTENDS ServiceBus

NodeEvent == {"SyncStatusChange", "NewHeadBlock", "NewBranch"}

Subscribe(e) == [op |-> "subscribe", event |-> e, sent |-> FALSE]

Unsubscribe(e) == [op |-> "unsubscribe", event |-> e, sent |-> FALSE]

PacemakerStarted == <<Subscribe("SyncStatusChange"), Subscribe("NewHeadBlock")>>

PacemakerStopped == <<Unsubscribe("SyncStatusChange"), Unsubscribe("NewHeadBlock")>>

BlockRelayerStarted ==
    <<Subscribe("SyncStatusChange"), Subscribe("NewHeadBlock"), Subscribe("NewBranch")>>

BlockRelayerStopped ==
    <<Unsubscribe("SyncStatusChange"), Unsubscribe("NewHeadBlock"), Unsubscribe("NewBranch")>>

TxPoolStarted == <<Subscribe("SyncStatusChange")>>

TxPoolStopped == <<Unsubscribe("SyncStatusChange")>>

(* TxnSyncService: `started` makes the request of `stopped`.               *)
TxnSyncStarted == <<Unsubscribe("SyncStatusChange")>>

TxnSyncStopped == <<Unsubscribe("SyncStatusChange")>>

NodeOnStart == [s \in Service |->
    CASE s = "pacemaker" -> PacemakerStarted
      [] s = "relayer" -> BlockRelayerStarted
      [] s = "txpool" -> TxPoolStarted
      [] s = "txn_sync" -> TxnSyncStarted]

NodeOnStop == [s \in Service |->
    CASE s = "pacemaker" -> PacemakerStopped
      [] s = "relayer" -> BlockRelayerStopped
      [] s = "txpool" -> TxPoolStopped
      [] s = "txn_sync" -> TxnSyncStopped]

-----------------------------------------------------------------------------
(* sync/src/txn_sync/mod.rs:34 "sync txn after block sync task done.":     *)
(* each service that handles the event hears of a change of the            *)
(* synchronisation status that is broadcast once its start is complete.    *)
StatusIsHeard ==
    \A n \in 1 .. MaxEvents : \A s \in Service :
        /\ bus # <<>>
        /\ Head(bus).kind = "broadcast" /\ Head(bus).event = "SyncStatusChange" /\ Head(bus).id = n
        /\ s \in started /\ waits[s] = <<>>
        ~> Contains(handled[s], n)
=============================================================================
