---------------------------- MODULE SyncService ----------------------------
(***************************************************************************)
(* SyncService: the actor that decides when the node synchronizes.  Its    *)
(* stage machine runs against the sync tasks it spawned, which report      *)
(* through its mailbox, against requests to start or to cancel, and        *)
(* against the events that make it check again.  Chains are abstracted to  *)
(* their total difficulty.                                                 *)
(***************************************************************************)
EXTENDS Naturals, Sequences

CONSTANTS
    Task,                \* names for the spawned check-and-sync futures
    MaxTotalDifficulty,  \* bound on the total difficulty of any chain
    MaxChecks            \* bound on the CheckSyncEvents that wait

ASSUME SyncAssumption ==
    /\ Task # {}
    /\ MaxTotalDifficulty \in Nat \ {0}
    /\ MaxChecks \in Nat \ {0}

VARIABLES
    stage,       \* SyncService.stage
    handle,      \* the task of SyncStage::Synchronizing
    state,       \* sync_status.state
    chain_td,    \* sync_status.chain_status.total_difficulty()
    startup_td,  \* total difficulty of the persisted head
    best_td,     \* total difficulty of the best peer
    peers,       \* whether network.peer_set() has min_peers peers
    started,     \* SystemStarted was handled: "no", "yes", or "late", when a
                 \* task was synchronizing by then (history)
    mailbox,     \* what the tasks sent to the service
    checks,      \* CheckSyncEvents that wait
    task,        \* the tasks: what they do and what they sync to
    canceled     \* the tasks whose handle was canceled

outside == <<best_td, peers, started>>

vars == <<stage, handle, state, chain_td, startup_td, outside, mailbox, checks, task, canceled>>

Stage == {"NotStart", "Checking", "Synchronizing", "Canceling", "Done"}

State == {"Prepare", "Synchronizing", "Synchronized"}

(* What a task does: "wait" for peers, "check" for a target, "run".        *)
Pc == {"idle", "wait", "check", "run"}

Idle == [pc |-> "idle", target |-> 0]

SyncBeginEvent(t) == [event |-> "SyncBegin", task |-> t]

SyncDoneEvent(t) == [event |-> "SyncDone", task |-> t]

Init ==
    /\ stage = "NotStart"
    /\ handle \in Task
    /\ state = "Prepare"
    /\ chain_td = 0
    /\ startup_td = 0
    /\ best_td = 0
    /\ peers \in BOOLEAN
    /\ started = "no"
    /\ mailbox = <<>>
    /\ checks = 0
    /\ task = [t \in Task |-> Idle]
    /\ canceled = {}

-----------------------------------------------------------------------------
(* The world: peers get better chains, the connector moves the head, and   *)
(* the bus delivers NewHeadBlock.                                          *)

PeerAdvance ==
    /\ best_td < MaxTotalDifficulty
    /\ best_td' = best_td + 1
    /\ UNCHANGED <<stage, handle, state, chain_td, startup_td, peers, started, mailbox, checks, task, canceled>>

(* A synced or a mined block becomes the head.                             *)
NewHead ==
    /\ startup_td < best_td
    /\ startup_td' = startup_td + 1
    /\ UNCHANGED <<stage, handle, state, chain_td, outside, mailbox, checks, task, canceled>>

NewHeadBlock ==
    /\ chain_td # startup_td
    /\ chain_td' = startup_td
    /\ UNCHANGED <<stage, handle, state, startup_td, outside, mailbox, checks, task, canceled>>

(* Peers connect and leave: the peer set becomes large enough or too small. *)
PeerSetChange ==
    /\ peers' = ~peers
    /\ UNCHANGED <<stage, handle, state, chain_td, startup_td, best_td, started, mailbox, checks, task, canceled>>

-----------------------------------------------------------------------------
(* Events that ask for a check.                                            *)

AddCheck ==
    /\ checks < MaxChecks
    /\ checks' = checks + 1

(* Broadcast once, and handled whatever a request has started before.      *)
SystemStarted ==
    /\ started = "no"
    /\ started' = IF stage = "Synchronizing" THEN "late" ELSE "yes"
    /\ state' = "Synchronized"
    /\ AddCheck
    /\ UNCHANGED <<stage, handle, chain_td, startup_td, best_td, peers, mailbox, task, canceled>>

(* PeerEvent::Open; before the system started it is ignored.               *)
PeerOpen ==
    /\ state # "Prepare"
    /\ AddCheck
    /\ UNCHANGED <<stage, handle, state, chain_td, startup_td, outside, mailbox, task, canceled>>

(* cancel_task: only a synchronizing task is canceled.                     *)
cancel_task ==
    /\ stage' = IF stage = "Synchronizing" THEN "Canceling" ELSE stage
    /\ canceled' = IF stage = "Synchronizing" THEN canceled \cup {handle} ELSE canceled

SyncCancelRequest ==
    /\ cancel_task
    /\ UNCHANGED <<handle, state, chain_td, startup_td, outside, mailbox, checks, task>>

SyncStartRequest(force) ==
    /\ IF force THEN cancel_task ELSE UNCHANGED <<stage, canceled>>
    /\ AddCheck
    /\ UNCHANGED <<handle, state, chain_td, startup_td, outside, mailbox, task>>

-----------------------------------------------------------------------------
(* check_and_start_sync.  The stage becomes Checking at once; only         *)
(* Synchronizing is put back before the early returns.  The services that  *)
(* a task needs are there: they are registered before the first check.     *)

StartTask ==
    /\ checks > 0
    /\ checks' = checks - 1
    /\ stage \in {"NotStart", "Done"}
    /\ stage' = "Checking"
    /\ \E t \in Task :
        /\ task[t].pc = "idle"
        /\ task' = [task EXCEPT ![t].pc = "wait"]
        /\ canceled' = canceled \ {t}
    /\ UNCHANGED <<handle, state, chain_td, startup_td, outside, mailbox>>

(* Mutant: the early return forgets to restore Synchronizing.              *)
AlreadyStarted_NotRestored ==
    /\ checks > 0
    /\ checks' = checks - 1
    /\ stage \in {"Checking", "Synchronizing", "Canceling"}
    /\ stage' = "Checking"
    /\ UNCHANGED <<handle, state, chain_td, startup_td, outside, mailbox, task, canceled>>

(* Mutant: a check that comes while the task is canceled starts afresh.    *)
AlreadyStarted_Reset ==
    /\ checks > 0
    /\ checks' = checks - 1
    /\ stage \in {"Checking", "Synchronizing", "Canceling"}
    /\ stage' = IF stage = "Canceling" THEN "Done" ELSE stage
    /\ UNCHANGED <<handle, state, chain_td, startup_td, outside, mailbox, task, canceled>>

AlreadyStarted ==
    /\ checks > 0
    /\ checks' = checks - 1
    /\ stage \in {"Checking", "Synchronizing", "Canceling"}
    /\ stage' = IF stage = "Synchronizing" THEN stage ELSE "Checking"
    /\ UNCHANGED <<handle, state, chain_td, startup_td, outside, mailbox, task, canceled>>

CheckSync == StartTask \/ AlreadyStarted

-----------------------------------------------------------------------------
(* The spawned future.                                                     *)

(* The loop that asks for the peer set once a second; it has no bound.     *)
EnoughPeers(t) ==
    /\ task[t].pc = "wait"
    /\ peers
    /\ task' = [task EXCEPT ![t].pc = "check"]
    /\ UNCHANGED <<stage, handle, state, chain_td, startup_td, outside, mailbox, checks, canceled>>

(* The network service does not answer for the peer set.                   *)
PeerSetFails(t) ==
    /\ task[t].pc = "wait"
    /\ task' = [task EXCEPT ![t].pc = "idle"]
    /\ mailbox' = Append(mailbox, SyncDoneEvent(t))
    /\ UNCHANGED <<stage, handle, state, chain_td, startup_td, outside, checks, canceled>>

(* A better target than the persisted head is found.                       *)
FindTarget(t) ==
    /\ task[t].pc = "check"
    /\ best_td > startup_td
    /\ task' = [task EXCEPT ![t] = [pc |-> "run", target |-> best_td]]
    /\ mailbox' = Append(mailbox, SyncBeginEvent(t))
    /\ UNCHANGED <<stage, handle, state, chain_td, startup_td, outside, checks, canceled>>

(* Mutant: a canceled task, or one that found nothing, ends silently.      *)
Finish_Silent(t) ==
    /\ task[t].pc \in {"check", "run"}
    /\ task' = [task EXCEPT ![t].pc = "idle"]
    /\ mailbox' = IF t \in canceled \/ task[t].pc = "check" THEN mailbox
                  ELSE Append(mailbox, SyncDoneEvent(t))
    /\ UNCHANGED <<stage, handle, state, chain_td, startup_td, outside, checks, canceled>>

(* No better target, no peer to ask, or an error; or the sync ends: the    *)
(* target is reached, the task fails or it is canceled.  Each ends with    *)
(* SyncDone.                                                               *)
Finish(t) ==
    /\ task[t].pc \in {"check", "run"}
    /\ task' = [task EXCEPT ![t].pc = "idle"]
    /\ mailbox' = Append(mailbox, SyncDoneEvent(t))
    /\ UNCHANGED <<stage, handle, state, chain_td, startup_td, outside, checks, canceled>>

-----------------------------------------------------------------------------
(* The service's handlers of what the task sent.                           *)

ReceiveFrom(event, t) ==
    /\ mailbox # <<>>
    /\ Head(mailbox) = [event |-> event, task |-> t]
    /\ mailbox' = Tail(mailbox)

(* Mutant: the handle of the task is not kept.                             *)
SyncBegin_HandleLost(t) ==
    LET stale == task[t].target <= chain_td
    IN  /\ ReceiveFrom("SyncBegin", t)
        /\ stage' = IF stage \in {"Synchronizing", "Canceling"} THEN stage ELSE "Synchronizing"
        /\ canceled' = IF stage = "Checking" /\ stale THEN canceled \cup {t} ELSE canceled
        /\ state' = IF stage = "Checking" /\ ~stale THEN "Synchronizing" ELSE state
        /\ UNCHANGED <<handle, chain_td, startup_td, outside, checks, task>>

(* Mutant: a target that is no longer better is not canceled.              *)
SyncBegin_StaleRuns(t) ==
    LET stale == task[t].target <= chain_td
    IN  /\ ReceiveFrom("SyncBegin", t)
        /\ stage' = IF stage \in {"Synchronizing", "Canceling"} THEN stage ELSE "Synchronizing"
        /\ handle' = IF stage \in {"Synchronizing", "Canceling"} THEN handle ELSE t
        /\ canceled' = IF stage \in {"Synchronizing", "Canceling"} THEN canceled \cup {t} ELSE canceled
        /\ state' = IF stage = "Checking" /\ ~stale THEN "Synchronizing" ELSE state
        /\ UNCHANGED <<chain_td, startup_td, outside, checks, task>>

(* In Checking a target that is no longer better is canceled, any other    *)
(* begins the sync; in Synchronizing and in Canceling the new task is      *)
(* canceled; in NotStart and Done the handle is just taken.                *)
SyncBegin(t) ==
    LET stale == task[t].target <= chain_td
    IN  /\ ReceiveFrom("SyncBegin", t)
        /\ stage' = IF stage \in {"Synchronizing", "Canceling"} THEN stage ELSE "Synchronizing"
        /\ handle' = IF stage \in {"Synchronizing", "Canceling"} THEN handle ELSE t
        /\ canceled' = IF stage \in {"Synchronizing", "Canceling"} \/ (stage = "Checking" /\ stale)
                       THEN canceled \cup {t} ELSE canceled
        /\ state' = IF stage = "Checking" /\ ~stale THEN "Synchronizing" ELSE state
        /\ UNCHANGED <<chain_td, startup_td, outside, checks, task>>

(* Only Synchronizing and Canceling change the status, and only            *)
(* Synchronizing checks again.                                             *)
SyncDone(t) ==
    /\ ReceiveFrom("SyncDone", t)
    /\ stage' = "Done"
    /\ state' = IF stage \in {"Synchronizing", "Canceling"} THEN "Synchronized" ELSE state
    /\ checks' = IF stage = "Synchronizing" /\ checks < MaxChecks THEN checks + 1 ELSE checks
    /\ UNCHANGED <<handle, chain_td, startup_td, outside, task, canceled>>

-----------------------------------------------------------------------------
Service(t) == SyncBegin(t) \/ SyncDone(t)

Next ==
    \/ PeerAdvance \/ NewHead \/ NewHeadBlock \/ PeerSetChange
    \/ SystemStarted \/ PeerOpen
    \/ SyncCancelRequest
    \/ \E force \in BOOLEAN : SyncStartRequest(force)
    \/ StartTask \/ AlreadyStarted
    \/ \E t \in Task :
        \/ EnoughPeers(t) \/ PeerSetFails(t)
        \/ FindTarget(t) \/ Finish(t)
        \/ SyncBegin(t) \/ SyncDone(t)

Spec == Init /\ [][Next]_vars

(* The actor handles what is in its mailbox.  A task sees it when there    *)
(* are enough peers for good, and ends once it has them: its downloads are *)
(* retried a bounded number of times.  Nothing says that peers connect.    *)
FairSpec ==
    /\ Spec
    /\ WF_vars(CheckSync)
    /\ \A t \in Task : WF_vars(EnoughPeers(t)) /\ WF_vars(Finish(t)) /\ WF_vars(Service(t))

-----------------------------------------------------------------------------
TypeOK ==
    /\ stage \in Stage
    /\ handle \in Task
    /\ state \in State
    /\ chain_td \in Nat /\ startup_td \in Nat /\ best_td \in Nat
    /\ peers \in BOOLEAN /\ started \in {"no", "yes", "late"}
    /\ mailbox \in Seq([event : {"SyncBegin", "SyncDone"}, task : Task])
    /\ checks \in 0 .. MaxChecks
    /\ task \in [Task -> [pc : Pc, target : Nat]]
    /\ canceled \subseteq Task

(* t is the only task that may be alive; how far it is, what it has sent   *)
(* and the stage fit together, a cancel reached it, and the status shows   *)
(* it unless it is canceled.                                               *)
Fits(t) ==
    /\ \A u \in Task \ {t} : task[u].pc = "idle"
    /\ \/ stage \in {"NotStart", "Done"} /\ task[t].pc = "idle" /\ mailbox = <<>>
       \/ stage = "Checking" /\ task[t].pc \in {"wait", "check"} /\ mailbox = <<>>
       \/ stage = "Checking" /\ task[t].pc = "run" /\ mailbox = <<SyncBeginEvent(t)>>
       \/ stage = "Checking" /\ task[t].pc = "idle"
          /\ mailbox = <<SyncBeginEvent(t), SyncDoneEvent(t)>>
       \/ /\ stage \in {"Checking", "Synchronizing", "Canceling"}
          /\ \/ task[t].pc = "run" /\ mailbox = <<>>
             \/ task[t].pc = "idle" /\ mailbox = <<SyncDoneEvent(t)>>
          /\ stage \in {"Synchronizing", "Canceling"} => handle = t
          /\ stage = "Canceling" => t \in canceled
          /\ stage = "Synchronizing" => state = "Synchronizing" \/ t \in canceled \/ started = "late"

(* The inductive invariant.                                                *)
IInv == TypeOK /\ \E t \in Task : Fits(t)

(* At most one sync task is alive at any time, and when the stage is       *)
(* NotStart or Done there is none and nothing of one is still to come.     *)
OneTask ==
    /\ \A t, u \in Task : task[t].pc # "idle" /\ task[u].pc # "idle" => t = u
    /\ stage \in {"NotStart", "Done"} => mailbox = <<>> /\ \A t \in Task : task[t].pc = "idle"

(* Comments of the SyncBeginEvent handler: the branches "this should not   *)
(* happen" and "Unexpect SyncBeginEvent" are never taken.                  *)
BeginOnlyInChecking ==
    mailbox # <<>> /\ Head(mailbox).event = "SyncBegin" => stage = "Checking"

(* A canceled sync ends: the service does not stay in Canceling.           *)
CancelingEnds == stage = "Canceling" ~> stage # "Canceling"

(* A sync that is not shown is not running on: while the service holds a   *)
(* task, the status says so or the task is canceled, also when the head    *)
(* has caught up with the target by the time SyncBegin is handled.  The    *)
(* pacemaker and the relayer go by the status.  Left out: a sync that a    *)
(* request started before SystemStarted was handled, which overwrites it.  *)
SyncIsShown ==
    stage = "Synchronizing" /\ started # "late" => state = "Synchronizing" \/ handle \in canceled

(* If from some time on there are enough peers, every check comes to an    *)
(* end, with or without a sync: no outcome leaves the service in Checking, *)
(* where it would ignore all later checks.                                 *)
CheckingEnds == <>[]peers => (stage = "Checking" ~> stage # "Checking")

(* As long as nobody cancels a task, the status Synchronizing comes to an  *)
(* end: no check that arrives during the sync makes the service miss it.   *)
SynchronizingEnds ==
    [](stage # "Canceling") => (state = "Synchronizing" ~> state = "Synchronized")

(* types/src/sync_status.rs:13: the status Synchronizing says that the     *)
(* node is synchronizing, so the service is not done.                      *)
SynchronizingIsActive == state = "Synchronizing" => stage # "Done"

=============================================================================
