------------------------------- MODULE Miner --------------------------------
(***************************************************************************)
(* Block production: the pacemaker that asks for blocks, the service that  *)
(* builds block templates, the miner service with its one current task,    *)
(* the mining clients and the connector that takes the mined blocks.  All  *)
(* of them are actors: they share nothing but events on the bus, and the   *)
(* miner's blocking request for a template.                                *)
(***************************************************************************)
EXTENDS Integers, Sequences, FiniteSets

CONSTANTS
    DisableMinerClient,  \* config.miner.disable_miner_client
    DisableEmptyBlock,   \* config.miner.is_disable_mint_empty_block
    MaxHead,             \* bound on blocks of the main chain
    MaxStatus,           \* bound on changes of the synchronisation status
    MaxFail,             \* bound on failures of the template service and the
                         \* connector and on empty templates
    MaxSeal,             \* bound on submitted seals
    MaxClients           \* bound on changes of the number of clients

ASSUME MinerAssumption ==
    /\ DisableMinerClient \in BOOLEAN /\ DisableEmptyBlock \in BOOLEAN
    /\ {MaxHead, MaxStatus, MaxFail, MaxSeal, MaxClients} \subseteq Nat

NoTask == [parent |-> -1, blob |-> 0, id |-> 0]

NoAnswer == [kind |-> "none"]

VARIABLES
    head,        \* number of the connector's main head
    bus,         \* events on their way through the bus
    pacemaker,   \* its mailbox and whether the node is synced
    template,    \* the template service: its mailbox and its head
    miner,       \* mailbox, current_task, request under way and its answer,
                 \* delayed retries, client_subscribers_num
    connector,   \* mined blocks in the connector's mailbox, and whether the
                 \* last block it took did not become the head (history)
    dispatched,  \* parent and blob of every task so far, known to the clients
    mined,       \* tasks finished, in order
    used         \* how much of each bound is used

vars == <<head, bus, pacemaker, template, miner, connector, dispatched, mined, used>>

Init ==
    /\ head = 0
    /\ bus = <<>>
    /\ pacemaker = [mail |-> <<>>, synced |-> FALSE]
    /\ template = [mail |-> <<>>, head |-> 0]
    /\ miner = [mail |-> <<>>, task |-> NoTask, pc |-> "idle", answer |-> NoAnswer,
               retries |-> 0, clients |-> 0]
    /\ connector = [mail |-> <<>>, aside |-> FALSE]
    /\ dispatched = {}
    /\ mined = <<>>
    /\ used = [status |-> 0, fail |-> 0, seal |-> 0, clients |-> 0, templates |-> 0]

-----------------------------------------------------------------------------
(* The world outside.                                                      *)

(* Another node's block becomes the head.                                  *)
PeerBlock ==
    /\ head < MaxHead
    /\ head' = head + 1
    /\ bus' = Append(bus, [kind |-> "NewHead", head |-> head + 1])
    /\ connector' = [connector EXCEPT !.aside = FALSE]
    /\ UNCHANGED <<pacemaker, template, miner, dispatched, mined, used>>

StatusChange(synced) ==
    /\ used.status < MaxStatus
    /\ bus' = Append(bus, [kind |-> "Status", synced |-> synced])
    /\ used' = [used EXCEPT !.status = @ + 1]
    /\ UNCHANGED <<head, pacemaker, template, miner, connector, dispatched, mined>>

(* A client submits a nonce for a blob it was given, old or current, and   *)
(* the nonce solves it or does not.                                        *)
submit_seal(blob, solves) ==
    /\ used.seal < MaxSeal
    /\ bus' = Append(bus, [kind |-> "Seal", blob |-> blob, solves |-> solves])
    /\ used' = [used EXCEPT !.seal = @ + 1]
    /\ UNCHANGED <<head, pacemaker, template, miner, connector, dispatched, mined>>

(* MinerClientSubscribeRequest: the answer is the current task.            *)
ClientSubscribe(n) ==
    /\ miner.pc = "idle"
    /\ used.clients < MaxClients
    /\ miner.clients # n
    /\ miner' = [miner EXCEPT !.clients = n]
    /\ used' = [used EXCEPT !.clients = @ + 1]
    /\ UNCHANGED <<head, bus, pacemaker, template, connector, dispatched, mined>>

-----------------------------------------------------------------------------
(* The bus hands an event to its subscribers.                              *)
Deliver ==
    /\ bus # <<>>
    /\ bus' = Tail(bus)
    /\ LET e == Head(bus)
           To(mail, kinds) == IF e.kind \in kinds THEN Append(mail, e) ELSE mail
       IN  /\ pacemaker' = [pacemaker EXCEPT !.mail = To(@, {"NewHead", "Status"})]
           /\ template' = [template EXCEPT !.mail = To(@, {"NewHead"})]
           /\ miner' = [miner EXCEPT !.mail = To(@, {"Generate", "Seal"})]
           /\ connector' = [connector EXCEPT !.mail = To(@, {"Mined"})]
    /\ UNCHANGED <<head, dispatched, mined, used>>

-----------------------------------------------------------------------------
(* GenerateBlockEventPacemaker.                                            *)

Generate(force) == [kind |-> "Generate", force |-> force]

(* Mutant: a new head does not break the current minting.                  *)
PaceNewHead_Gentle ==
    /\ pacemaker.mail # <<>> /\ Head(pacemaker.mail).kind = "NewHead"
    /\ bus' = IF pacemaker.synced THEN Append(bus, Generate(FALSE)) ELSE bus
    /\ pacemaker' = [pacemaker EXCEPT !.mail = Tail(@)]
    /\ UNCHANGED <<head, template, miner, connector, dispatched, mined, used>>

PaceNewHead ==
    /\ pacemaker.mail # <<>> /\ Head(pacemaker.mail).kind = "NewHead"
    /\ bus' = IF pacemaker.synced THEN Append(bus, Generate(TRUE)) ELSE bus
    /\ pacemaker' = [pacemaker EXCEPT !.mail = Tail(@)]
    /\ UNCHANGED <<head, template, miner, connector, dispatched, mined, used>>

PaceStatus ==
    /\ pacemaker.mail # <<>> /\ Head(pacemaker.mail).kind = "Status"
    /\ LET synced == Head(pacemaker.mail).synced
       IN  /\ bus' = IF synced THEN Append(bus, Generate(FALSE)) ELSE bus
           /\ pacemaker' = [mail |-> Tail(pacemaker.mail), synced |-> synced]
    /\ UNCHANGED <<head, template, miner, connector, dispatched, mined, used>>

-----------------------------------------------------------------------------
(* CreateBlockTemplateService.                                             *)

(* update_chain.                                                           *)
TemplateNewHead ==
    /\ template.mail # <<>> /\ Head(template.mail).kind = "NewHead"
    /\ template' = [mail |-> Tail(template.mail), head |-> Head(template.mail).head]
    /\ UNCHANGED <<head, bus, pacemaker, miner, connector, dispatched, mined, used>>

(* update_chain fails; the service stays on its head and logs the error.   *)
UpdateChainFails ==
    /\ used.fail < MaxFail
    /\ template.mail # <<>> /\ Head(template.mail).kind = "NewHead"
    /\ template' = [template EXCEPT !.mail = Tail(@)]
    /\ used' = [used EXCEPT !.fail = @ + 1]
    /\ UNCHANGED <<head, bus, pacemaker, miner, connector, dispatched, mined>>

Answer(result, more) ==
    /\ template.mail # <<>> /\ Head(template.mail).kind = "Create"
    /\ template' = [template EXCEPT !.mail = Tail(@)]
    /\ miner' = [miner EXCEPT !.pc = "answered", !.answer = result]
    /\ used' = more
    /\ UNCHANGED <<head, bus, pacemaker, connector, dispatched, mined>>

(* The blob is a new one or, when the clock is not beyond the timestamp of *)
(* the parent or has not moved, that of an earlier template on the parent. *)
Blobs == {used.templates + 1} \cup {t.blob : t \in {d \in dispatched : d.parent = template.head}}

Template(blob, empty) ==
    [kind |-> "Template", parent |-> template.head, blob |-> blob, id |-> used.templates + 1,
     empty |-> empty]

create_block_template ==
    \E blob \in Blobs :
        Answer(Template(blob, FALSE), [used EXCEPT !.templates = @ + 1])

(* Without transactions in the pool it is empty.                           *)
TemplateEmpty ==
    /\ used.fail < MaxFail
    /\ \E blob \in Blobs :
        Answer(Template(blob, TRUE), [used EXCEPT !.fail = @ + 1, !.templates = @ + 1])

TemplateFails ==
    /\ used.fail < MaxFail
    /\ Answer([kind |-> "Error"], [used EXCEPT !.fail = @ + 1])

-----------------------------------------------------------------------------
(* MinerService.                                                           *)

is_minting == miner.task # NoTask

(* The handler of GenerateBlockEvent up to the request for a template, for *)
(* which the actor blocks.                                                 *)
GenerateBlock ==
    /\ miner.pc = "idle"
    /\ miner.mail # <<>> /\ Head(miner.mail).kind = "Generate"
    /\ IF \/ ~Head(miner.mail).force /\ is_minting
          \/ DisableMinerClient /\ miner.clients = 0
       THEN /\ miner' = [miner EXCEPT !.mail = Tail(@)]
            /\ UNCHANGED template
       ELSE /\ miner' = [miner EXCEPT !.mail = Tail(@), !.pc = "waiting"]
            /\ template' = [template EXCEPT !.mail = Append(@, [kind |-> "Create"])]
    /\ UNCHANGED <<head, bus, pacemaker, connector, dispatched, mined, used>>

(* What the clients learn of a task; it reaches nobody else.               *)
MintBlockEvent(answer) == [parent |-> answer.parent, blob |-> answer.blob]

(* Mutant: the event of a failed template is not sent again.               *)
dispatch_task_NoRetry ==
    /\ miner.pc = "answered"
    /\ LET answer == miner.answer
           done == [miner EXCEPT !.pc = "idle", !.answer = NoAnswer]
       IN  IF answer.kind = "Error" \/ (answer.empty /\ DisableEmptyBlock)
           THEN /\ miner' = done
                /\ UNCHANGED dispatched
           ELSE /\ miner' = [done EXCEPT !.task =
                                [parent |-> answer.parent, blob |-> answer.blob, id |-> answer.id]]
                /\ dispatched' = dispatched \cup {MintBlockEvent(answer)}
    /\ UNCHANGED <<head, bus, pacemaker, template, connector, mined, used>>

(* dispatch_task once the template is there: a new task replaces the       *)
(* current one, an empty template may be skipped, and an error is retried  *)
(* later.                                                                  *)
dispatch_task ==
    /\ miner.pc = "answered"
    /\ LET answer == miner.answer
           done == [miner EXCEPT !.pc = "idle", !.answer = NoAnswer]
       IN  IF answer.kind = "Error"
           THEN /\ miner' = [done EXCEPT !.retries = @ + 1]
                /\ UNCHANGED dispatched
           ELSE IF answer.empty /\ DisableEmptyBlock
           THEN /\ miner' = done
                /\ UNCHANGED dispatched
           ELSE /\ miner' = [done EXCEPT !.task =
                                [parent |-> answer.parent, blob |-> answer.blob, id |-> answer.id]]
                /\ dispatched' = dispatched \cup {MintBlockEvent(answer)}
    /\ UNCHANGED <<head, bus, pacemaker, template, connector, mined, used>>

(* run_later: the event is sent again, never as a forced one.              *)
Retry ==
    /\ miner.pc = "idle"
    /\ miner.retries > 0
    /\ miner' = [miner EXCEPT !.retries = @ - 1, !.mail = Append(@, Generate(FALSE))]
    /\ UNCHANGED <<head, bus, pacemaker, template, connector, dispatched, mined, used>>

(* Mutant: the task stays after it is mined.                               *)
finish_task_Kept ==
    /\ miner.pc = "idle"
    /\ miner.mail # <<>> /\ Head(miner.mail).kind = "Seal"
    /\ miner' = [miner EXCEPT !.mail = Tail(@)]
    /\ IF is_minting /\ miner.task.blob = Head(miner.mail).blob /\ Head(miner.mail).solves
       THEN /\ bus' = Append(bus, [kind |-> "Mined", parent |-> miner.task.parent])
            /\ mined' = Append(mined, miner.task.id)
       ELSE UNCHANGED <<bus, mined>>
    /\ UNCHANGED <<head, pacemaker, template, connector, dispatched, used>>

(* finish_task: a seal counts only if it solves the blob of the current    *)
(* task, and takes the task.                                               *)
finish_task ==
    /\ miner.pc = "idle"
    /\ miner.mail # <<>> /\ Head(miner.mail).kind = "Seal"
    /\ IF is_minting /\ miner.task.blob = Head(miner.mail).blob /\ Head(miner.mail).solves
       THEN /\ miner' = [miner EXCEPT !.mail = Tail(@), !.task = NoTask]
            /\ bus' = Append(bus, [kind |-> "Mined", parent |-> miner.task.parent])
            /\ mined' = Append(mined, miner.task.id)
       ELSE /\ miner' = [miner EXCEPT !.mail = Tail(@)]
            /\ UNCHANGED <<bus, mined>>
    /\ UNCHANGED <<head, pacemaker, template, connector, dispatched, used>>

-----------------------------------------------------------------------------
(* The connector takes a mined block: on the head it becomes the new head, *)
(* elsewhere a branch, which asks for no block.                            *)
ConnectMined ==
    /\ connector.mail # <<>>
    /\ LET extends == Head(connector.mail).parent = head
       IN  /\ connector' = [mail |-> Tail(connector.mail), aside |-> ~extends]
           /\ head' = IF extends THEN head + 1 ELSE head
           /\ bus' = IF extends THEN Append(bus, [kind |-> "NewHead", head |-> head + 1]) ELSE bus
    /\ UNCHANGED <<pacemaker, template, miner, dispatched, mined, used>>

(* try_connect fails; the error is only logged.                            *)
ConnectFails ==
    /\ used.fail < MaxFail
    /\ connector.mail # <<>>
    /\ connector' = [mail |-> Tail(connector.mail), aside |-> TRUE]
    /\ used' = [used EXCEPT !.fail = @ + 1]
    /\ UNCHANGED <<head, bus, pacemaker, template, miner, dispatched, mined>>

-----------------------------------------------------------------------------
NodeStep ==
    \/ Deliver \/ PaceNewHead \/ PaceStatus \/ TemplateNewHead \/ UpdateChainFails
    \/ create_block_template \/ TemplateFails \/ TemplateEmpty
    \/ GenerateBlock \/ dispatch_task \/ Retry \/ finish_task \/ ConnectMined \/ ConnectFails

Next ==
    \/ NodeStep
    \/ PeerBlock
    \/ \E b \in BOOLEAN : StatusChange(b)
    \/ \E t \in dispatched, solves \in BOOLEAN : submit_seal(t.blob, solves)
    \/ \E n \in 0 .. 1 : ClientSubscribe(n)

Spec == Init /\ [][Next]_vars

-----------------------------------------------------------------------------
(* finish_task, current_task.take(): however many clients answer a task,   *)
(* and whenever, it yields one block, also when two tasks have one blob.   *)
OncePerTask ==
    \A i, j \in 1 .. Len(mined) : mined[i] = mined[j] => i = j

Settled ==
    /\ bus = <<>> /\ pacemaker.mail = <<>> /\ template.mail = <<>> /\ connector.mail = <<>>
    /\ miner.mail = <<>> /\ miner.pc = "idle" /\ miner.retries = 0

(* A synced node whose actors have nothing left to do is minting: no       *)
(* failed template, late or wrong seal or change of the status leaves it   *)
(* without a task and without an event that makes one.  Left out: the last *)
(* block it mined did not become the head, because it was mined on an old  *)
(* one or failed to connect; nothing asks for a block before the next head.*)
KeepsMinting ==
    Settled /\ pacemaker.synced /\ ~DisableMinerClient /\ ~DisableEmptyBlock /\ ~connector.aside
        => is_minting

(* A node that stayed synced since it became so, with no failed template,  *)
(* mines on its head whenever its actors have nothing left to do: the      *)
(* order of the mailboxes brings the new head to the template service      *)
(* before the request for a template on it.                                *)
MintsOnHead ==
    Settled /\ pacemaker.synced /\ used.status = 1 /\ used.fail = 0 /\ ~DisableMinerClient /\ is_minting
        => miner.task.parent = head

=============================================================================
