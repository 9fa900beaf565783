----------------------------- MODULE ServiceBus -----------------------------
(***************************************************************************)
(* The services of a node and the bus between them.  A service is an actor *)
(* on a thread of its own with a bounded mailbox; it subscribes to types   *)
(* of events when it is started and unsubscribes when it is stopped.  The  *)
(* bus is an actor too: a broadcast is a message to it, and handling one   *)
(* puts a copy into the mailbox of each subscriber that has room.          *)
(***************************************************************************)
EXTENDS Integers, Sequences, SequencesExt

CONSTANTS
    Service, Event,
    OnStart,        \* the requests to the bus that `started` waits for
    OnStop,         \* the requests to the bus that `stopped` waits for
    MailboxCap,     \* DEFAULT_MAIL_BOX_CAP
    BusCap,         \* capacity of the bus's mailbox
    MaxEvents,      \* bound on broadcasts
    MaxCommands     \* bound on start and stop commands

Op == {"subscribe", "unsubscribe"}

ASSUME BusAssumption ==
    /\ MailboxCap \in Nat \ {0} /\ BusCap \in Nat \ {0}
    /\ \A s \in Service : \A q \in {OnStart[s], OnStop[s]} :
        \A i \in 1 .. Len(q) : q[i].op \in Op /\ q[i].event \in Event

VARIABLES
    started,        \* the proxies that hold a service
    waits,          \* what each actor waits for before it handles a message
    mailbox,        \* events and commands to each actor
    bus,            \* mailbox of the bus
    subscriptions,  \* services subscribed to each type, in order
    sent,           \* number of broadcasts so far
    lost,           \* broadcasts dropped on the way to each service
    handled,        \* numbers of the events each service has handled
    commands        \* number of commands so far

vars == <<started, waits, mailbox, bus, subscriptions, sent, lost, handled, commands>>

Init ==
    /\ started = Service
    /\ waits = OnStart
    /\ mailbox = [s \in Service |-> <<>>]
    /\ bus = <<>>
    /\ subscriptions = [e \in Event |-> <<>>]
    /\ sent = 0
    /\ lost = [s \in Service |-> {}]
    /\ handled = [s \in Service |-> <<>>]
    /\ commands = 0

-----------------------------------------------------------------------------
(* ctx.wait(bus.subscribe(..)): the request is sent and the actor handles  *)
(* nothing until it is answered.  A send waits for room in the mailbox.    *)
Request(s) ==
    /\ waits[s] # <<>>
    /\ ~Head(waits[s]).sent
    /\ Len(bus) < BusCap
    /\ bus' = Append(bus, [kind |-> Head(waits[s]).op, event |-> Head(waits[s]).event, service |-> s])
    /\ waits' = [waits EXCEPT ![s][1].sent = TRUE]
    /\ UNCHANGED <<started, mailbox, subscriptions, sent, lost, handled, commands>>

(* ServiceContext::broadcast is a try_send: a full bus loses the event.    *)
broadcast(e) ==
    /\ sent < MaxEvents
    /\ sent' = sent + 1
    /\ IF Len(bus) < BusCap
       THEN /\ bus' = Append(bus, [kind |-> "broadcast", event |-> e, id |-> sent + 1])
            /\ lost' = lost
       ELSE /\ bus' = bus
            /\ lost' = [s \in Service |-> lost[s] \cup {sent + 1}]
    /\ UNCHANGED <<started, waits, mailbox, subscriptions, handled, commands>>

Answered(s) == [waits EXCEPT ![s] = Tail(@)]

(* SysBus::do_subscribe appends a record, whatever is there.               *)
BusSubscribe ==
    /\ bus # <<>> /\ Head(bus).kind = "subscribe"
    /\ subscriptions' = [subscriptions EXCEPT ![Head(bus).event] = Append(@, Head(bus).service)]
    /\ waits' = Answered(Head(bus).service)
    /\ bus' = Tail(bus)
    /\ UNCHANGED <<started, mailbox, sent, lost, handled, commands>>

(* Mutant: nothing is removed.                                             *)
BusUnsubscribe_Kept ==
    /\ bus # <<>> /\ Head(bus).kind = "unsubscribe"
    /\ waits' = Answered(Head(bus).service)
    /\ bus' = Tail(bus)
    /\ UNCHANGED <<started, mailbox, subscriptions, sent, lost, handled, commands>>

(* SysBus::unsubscribe removes every record with the name of the service.  *)
BusUnsubscribe ==
    /\ bus # <<>> /\ Head(bus).kind = "unsubscribe"
    /\ subscriptions' = [subscriptions EXCEPT ![Head(bus).event] =
                            SelectSeq(@, LAMBDA s : s # Head(bus).service)]
    /\ waits' = Answered(Head(bus).service)
    /\ bus' = Tail(bus)
    /\ UNCHANGED <<started, mailbox, sent, lost, handled, commands>>

Room(s) == Len(mailbox[s]) < MailboxCap

(* Mutant: the last place of a mailbox is never used.                      *)
Copies_OneLess(s, m) ==
    LET n == Len(SelectSeq(subscriptions[m.event], LAMBDA t : t = s))
        room == IF Room(s) THEN MailboxCap - 1 - Len(mailbox[s]) ELSE 0
    IN  [i \in 1 .. (IF n < room THEN n ELSE room) |-> [kind |-> "event", event |-> m.event, id |-> m.id]]

(* The copies a subscriber gets of a broadcast: one for each record, as    *)
(* long as there is room.                                                  *)
Copies(s, m) ==
    LET n == Len(SelectSeq(subscriptions[m.event], LAMBDA t : t = s))
        room == MailboxCap - Len(mailbox[s])
    IN  [i \in 1 .. (IF n < room THEN n ELSE room) |-> [kind |-> "event", event |-> m.event, id |-> m.id]]

(* Mutant: the latest event is handled first.                              *)
BusBroadcast_Front ==
    /\ bus # <<>> /\ Head(bus).kind = "broadcast"
    /\ mailbox' = [s \in Service |-> Copies(s, Head(bus)) \o mailbox[s]]
    /\ bus' = Tail(bus)
    /\ UNCHANGED <<started, waits, subscriptions, sent, lost, handled, commands>>

(* SysBus::broadcast, with the error of a full mailbox only logged.        *)
BusBroadcast ==
    /\ bus # <<>> /\ Head(bus).kind = "broadcast"
    /\ mailbox' = [s \in Service |-> mailbox[s] \o Copies(s, Head(bus))]
    /\ lost' = [s \in Service |-> IF Contains(subscriptions[Head(bus).event], s) /\ Room(s)
                                  THEN lost[s] ELSE lost[s] \cup {Head(bus).id}]
    /\ bus' = Tail(bus)
    /\ UNCHANGED <<started, waits, subscriptions, sent, handled, commands>>

(* exec_service_cmd is a try_send of a start or stop command.              *)
Command(s, c) ==
    /\ commands < MaxCommands
    /\ Room(s)
    /\ mailbox' = [mailbox EXCEPT ![s] = Append(@, [kind |-> c])]
    /\ commands' = commands + 1
    /\ UNCHANGED <<started, waits, bus, subscriptions, sent, lost, handled>>

Ready(s, k) == waits[s] = <<>> /\ mailbox[s] # <<>> /\ Head(mailbox[s]).kind = k

Start(s) ==
    /\ Ready(s, "start")
    /\ IF s \in started
       THEN UNCHANGED <<started, waits>>
       ELSE /\ started' = started \cup {s}
            /\ waits' = [waits EXCEPT ![s] = OnStart[s]]
    /\ mailbox' = [mailbox EXCEPT ![s] = Tail(@)]
    /\ UNCHANGED <<bus, subscriptions, sent, lost, handled, commands>>

(* Mutant: stopping empties the mailbox.                                   *)
Stop_DropsMail(s) ==
    /\ Ready(s, "stop")
    /\ started' = started \ {s}
    /\ waits' = [waits EXCEPT ![s] = IF s \in started THEN OnStop[s] ELSE <<>>]
    /\ mailbox' = [mailbox EXCEPT ![s] = <<>>]
    /\ UNCHANGED <<bus, subscriptions, sent, lost, handled, commands>>

Stop(s) ==
    /\ Ready(s, "stop")
    /\ IF s \in started
       THEN /\ started' = started \ {s}
            /\ waits' = [waits EXCEPT ![s] = OnStop[s]]
       ELSE UNCHANGED <<started, waits>>
    /\ mailbox' = [mailbox EXCEPT ![s] = Tail(@)]
    /\ UNCHANGED <<bus, subscriptions, sent, lost, handled, commands>>

(* An event that reaches a stopped service is dropped.                     *)
HandleEvent(s) ==
    /\ Ready(s, "event")
    /\ IF s \in started
       THEN /\ handled' = [handled EXCEPT ![s] = Append(@, Head(mailbox[s]).id)]
            /\ lost' = lost
       ELSE /\ handled' = handled
            /\ lost' = [lost EXCEPT ![s] = @ \cup {Head(mailbox[s]).id}]
    /\ mailbox' = [mailbox EXCEPT ![s] = Tail(@)]
    /\ UNCHANGED <<started, waits, bus, subscriptions, sent, commands>>

-----------------------------------------------------------------------------
BusStep == BusSubscribe \/ BusUnsubscribe \/ BusBroadcast

ServiceStep(s) == Request(s) \/ Start(s) \/ Stop(s) \/ HandleEvent(s)

Next ==
    \/ BusStep
    \/ \E s \in Service : ServiceStep(s)
    \/ \E s \in Service, c \in {"start", "stop"} : Command(s, c)
    \/ \E e \in Event : broadcast(e)

(* Every actor has a thread that handles its messages.                     *)
Fairness ==
    /\ WF_vars(BusStep)
    /\ \A s \in Service : WF_vars(ServiceStep(s))

Spec == Init /\ [][Next]_vars /\ Fairness

-----------------------------------------------------------------------------
(* A service is subscribed once to each type it asks for when it is        *)
(* started and has no request open, and to none when it is stopped, after  *)
(* any sequence of commands: start and stop undo each other.               *)
SubscribedOnce ==
    \A s \in Service : waits[s] = <<>> =>
        \A e \in Event :
            Len(SelectSeq(subscriptions[e], LAMBDA t : t = s)) =
                IF s \in started /\ \E i \in 1 .. Len(OnStart[s]) :
                    OnStart[s][i].op = "subscribe" /\ OnStart[s][i].event = e
                THEN 1 ELSE 0

(* try_send, SysBus::broadcast: a service handles events in the order of   *)
(* their broadcasts and none of them twice, whatever is dropped.           *)
InOrder ==
    \A s \in Service : \A i, j \in 1 .. Len(handled[s]) : i < j => handled[s][i] < handled[s][j]

(* Every broadcast is handled by each service or accounted for as lost: to *)
(* a full mailbox, a service that is not subscribed or one that is stopped.*)
EventsSettle ==
    \A n \in 1 .. MaxEvents : \A s \in Service :
        sent = n ~> Contains(handled[s], n) \/ n \in lost[s]

(* SysBus::broadcast loses nothing but to a full mailbox: while nobody     *)
(* stops or starts a service and there are no more broadcasts than a       *)
(* mailbox holds, every event the bus has taken is handled by each service *)
(* that asked for its type and has the answers to its requests.            *)
HeardUnlessFull ==
    MaxEvents <= MailboxCap /\ [](commands = 0) =>
        \A n \in 1 .. MaxEvents : \A s \in Service : \A e \in Event :
            (/\ [kind |-> "broadcast", event |-> e, id |-> n] \in {bus[i] : i \in 1 .. Len(bus)}
             /\ waits[s] = <<>>
             /\ \E i \in 1 .. Len(OnStart[s]) :
                    OnStart[s][i].op = "subscribe" /\ OnStart[s][i].event = e)
            ~> Contains(handled[s], n)

=============================================================================
