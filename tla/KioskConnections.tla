-------------------------- MODULE KioskConnections --------------------------
(***************************************************************************)
(* The ConnectionManager of backend/api/app/core/websockets.py with the    *)
(* endpoint of api/ws.py around it: how vision boxes connect, are replaced *)
(* when they reconnect, get their commands over Redis Pub/Sub and leave.   *)
(*                                                                         *)
(* asyncio: a coroutine runs alone from one await to the next, so an       *)
(* action is what happens between two awaits.  Each socket has a handler   *)
(* (connect, the receive loop, disconnect) and a command forwarder.  The   *)
(* manager's tables have one entry per kiosk, in every process: a seat is  *)
(* a process and a kiosk.  A subscription is named after the socket whose  *)
(* connect() made it.  The heartbeat task is created, kept and cancelled   *)
(* with the forwarder and only refreshes a key; it is left out.            *)
(*                                                                         *)
(* asyncio.Lock is FIFO and does not yield when it is free; here a waiter  *)
(* is any coroutine about to take the lock, and any waiter may be next.    *)
(* Redis, the network and the boxes are the environment: calls to them may *)
(* fail at any time, and return in the end.                                *)
(***************************************************************************)
EXTENDS FiniteSets, Naturals

CONSTANTS
    Sockets,        \* connection attempts; a box that reconnects is a new one
    Seats,          \* <<process, kiosk>>
    SeatOf,         \* Sockets -> Seats
    Commands,       \* commands that may be sent, each once
    MaxConnections, \* KIOSK_WS_MAX_CONNECTIONS
    NoSocket        \* no entry in a table

ASSUME ConnectionConstants ==
    /\ Seats \subseteq {seat[1] : seat \in Seats} \X {seat[2] : seat \in Seats}
    /\ SeatOf \in [Sockets -> Seats]
    /\ MaxConnections \in Nat \ {0}
    /\ NoSocket \notin Sockets

VARIABLES
    active,     \* active_connections
    pubsubs,    \* _pubsubs
    tasks,      \* _command_tasks, and _presence_tasks
    lock,       \* which coroutine holds the lock of the kiosk
    dropping,   \* the socket the holder is disconnecting, and what is left to do
    handler,    \* where the handler of each socket is
    forwarder,  \* where its forwarder is
    wire,       \* the server's end of the socket
    subscribed, \* live subscriptions at Redis
    inbox,      \* what a subscription was sent and nobody has read
    delivered,  \* what was sent down each socket
    outcome     \* what send_command made of each command

tables == <<active, pubsubs, tasks>>
traffic == <<inbox, delivered, outcome>>
vars == <<tables, lock, dropping, handler, forwarder, wire, subscribed, traffic>>

Free == [by |-> "nobody", socket |-> NoSocket]
Holder == {Free} \cup [by: {"connect", "disconnect", "forwarder"}, socket: Sockets]

(* The steps of _disconnect_unlocked between its awaits.                   *)
Drop == [socket: Sockets \cup {NoSocket}, step: {"none", "close", "untable", "unsubscribe"}]
NoDrop == [socket |-> NoSocket, step |-> "none"]

TypeOK ==
    /\ active \in [Seats -> Sockets \cup {NoSocket}]
    /\ pubsubs \in [Seats -> Sockets \cup {NoSocket}]
    /\ tasks \in [Seats -> Sockets \cup {NoSocket}]
    /\ lock \in [Seats -> Holder]
    /\ dropping \in [Seats -> Drop]
    /\ handler \in [Sockets -> {"new", "locking", "replacing", "subscribing", "accepting",
                                "announcing", "serving", "leaving", "disconnecting", "gone"}]
    /\ forwarder \in [Sockets -> {"none", "running", "failed", "disconnecting", "ended"}]
    /\ wire \in [Sockets -> {"handshake", "open", "closed"}]
    /\ subscribed \subseteq Sockets
    /\ inbox \in [Sockets -> SUBSET Commands]
    /\ delivered \in [Sockets -> SUBSET Commands]
    /\ outcome \in [Commands -> {"unsent", "taken", "refused"}]

Init ==
    /\ active = [seat \in Seats |-> NoSocket]
    /\ pubsubs = [seat \in Seats |-> NoSocket]
    /\ tasks = [seat \in Seats |-> NoSocket]
    /\ lock = [seat \in Seats |-> Free]
    /\ dropping = [seat \in Seats |-> NoDrop]
    /\ handler = [s \in Sockets |-> "new"]
    /\ forwarder = [s \in Sockets |-> "none"]
    /\ wire = [s \in Sockets |-> "handshake"]
    /\ subscribed = {}
    /\ inbox = [s \in Sockets |-> {}]
    /\ delivered = [s \in Sockets |-> {}]
    /\ outcome = [c \in Commands |-> "unsent"]

-----------------------------------------------------------------------------
(* self._locks[kiosk_id]                                                   *)

Acquire(seat, by, s) ==
    /\ lock[seat] = Free
    /\ lock' = [lock EXCEPT ![seat] = [by |-> by, socket |-> s]]

(* Mutant: the forwarder's disconnect leaves the lock locked.              *)
ReleaseByHandler(seat) ==
    lock' = IF lock[seat].by = "forwarder" THEN lock ELSE [lock EXCEPT ![seat] = Free]

Release(seat) == lock' = [lock EXCEPT ![seat] = Free]

HandlerGoes(s, from, to) == handler[s] = from /\ handler' = [handler EXCEPT ![s] = to]

-----------------------------------------------------------------------------
(* connect                                                                 *)

AtCapacity(seat) ==
    Cardinality({t \in Seats : t[1] = seat[1] /\ active[t] # NoSocket}) >= MaxConnections

(* The cap is looked at before the lock is taken, and never again.         *)
ConnectRefused(s) ==
    /\ AtCapacity(SeatOf[s])
    /\ HandlerGoes(s, "new", "gone")
    /\ wire' = [wire EXCEPT ![s] = "closed"]
    /\ UNCHANGED <<tables, lock, dropping, forwarder, subscribed, traffic>>

ConnectBegin(s) ==
    /\ ~AtCapacity(SeatOf[s])
    /\ HandlerGoes(s, "new", "locking")
    /\ UNCHANGED <<tables, lock, dropping, forwarder, wire, subscribed, traffic>>

(* Mutant: connect does not look for an older connection.                  *)
NoneExisting(seat) == NoSocket

Existing(seat) == active[seat]

(* Under the lock: an older connection of the kiosk is disconnected first. *)
ConnectLocked(s) ==
    LET seat == SeatOf[s] IN
    /\ Acquire(seat, "connect", s)
    /\ IF Existing(seat) # NoSocket
       THEN /\ HandlerGoes(s, "locking", "replacing")
            /\ dropping' = [dropping EXCEPT ![seat] = [socket |-> Existing(seat), step |-> "close"]]
       ELSE /\ HandlerGoes(s, "locking", "subscribing")
            /\ UNCHANGED dropping
    /\ UNCHANGED <<tables, forwarder, wire, subscribed, traffic>>

(* Mutant: the channel is subscribed for the connection in the table.      *)
SubscribedForActive(s) ==
    /\ HandlerGoes(s, "subscribing", "accepting")
    /\ subscribed' = subscribed \cup {active[SeatOf[s]]}
    /\ pubsubs' = [pubsubs EXCEPT ![SeatOf[s]] = active[SeatOf[s]]]
    /\ UNCHANGED <<active, tasks, lock, dropping, forwarder, wire, traffic>>

Subscribed(s) ==
    /\ HandlerGoes(s, "subscribing", "accepting")
    /\ subscribed' = subscribed \cup {s}
    /\ pubsubs' = [pubsubs EXCEPT ![SeatOf[s]] = s]
    /\ UNCHANGED <<active, tasks, lock, dropping, forwarder, wire, traffic>>

SubscribeFails(s) ==
    /\ HandlerGoes(s, "subscribing", "gone")
    /\ wire' = [wire EXCEPT ![s] = "closed"]
    /\ Release(SeatOf[s])
    /\ UNCHANGED <<tables, dropping, forwarder, subscribed, traffic>>

Accepted(s) ==
    /\ HandlerGoes(s, "accepting", "announcing")
    /\ wire' = [wire EXCEPT ![s] = "open"]
    /\ active' = [active EXCEPT ![SeatOf[s]] = s]
    /\ UNCHANGED <<pubsubs, tasks, lock, dropping, forwarder, subscribed, traffic>>

(* Mutant: the pubsub of a connection that is gone is forgotten, not closed.*)
PubsubLeft(seat) == UNCHANGED <<pubsubs, subscribed, inbox>>

(* _close_pubsub: whatever the table holds is popped and unsubscribed.     *)
ClosePubsub(seat) ==
    /\ pubsubs' = [pubsubs EXCEPT ![seat] = NoSocket]
    /\ subscribed' = subscribed \ {pubsubs[seat]}
    /\ inbox' = [s \in Sockets |-> IF s = pubsubs[seat] THEN {} ELSE inbox[s]]

AcceptFails(s) ==
    /\ HandlerGoes(s, "accepting", "gone")
    /\ wire' = [wire EXCEPT ![s] = "closed"]
    /\ ClosePubsub(SeatOf[s])
    /\ Release(SeatOf[s])
    /\ UNCHANGED <<active, tasks, dropping, forwarder, delivered, outcome>>

(* Presence announced, or not; the tasks are created and the lock let go.  *)
Announced(s) ==
    /\ HandlerGoes(s, "announcing", "serving")
    /\ tasks' = [tasks EXCEPT ![SeatOf[s]] = s]
    /\ forwarder' = [forwarder EXCEPT ![s] = "running"]
    /\ Release(SeatOf[s])
    /\ UNCHANGED <<active, pubsubs, dropping, wire, subscribed, traffic>>

-----------------------------------------------------------------------------
(* _disconnect_unlocked, run by the coroutine that holds the lock.         *)

(* Mutant: whoever disconnects takes down the entry it finds.              *)
AnyActive(seat, s) == active[seat] # NoSocket

StillActive(seat, s) == active[seat] = s

(* The holder goes on: connect subscribes, the others release and end.     *)
HolderResumes(seat) ==
    LET s == lock[seat].socket IN
    /\ dropping' = [dropping EXCEPT ![seat] = NoDrop]
    /\ \/ /\ lock[seat].by = "connect"
          /\ handler' = [handler EXCEPT ![s] = "subscribing"]
          /\ UNCHANGED <<lock, forwarder>>
       \/ /\ lock[seat].by = "disconnect"
          /\ handler' = [handler EXCEPT ![s] = "gone"]
          /\ Release(seat)
          /\ UNCHANGED forwarder
       \/ /\ lock[seat].by = "forwarder"
          /\ forwarder' = [forwarder EXCEPT ![s] = "ended"]
          /\ Release(seat)
          /\ UNCHANGED handler

DropClosesSocket(seat) ==
    /\ dropping[seat].step = "close"
    /\ wire' = [wire EXCEPT ![dropping[seat].socket] = "closed"]
    /\ dropping' = [dropping EXCEPT ![seat].step = "untable"]
    /\ UNCHANGED <<tables, lock, handler, forwarder, subscribed, traffic>>

(* The entry is somebody else's by now: it is left alone.                  *)
DropFindsOther(seat) ==
    /\ dropping[seat].step = "untable"
    /\ ~StillActive(seat, dropping[seat].socket)
    /\ HolderResumes(seat)
    /\ UNCHANGED <<tables, wire, subscribed, traffic>>

(* The entries are popped; the forwarder is cancelled wherever it waits,   *)
(* for this very lock too, unless it is the one that runs this.            *)
DropClearsTables(seat) ==
    LET s == dropping[seat].socket
        t == tasks[seat]
    IN
    /\ dropping[seat].step = "untable"
    /\ StillActive(seat, s)
    /\ active' = [active EXCEPT ![seat] = NoSocket]
    /\ tasks' = [tasks EXCEPT ![seat] = NoSocket]
    /\ forwarder' = [f \in Sockets |-> IF f = t /\ forwarder[f] # "disconnecting"
                                       THEN "ended" ELSE forwarder[f]]
    /\ dropping' = [dropping EXCEPT ![seat].step = "unsubscribe"]
    /\ UNCHANGED <<pubsubs, lock, handler, wire, subscribed, traffic>>

DropUnsubscribes(seat) ==
    /\ dropping[seat].step = "unsubscribe"
    /\ ClosePubsub(seat)
    /\ HolderResumes(seat)
    /\ UNCHANGED <<active, tasks, wire, delivered, outcome>>

-----------------------------------------------------------------------------
(* The receive loop of ws.py.                                              *)

(* Mutant: a handler that ends without its finally clause.                 *)
ReceiveEndsSilently(s) ==
    /\ HandlerGoes(s, "serving", "gone")
    /\ wire' = [wire EXCEPT ![s] = "closed"]
    /\ UNCHANGED <<tables, lock, dropping, forwarder, subscribed, traffic>>

(* The box hangs up, the ping times out, or the server closed the socket.  *)
ReceiveEnds(s) ==
    /\ HandlerGoes(s, "serving", "leaving")
    /\ wire' = [wire EXCEPT ![s] = "closed"]
    /\ UNCHANGED <<tables, lock, dropping, forwarder, subscribed, traffic>>

DisconnectLocked(s) ==
    LET seat == SeatOf[s] IN
    /\ HandlerGoes(s, "leaving", "disconnecting")
    /\ Acquire(seat, "disconnect", s)
    /\ dropping' = [dropping EXCEPT ![seat] = [socket |-> s, step |-> "untable"]]
    /\ UNCHANGED <<tables, forwarder, wire, subscribed, traffic>>

-----------------------------------------------------------------------------
(* send_command and _forward_commands.                                     *)

Subscribers(kiosk) == {s \in subscribed : SeatOf[s][2] = kiosk}

Published(kiosk, c) ==
    inbox' = [s \in Sockets |-> IF s \in Subscribers(kiosk) THEN inbox[s] \cup {c} ELSE inbox[s]]

(* True says that Redis had a subscriber, not that a box got the command.  *)
SendCommand(kiosk, c) ==
    /\ outcome[c] = "unsent"
    /\ Published(kiosk, c)
    /\ outcome' = [outcome EXCEPT ![c] = IF Subscribers(kiosk) # {} THEN "taken" ELSE "refused"]
    /\ UNCHANGED <<tables, lock, dropping, handler, forwarder, wire, subscribed, delivered>>

(* An error of Redis is a refusal, and may come after the publication.     *)
SendFails(kiosk, c) ==
    /\ outcome[c] = "unsent"
    /\ Published(kiosk, c) \/ UNCHANGED inbox
    /\ outcome' = [outcome EXCEPT ![c] = "refused"]
    /\ UNCHANGED <<tables, lock, dropping, handler, forwarder, wire, subscribed, delivered>>

Forwarding(s) == forwarder[s] = "running" /\ active[SeatOf[s]] = s

Forward(s, c) ==
    /\ Forwarding(s)
    /\ c \in inbox[s]
    /\ wire[s] = "open"
    /\ inbox' = [inbox EXCEPT ![s] = @ \ {c}]
    /\ delivered' = [delivered EXCEPT ![s] = @ \cup {c}]
    /\ UNCHANGED <<tables, lock, dropping, handler, forwarder, wire, subscribed, outcome>>

(* The send fails or takes too long; the command read is lost.             *)
ForwardFails(s, c) ==
    /\ Forwarding(s)
    /\ c \in inbox[s]
    /\ inbox' = [inbox EXCEPT ![s] = @ \ {c}]
    /\ forwarder' = [forwarder EXCEPT ![s] = "failed"]
    /\ UNCHANGED <<tables, lock, dropping, handler, wire, subscribed, delivered, outcome>>

(* Mutant: an error of Redis ends the forwarder and nothing else.          *)
ListenerGivesUp(s) ==
    /\ Forwarding(s)
    /\ forwarder' = [forwarder EXCEPT ![s] = "ended"]
    /\ UNCHANGED <<tables, lock, dropping, handler, wire, subscribed, traffic>>

ListenFails(s) ==
    /\ Forwarding(s)
    /\ forwarder' = [forwarder EXCEPT ![s] = "failed"]
    /\ UNCHANGED <<tables, lock, dropping, handler, wire, subscribed, traffic>>

ForwarderLocked(s) ==
    LET seat == SeatOf[s] IN
    /\ forwarder[s] = "failed"
    /\ Acquire(seat, "forwarder", s)
    /\ forwarder' = [forwarder EXCEPT ![s] = "disconnecting"]
    /\ dropping' = [dropping EXCEPT ![seat] = [socket |-> s, step |-> "close"]]
    /\ UNCHANGED <<tables, handler, wire, subscribed, traffic>>

-----------------------------------------------------------------------------
Connect(s) ==
    \/ ConnectRefused(s)
    \/ ConnectBegin(s)
    \/ ConnectLocked(s)
    \/ Subscribed(s)
    \/ SubscribeFails(s)
    \/ Accepted(s)
    \/ AcceptFails(s)
    \/ Announced(s)

Disconnect(seat) ==
    \/ DropClosesSocket(seat)
    \/ DropFindsOther(seat)
    \/ DropClearsTables(seat)
    \/ DropUnsubscribes(seat)

Forwarder(s) ==
    \/ \E c \in Commands : Forward(s, c) \/ ForwardFails(s, c)
    \/ ListenFails(s)
    \/ ForwarderLocked(s)

Kiosks == {seat[2] : seat \in Seats}

Next ==
    \/ \E s \in Sockets : Connect(s) \/ ReceiveEnds(s) \/ DisconnectLocked(s) \/ Forwarder(s)
    \/ \E seat \in Seats : Disconnect(seat)
    \/ \E kiosk \in Kiosks, c \in Commands : SendCommand(kiosk, c) \/ SendFails(kiosk, c)

Spec == Init /\ [][Next]_vars

(* The event loop runs every coroutine that can go on, calls return, and a *)
(* socket the server has closed wakes its handler.  Nothing makes a box    *)
(* connect or hang up, a call fail, or a command be sent.                  *)
Fairness ==
    /\ \A s \in Sockets :
          /\ WF_vars(handler[s] # "new" /\ Connect(s))
          /\ WF_vars(wire[s] = "closed" /\ ReceiveEnds(s))
          /\ WF_vars(DisconnectLocked(s))
          /\ WF_vars(ForwarderLocked(s))
    /\ \A seat \in Seats : WF_vars(Disconnect(seat))

LiveSpec == Spec /\ Fairness

-----------------------------------------------------------------------------
(* Properties.                                                             *)

(* 03_websockets.md: a reconnect closes the previous socket of the kiosk   *)
(* before it is accepted.  In a process the only open socket of a kiosk is *)
(* the registered one: an old handler or forwarder that ends late never    *)
(* takes down its successor, which would leave it open and unheard.        *)
SingleConnection ==
    \A s \in Sockets : wire[s] = "open" => active[SeatOf[s]] = s

(* Whenever the lock of a kiosk is free, its tables name one socket, with  *)
(* its own subscription and a live forwarder, or nothing is left at all.   *)
TablesAgree ==
    \A seat \in Seats : lock[seat] = Free =>
        /\ pubsubs[seat] = active[seat]
        /\ tasks[seat] = active[seat]
        /\ {s \in Sockets : SeatOf[s] = seat /\ forwarder[s] \in {"running", "failed"}}
              = {active[seat]} \ {NoSocket}

(* send_command believes the number of subscribers.  No subscription       *)
(* outlives its connection, not even one that was refused half-way, except *)
(* while the lock holder is putting it up or taking it down.               *)
SubscriberIsConnected ==
    \A s \in subscribed :
        /\ pubsubs[SeatOf[s]] = s
        /\ lock[SeatOf[s]] = Free => active[SeatOf[s]] = s

(* A command opens a door once: when a box reconnects while it is being    *)
(* published, the old and the new socket never both get it.                *)
DeliveredOnce ==
    \A s, t \in Sockets :
        SeatOf[s] = SeatOf[t] /\ delivered[s] \cap delivered[t] # {} => s = t

(* No reconnect hangs: connect cancels the old forwarder it waits for,     *)
(* which may itself be waiting for the lock that connect holds.            *)
ConnectEnds ==
    \A s \in Sockets : handler[s] = "locking" ~> handler[s] \in {"serving", "leaving", "gone"}

(* 03_concurrency.md: dead sockets are removed from the registry, whichever*)
(* of handler, forwarder and successor gets there first.                   *)
DeadSocketsEvicted ==
    \A s \in Sockets :
        active[SeatOf[s]] = s /\ wire[s] = "closed" ~> active[SeatOf[s]] # s

=============================================================================
