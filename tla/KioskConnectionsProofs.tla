------------------------ MODULE KioskConnectionsProofs ------------------------
(***************************************************************************)
(* Theorems about KioskConnections, for any sockets, seats and commands.   *)
(*                                                                         *)
(* All that concerns a seat is in SeatInv, and an action touches one seat: *)
(* a step keeps SeatInv elsewhere by a frame lemma, and the proof of each  *)
(* action is about its own seat.                                           *)
(***************************************************************************)
EXTENDS KioskConnections, TLAPS

Of(z) == {s \in Sockets : SeatOf[s] = z}

Held(by, s) == [by |-> by, socket |-> s]

Connecting == {"replacing", "subscribing", "accepting", "announcing"}

(* Who holds the lock of z is where its holder thinks it is.               *)
HolderInv(z) ==
    /\ lock[z] # Free => lock[z].socket \in Of(z)
    /\ \A s \in Of(z) :
          /\ handler[s] \in Connecting <=> lock[z] = Held("connect", s)
          /\ handler[s] = "disconnecting" <=> lock[z] = Held("disconnect", s)
          /\ forwarder[s] = "disconnecting" <=> lock[z] = Held("forwarder", s)
          /\ handler[s] = "leaving" => wire[s] = "closed"

(* A disconnect under way is its holder's, and closed the socket first.    *)
DropInv(z) ==
    /\ dropping[z] = NoDrop =>
          \/ lock[z] = Free
          \/ lock[z].by = "connect" /\ handler[lock[z].socket] # "replacing"
    /\ dropping[z] # NoDrop =>
          /\ dropping[z].socket \in Of(z)
          /\ dropping[z].step # "none"
          /\ lock[z].by # "nobody"
          /\ IF lock[z].by = "connect" THEN handler[lock[z].socket] = "replacing"
                                       ELSE dropping[z].socket = lock[z].socket
          /\ lock[z].by = "disconnect" => dropping[z].step # "close"
          /\ dropping[z].step # "close" => wire[dropping[z].socket] = "closed"

Alive(s) == forwarder[s] \in {"running", "failed"}

(* The tables, when nobody is about to change them; a forwarder that holds *)
(* the lock is not counted as alive.                                       *)
Agree(z) ==
    /\ active[z] \in Of(z) \cup {NoSocket}
    /\ pubsubs[z] = active[z] /\ tasks[z] = active[z]
    /\ \A s \in Of(z) : Alive(s) <=> active[z] = s /\ lock[z].by # "forwarder"

(* The tables of a kiosk that has no forwarder, on the way up or down.     *)
Between(z, a, p) ==
    /\ active[z] = a /\ pubsubs[z] = p /\ tasks[z] = NoSocket
    /\ \A s \in Of(z) : ~Alive(s)

TableInv(z) ==
    /\ lock[z] = Free => Agree(z)
    /\ dropping[z].step \in {"close", "untable"} =>
          Agree(z) /\ (lock[z].by # "disconnect" => active[z] = dropping[z].socket)
    /\ dropping[z].step = "unsubscribe" => Between(z, NoSocket, dropping[z].socket)
    /\ \A s \in Of(z) :
          /\ handler[s] = "subscribing" => Between(z, NoSocket, NoSocket)
          /\ handler[s] = "accepting" => Between(z, NoSocket, s)
          /\ handler[s] = "announcing" => Between(z, s, s)
          /\ wire[s] = "open" => active[z] = s

SeatInv(z) == HolderInv(z) /\ DropInv(z) /\ TableInv(z)

SubscriptionInv == \A s \in subscribed : pubsubs[SeatOf[s]] = s

Got(s) == inbox[s] \cup delivered[s]

TrafficInv ==
    /\ \A s, t \in Sockets : SeatOf[s] = SeatOf[t] /\ Got(s) \cap Got(t) # {} => s = t
    /\ \A s \in Sockets, c \in Commands : outcome[c] = "unsent" => c \notin Got(s)

IInv ==
    /\ TypeOK
    /\ \A z \in Seats : SeatInv(z)
    /\ SubscriptionInv
    /\ TrafficInv

-----------------------------------------------------------------------------
(* Types                                                                   *)

LEMMA SeatOfType == ASSUME NEW s \in Sockets PROVE SeatOf[s] \in Seats
BY ConnectionConstants

LEMMA InitType == Init => TypeOK
BY DEF Init, TypeOK, Free, Holder, NoDrop, Drop

LEMMA ReleaseType ==
    ASSUME TypeOK, NEW z \in Seats, Release(z)
    PROVE  lock' \in [Seats -> Holder]
BY DEF TypeOK, Release, Holder

LEMMA AcquireType ==
    ASSUME TypeOK, NEW z \in Seats, NEW by \in {"connect", "disconnect", "forwarder"},
           NEW s \in Sockets, Acquire(z, by, s)
    PROVE  lock' \in [Seats -> Holder]
BY DEF TypeOK, Acquire, Holder

LEMMA ResumesType ==
    ASSUME TypeOK, NEW z \in Seats, HolderResumes(z)
    PROVE  /\ lock' \in [Seats -> Holder]
           /\ dropping' \in [Seats -> Drop]
           /\ handler' \in [Sockets -> {"new", "locking", "replacing", "subscribing", "accepting",
                                "announcing", "serving", "leaving", "disconnecting", "gone"}]
           /\ forwarder' \in [Sockets -> {"none", "running", "failed", "disconnecting", "ended"}]
<1>1. NoDrop \in Drop
  BY DEF NoDrop, Drop
<1> QED
  BY <1>1, ReleaseType DEF TypeOK, HolderResumes

LEMMA CloseType ==
    ASSUME TypeOK, NEW z \in Seats, ClosePubsub(z)
    PROVE  /\ pubsubs' \in [Seats -> Sockets \cup {NoSocket}]
           /\ subscribed' \subseteq Sockets
           /\ inbox' \in [Sockets -> SUBSET Commands]
BY DEF TypeOK, ClosePubsub

LEMMA ConnectType == ASSUME TypeOK, NEW s \in Sockets, Connect(s) PROVE TypeOK'
<1> DEFINE z == SeatOf[s]
<1>0. z \in Seats
  BY SeatOfType
<1>1. CASE ConnectRefused(s) \/ ConnectBegin(s)
  BY <1>1 DEF TypeOK, ConnectRefused, ConnectBegin, HandlerGoes, tables, traffic
<1>2. CASE ConnectLocked(s)
  <2>1. lock' \in [Seats -> Holder]
    BY <1>0, <1>2, AcquireType DEF ConnectLocked
  <2>2. dropping' \in [Seats -> Drop]
    BY <1>0, <1>2 DEF ConnectLocked, Existing, TypeOK, Drop
  <2>3. handler' \in [Sockets -> {"new", "locking", "replacing", "subscribing", "accepting",
                                "announcing", "serving", "leaving", "disconnecting", "gone"}]
    BY <1>2 DEF ConnectLocked, HandlerGoes, TypeOK
  <2> QED
    BY <1>2, <2>1, <2>2, <2>3 DEF TypeOK, ConnectLocked, tables, traffic
<1>3. CASE Subscribed(s)
  BY <1>0, <1>3 DEF TypeOK, Subscribed, HandlerGoes, traffic
<1>4. CASE SubscribeFails(s)
  BY <1>0, <1>4, ReleaseType DEF TypeOK, SubscribeFails, HandlerGoes, tables, traffic
<1>5. CASE Accepted(s)
  BY <1>0, <1>5 DEF TypeOK, Accepted, HandlerGoes, traffic
<1>6. CASE AcceptFails(s)
  BY <1>0, <1>6, ReleaseType, CloseType DEF TypeOK, AcceptFails, HandlerGoes
<1>7. CASE Announced(s)
  BY <1>0, <1>7, ReleaseType DEF TypeOK, Announced, HandlerGoes, traffic
<1> QED
  BY <1>1, <1>2, <1>3, <1>4, <1>5, <1>6, <1>7 DEF Connect

LEMMA DisconnectType == ASSUME TypeOK, NEW z \in Seats, Disconnect(z) PROVE TypeOK'
<1>1. CASE DropClosesSocket(z)
  BY <1>1 DEF TypeOK, DropClosesSocket, Drop, tables, traffic
<1>2. CASE DropFindsOther(z)
  BY <1>2, ResumesType DEF TypeOK, DropFindsOther, tables, traffic
<1>3. CASE DropClearsTables(z)
  BY <1>3 DEF TypeOK, DropClearsTables, Drop, traffic
<1>4. CASE DropUnsubscribes(z)
  BY <1>4, ResumesType, CloseType DEF TypeOK, DropUnsubscribes
<1> QED
  BY <1>1, <1>2, <1>3, <1>4 DEF Disconnect

LEMMA OthersType ==
    ASSUME TypeOK, NEW s \in Sockets, ReceiveEnds(s) \/ DisconnectLocked(s) \/ Forwarder(s)
    PROVE  TypeOK'
<1> DEFINE z == SeatOf[s]
<1>0. z \in Seats
  BY SeatOfType
<1>1. CASE ReceiveEnds(s)
  BY <1>1 DEF TypeOK, ReceiveEnds, HandlerGoes, tables, traffic
<1>2. CASE DisconnectLocked(s)
  <2>1. dropping' \in [Seats -> Drop]
    BY <1>0, <1>2 DEF DisconnectLocked, TypeOK, Drop
  <2> QED
    BY <1>0, <1>2, <2>1, AcquireType DEF TypeOK, DisconnectLocked, HandlerGoes, tables, traffic
<1>3. CASE ForwarderLocked(s)
  <2>1. dropping' \in [Seats -> Drop]
    BY <1>0, <1>3 DEF ForwarderLocked, TypeOK, Drop
  <2> QED
    BY <1>0, <1>3, <2>1, AcquireType DEF TypeOK, ForwarderLocked, tables, traffic
<1>4. CASE ListenFails(s)
  BY <1>4 DEF TypeOK, ListenFails, tables, traffic
<1>5. ASSUME NEW c \in Commands, Forward(s, c) \/ ForwardFails(s, c) PROVE TypeOK'
  BY <1>5 DEF TypeOK, Forward, ForwardFails, tables
<1> QED
  BY <1>1, <1>2, <1>3, <1>4, <1>5 DEF Forwarder

LEMMA SendType ==
    ASSUME TypeOK, NEW k, NEW c \in Commands, SendCommand(k, c) \/ SendFails(k, c)
    PROVE  TypeOK'
BY DEF TypeOK, SendCommand, SendFails, Published, tables

LEMMA NextType == TypeOK /\ [Next]_vars => TypeOK'
<1> SUFFICES ASSUME TypeOK, [Next]_vars PROVE TypeOK'
  OBVIOUS
<1>1. CASE UNCHANGED vars
  BY <1>1 DEF vars, tables, traffic, TypeOK
<1>2. CASE Next
  BY <1>2, ConnectType, DisconnectType, OthersType, SendType DEF Next
<1> QED
  BY <1>1, <1>2

(* Every table, socket and task is in a state the code has, for any seats. *)
THEOREM TypeCorrect == Spec => []TypeOK
BY InitType, NextType, PTL DEF Spec

-----------------------------------------------------------------------------
(* Seats: what a step leaves alone                                         *)

LEMMA Apart ==
    /\ Free.by = "nobody" /\ NoDrop.step = "none" /\ NoSocket \notin Sockets
    /\ \A by, s : Held(by, s).by = by /\ Held(by, s).socket = s
    /\ \A by \in {"connect", "disconnect", "forwarder"} : \A s : Held(by, s) # Free
BY ConnectionConstants DEF Free, NoDrop, Held

LEMMA Holders ==
    ASSUME TypeOK, NEW z \in Seats
    PROVE  \/ lock[z] = Free
           \/ \E by \in {"connect", "disconnect", "forwarder"}, s \in Sockets : lock[z] = Held(by, s)
BY DEF TypeOK, Holder, Free, Held

(* The sockets of z other than s stay as they are.                         *)
OthersSame(z, s) ==
    \A t \in Of(z) \ {s} :
        handler'[t] = handler[t] /\ forwarder'[t] = forwarder[t] /\ wire'[t] = wire[t]

TablesSame(z) == active'[z] = active[z] /\ pubsubs'[z] = pubsubs[z] /\ tasks'[z] = tasks[z]

Same(z) ==
    /\ TablesSame(z) /\ lock'[z] = lock[z] /\ dropping'[z] = dropping[z]
    /\ \A t \in Of(z) :
        handler'[t] = handler[t] /\ forwarder'[t] = forwarder[t] /\ wire'[t] = wire[t]

LEMMA SameInv == ASSUME NEW z, SeatInv(z), Same(z) PROVE SeatInv(z)'
<1>1. Agree(z) <=> Agree(z)'
  BY DEF Same, TablesSame, Agree, Alive, Of
<1>2. \A a, p : Between(z, a, p) <=> Between(z, a, p)'
  BY DEF Same, TablesSame, Between, Alive, Of
<1>3. HolderInv(z)'
  BY DEF SeatInv, HolderInv, Same, Of, Held
<1>4. DropInv(z)'
  BY <1>3, Apart DEF SeatInv, HolderInv, DropInv, Same, Of
<1>5. TableInv(z)'
  BY <1>1, <1>2 DEF SeatInv, TableInv, Same, TablesSame, Of
<1> QED
  BY <1>3, <1>4, <1>5 DEF SeatInv

LEMMA Elsewhere ==
    ASSUME TypeOK, NEW z \in Seats, NEW y \in Seats \ {z},
           \/ \E s \in Of(z) : Connect(s) \/ ReceiveEnds(s) \/ DisconnectLocked(s) \/ Forwarder(s)
           \/ Disconnect(z) /\ dropping[z].socket \in Of(z) /\ lock[z].socket \in Of(z)
              /\ tasks[z] \in Of(z) \cup {NoSocket}
    PROVE  Same(y)
<1>1. ASSUME NEW s \in Of(z), Connect(s) PROVE Same(y)
  <2>1. CASE ConnectRefused(s) \/ ConnectBegin(s)
    BY <2>1 DEF ConnectRefused, ConnectBegin, HandlerGoes, TypeOK, Of, Same, TablesSame, tables
  <2>2. CASE ConnectLocked(s)
    BY <2>2 DEF ConnectLocked, Acquire, HandlerGoes, TypeOK, Of, Same, TablesSame, tables
  <2>3. CASE Subscribed(s) \/ SubscribeFails(s)
    BY <2>3 DEF Subscribed, SubscribeFails, Release, HandlerGoes, TypeOK, Of, Same, TablesSame, tables
  <2>4. CASE Accepted(s) \/ AcceptFails(s)
    BY <2>4 DEF Accepted, AcceptFails, ClosePubsub, Release, HandlerGoes, TypeOK, Of, Same, TablesSame
  <2>5. CASE Announced(s)
    BY <2>5 DEF Announced, Release, HandlerGoes, TypeOK, Of, Same, TablesSame
  <2> QED
    BY <1>1, <2>1, <2>2, <2>3, <2>4, <2>5 DEF Connect
<1>2. ASSUME NEW s \in Of(z), ReceiveEnds(s) \/ DisconnectLocked(s) \/ Forwarder(s) PROVE Same(y)
  BY <1>2 DEF ReceiveEnds, DisconnectLocked, Forwarder, Forward, ForwardFails, ListenFails,
     ForwarderLocked, Acquire, HandlerGoes, TypeOK, Of, Same, TablesSame, tables
<1>3. ASSUME Disconnect(z), dropping[z].socket \in Of(z), lock[z].socket \in Of(z),
             tasks[z] \in Of(z) \cup {NoSocket}
      PROVE  Same(y)
  <2>1. CASE DropClosesSocket(z)
    BY <1>3, <2>1 DEF DropClosesSocket, TypeOK, Of, Same, TablesSame, tables
  <2>2. CASE DropFindsOther(z)
    BY <1>3, <2>2 DEF DropFindsOther, HolderResumes, Release, TypeOK, Of, Same, TablesSame, tables
  <2>3. CASE DropClearsTables(z)
    BY <1>3, <2>3, Apart DEF DropClearsTables, TypeOK, Of, Same, TablesSame
  <2>4. CASE DropUnsubscribes(z)
    BY <1>3, <2>4 DEF DropUnsubscribes, ClosePubsub, HolderResumes, Release, TypeOK, Of, Same, TablesSame
  <2> QED
    BY <1>3, <2>1, <2>2, <2>3, <2>4 DEF Disconnect
<1> QED
  BY <1>1, <1>2, <1>3

-----------------------------------------------------------------------------
(* The seat of a connecting socket                                         *)

LEMMA RefusedSeat ==
    ASSUME TypeOK, NEW z \in Seats, SeatInv(z), NEW s \in Of(z), ConnectRefused(s) \/ ConnectBegin(s)
    PROVE  SeatInv(z)'
<1>1. /\ handler[s] = "new" /\ handler'[s] \in {"gone", "locking"} /\ OthersSame(z, s)
      /\ wire'[s] \in {wire[s], "closed"} /\ forwarder' = forwarder
      /\ TablesSame(z) /\ lock' = lock /\ dropping' = dropping
  BY DEF TypeOK, ConnectRefused, ConnectBegin, HandlerGoes, Of, OthersSame, TablesSame, tables
<1>2. HolderInv(z)'
  BY <1>1 DEF SeatInv, HolderInv, OthersSame, Connecting, Of
<1>3. DropInv(z)'
  <2>1. lock[z] # Free => lock[z].socket \in Of(z)
    BY DEF SeatInv, HolderInv
  <2>2. lock[z].by = "connect" => lock[z].socket # s
    BY <1>1, Holders, Apart DEF SeatInv, HolderInv, Connecting
  <2> QED
    BY <1>1, <2>1, <2>2, Apart DEF SeatInv, DropInv, OthersSame, Of
<1>4. TableInv(z)'
  BY <1>1 DEF SeatInv, TableInv, OthersSame, TablesSame, Agree, Between, Alive, Of
<1> QED
  BY <1>2, <1>3, <1>4 DEF SeatInv

LEMMA LockedSeat ==
    ASSUME TypeOK, NEW z \in Seats, SeatInv(z), NEW s \in Of(z), ConnectLocked(s)
    PROVE  SeatInv(z)'
<1>1. /\ handler[s] = "locking" /\ lock[z] = Free
      /\ OthersSame(z, s) /\ wire' = wire /\ forwarder' = forwarder
      /\ TablesSame(z) /\ lock'[z] = Held("connect", s)
  BY DEF TypeOK, ConnectLocked, Acquire, HandlerGoes, Of, OthersSame, TablesSame, tables, Held
<1>2. \/ /\ active[z] # NoSocket /\ handler'[s] = "replacing"
         /\ dropping'[z] = [socket |-> active[z], step |-> "close"]
      \/ /\ active[z] = NoSocket /\ handler'[s] = "subscribing"
         /\ dropping' = dropping
  BY DEF TypeOK, ConnectLocked, Existing, HandlerGoes, Of
<1>3. Agree(z) /\ dropping[z] = NoDrop
  BY <1>1 DEF SeatInv, DropInv, TableInv, Free
<1>4. active[z] # NoSocket => active[z] \in Of(z)
  BY <1>3 DEF Agree
<1>5. HolderInv(z)'
  BY <1>1, <1>2, Apart DEF SeatInv, HolderInv, OthersSame, Connecting, Of
<1>6. DropInv(z)'
  BY <1>1, <1>2, <1>3, <1>4, Apart DEF DropInv, Of
<1>7. Agree(z)' /\ (active[z] = NoSocket => Between(z, NoSocket, NoSocket)')
  BY <1>1, <1>3, Apart DEF Agree, Between, TablesSame, Alive, Of, Free
<1>8. TableInv(z)'
  BY <1>1, <1>2, <1>3, <1>7, Apart DEF SeatInv, TableInv, HolderInv, OthersSame, TablesSame, Of, Connecting
<1> QED
  BY <1>5, <1>6, <1>8 DEF SeatInv

(* Who connects and does not replace disconnects nobody.                   *)
LEMMA PhaseFacts ==
    ASSUME TypeOK, NEW z \in Seats, SeatInv(z), NEW s \in Of(z),
           handler[s] \in {"subscribing", "accepting", "announcing"}
    PROVE  /\ lock[z] = Held("connect", s) /\ dropping[z] = NoDrop
           /\ \A t \in Of(z) \ {s} : handler[t] \notin Connecting
           /\ \A t \in Of(z) : handler[t] # "disconnecting" /\ forwarder[t] # "disconnecting"
           /\ handler[s] = "subscribing" => Between(z, NoSocket, NoSocket)
           /\ handler[s] = "accepting" => Between(z, NoSocket, s)
           /\ handler[s] = "announcing" => Between(z, s, s)
<1>1. lock[z] = Held("connect", s)
  BY DEF SeatInv, HolderInv, Connecting
<1>2. dropping[z] = NoDrop
  BY <1>1, Apart DEF SeatInv, DropInv
<1>3. /\ \A t \in Of(z) \ {s} : lock[z] # Held("connect", t)
      /\ \A t \in Of(z) : lock[z] # Held("disconnect", t) /\ lock[z] # Held("forwarder", t)
  BY <1>1, Apart
<1> QED
  BY <1>1, <1>2, <1>3 DEF SeatInv, HolderInv, TableInv

LEMMA SubscribedSeat ==
    ASSUME TypeOK, NEW z \in Seats, SeatInv(z), NEW s \in Of(z), Subscribed(s)
    PROVE  SeatInv(z)'
<1>1. /\ handler[s] = "subscribing" /\ handler'[s] = "accepting"
      /\ OthersSame(z, s) /\ wire' = wire /\ forwarder' = forwarder
      /\ active' = active /\ tasks' = tasks /\ lock' = lock /\ dropping' = dropping
      /\ pubsubs'[z] = s
  BY DEF TypeOK, Subscribed, HandlerGoes, Of, OthersSame
<1>2. HolderInv(z)' /\ DropInv(z)'
  BY <1>1, PhaseFacts, Apart DEF SeatInv, HolderInv, DropInv, OthersSame, Connecting, Of
<1>3. Between(z, NoSocket, s)'
  BY <1>1, PhaseFacts DEF Between, Alive
<1>4. TableInv(z)'
  BY <1>1, <1>3, PhaseFacts, Apart DEF SeatInv, TableInv, OthersSame, Connecting, Of
<1> QED
  BY <1>2, <1>4 DEF SeatInv

LEMMA GivesUpSeat ==
    ASSUME TypeOK, NEW z \in Seats, SeatInv(z), NEW s \in Of(z), SubscribeFails(s) \/ AcceptFails(s)
    PROVE  SeatInv(z)'
<1>1. /\ handler[s] \in {"subscribing", "accepting"} /\ handler'[s] = "gone"
      /\ OthersSame(z, s) /\ wire'[s] = "closed" /\ forwarder' = forwarder
      /\ active' = active /\ tasks' = tasks /\ lock'[z] = Free /\ dropping' = dropping
      /\ handler[s] = "subscribing" => pubsubs' = pubsubs
      /\ handler[s] = "accepting" => pubsubs'[z] = NoSocket
  BY DEF TypeOK, SubscribeFails, AcceptFails, ClosePubsub, Release, HandlerGoes, Of, OthersSame, tables
<1>2. HolderInv(z)' /\ DropInv(z)'
  BY <1>1, PhaseFacts, Apart DEF SeatInv, HolderInv, DropInv, OthersSame, Connecting, Of
<1>3. Between(z, NoSocket, NoSocket)'
  BY <1>1, PhaseFacts DEF Between, Alive
<1>4. Agree(z)'
  BY <1>3, Apart DEF Between, Agree, Alive, Of
<1>5. TableInv(z)'
  BY <1>1, <1>4, PhaseFacts, Apart DEF SeatInv, TableInv, OthersSame, Connecting, Of
<1> QED
  BY <1>2, <1>5 DEF SeatInv

LEMMA AcceptedSeat ==
    ASSUME TypeOK, NEW z \in Seats, SeatInv(z), NEW s \in Of(z), Accepted(s)
    PROVE  SeatInv(z)'
<1>1. /\ handler[s] = "accepting" /\ handler'[s] = "announcing"
      /\ OthersSame(z, s) /\ wire'[s] = "open" /\ forwarder' = forwarder
      /\ active'[z] = s /\ tasks' = tasks /\ lock' = lock /\ dropping' = dropping
      /\ pubsubs' = pubsubs
  BY DEF TypeOK, Accepted, HandlerGoes, Of, OthersSame
<1>2. HolderInv(z)' /\ DropInv(z)'
  BY <1>1, PhaseFacts, Apart DEF SeatInv, HolderInv, DropInv, OthersSame, Connecting, Of
<1>3. Between(z, s, s)'
  BY <1>1, PhaseFacts DEF Between, Alive
<1>4. \A t \in Of(z) : wire[t] # "open"
  BY <1>1, PhaseFacts, Apart DEF SeatInv, TableInv, Between, Of
<1>5. TableInv(z)'
  BY <1>1, <1>3, <1>4, PhaseFacts, Apart DEF TableInv, OthersSame, Connecting, Of
<1> QED
  BY <1>2, <1>5 DEF SeatInv

LEMMA AnnouncedSeat ==
    ASSUME TypeOK, NEW z \in Seats, SeatInv(z), NEW s \in Of(z), Announced(s)
    PROVE  SeatInv(z)'
<1>1. /\ handler[s] = "announcing" /\ handler'[s] = "serving"
      /\ \A t \in Of(z) \ {s} : handler'[t] = handler[t] /\ forwarder'[t] = forwarder[t]
      /\ wire' = wire /\ forwarder'[s] = "running"
      /\ active' = active /\ tasks'[z] = s /\ lock'[z] = Free /\ dropping' = dropping
      /\ pubsubs' = pubsubs
  BY DEF TypeOK, Announced, Release, HandlerGoes, Of
<1>2. HolderInv(z)' /\ DropInv(z)'
  BY <1>1, PhaseFacts, Apart DEF SeatInv, HolderInv, DropInv, Connecting, Of
<1>3. Agree(z)'
  BY <1>1, PhaseFacts, Apart DEF Between, Agree, Alive, Of
<1>4. TableInv(z)'
  BY <1>1, <1>3, PhaseFacts, Apart DEF SeatInv, TableInv, Connecting, Of
<1> QED
  BY <1>2, <1>4 DEF SeatInv

-----------------------------------------------------------------------------
(* The seat of a disconnect                                                *)

(* Whoever disconnects, holds the lock.                                    *)
LEMMA DropFacts ==
    ASSUME TypeOK, NEW z \in Seats, SeatInv(z), dropping[z].step # "none"
    PROVE  /\ dropping[z].socket \in Of(z) /\ lock[z].socket \in Of(z) /\ lock[z] # Free
           /\ \A t \in Of(z) : handler[t] \notin {"subscribing", "accepting", "announcing"}
           /\ \/ lock[z] = Held("connect", lock[z].socket)
              \/ lock[z] = Held("disconnect", lock[z].socket)
              \/ lock[z] = Held("forwarder", lock[z].socket)
<1>1. dropping[z] # NoDrop
  BY Apart
<1>2. /\ dropping[z].socket \in Of(z) /\ lock[z] # Free /\ lock[z].socket \in Of(z)
      /\ lock[z].by = "connect" => handler[lock[z].socket] = "replacing"
  BY <1>1, Apart DEF SeatInv, DropInv, HolderInv
<1>3. PICK by \in {"connect", "disconnect", "forwarder"} : lock[z] = Held(by, lock[z].socket)
  BY <1>2, Holders, Apart
<1>4. \A t \in Of(z) : handler[t] \notin {"subscribing", "accepting", "announcing"}
  BY <1>2, <1>3, Apart DEF SeatInv, HolderInv, Connecting
<1> QED
  BY <1>2, <1>3, <1>4

LEMMA TasksHere ==
    ASSUME TypeOK, NEW z \in Seats, SeatInv(z), dropping[z].step # "none"
    PROVE  tasks[z] \in Of(z) \cup {NoSocket}
<1>1. dropping[z].step \in {"close", "untable", "unsubscribe"}
  BY DEF TypeOK, Drop
<1> QED
  BY <1>1 DEF SeatInv, TableInv, Agree, Between

LEMMA ClosesSeat ==
    ASSUME TypeOK, NEW z \in Seats, SeatInv(z), DropClosesSocket(z)
    PROVE  SeatInv(z)'
<1> DEFINE d == dropping[z].socket
<1>1. /\ dropping[z].step = "close" /\ d \in Of(z) /\ lock[z] # Free
      /\ \A t \in Of(z) : handler[t] \notin {"subscribing", "accepting", "announcing"}
  BY DropFacts DEF DropClosesSocket
<1>2. /\ wire'[d] = "closed" /\ \A t \in Of(z) \ {d} : wire'[t] = wire[t]
      /\ handler' = handler /\ forwarder' = forwarder /\ TablesSame(z) /\ lock' = lock
      /\ dropping'[z].socket = d /\ dropping'[z].step = "untable"
  BY <1>1 DEF TypeOK, DropClosesSocket, Drop, Of, TablesSame, tables
<1>3. HolderInv(z)'
  BY <1>2 DEF SeatInv, HolderInv, Of
<1>4. DropInv(z)'
  BY <1>1, <1>2, Apart DEF SeatInv, DropInv, Of
<1>5. Agree(z)'
  BY <1>1, <1>2 DEF SeatInv, TableInv, Agree, TablesSame, Alive, Of
<1>6. TableInv(z)'
  BY <1>1, <1>2, <1>5 DEF SeatInv, TableInv, TablesSame, Of
<1> QED
  BY <1>3, <1>4, <1>6 DEF SeatInv

(* The holder resumes: what is left to show is about the tables.           *)
LEMMA ResumesSeat ==
    ASSUME TypeOK, NEW z \in Seats, SeatInv(z), dropping[z].step # "none", HolderResumes(z),
           wire' = wire
    PROVE  LET s == lock[z].socket
           IN  /\ HolderInv(z)' /\ DropInv(z)'
               /\ dropping'[z] = NoDrop
               /\ \A t \in Of(z) \ {s} : handler'[t] = handler[t] /\ forwarder'[t] = forwarder[t]
               /\ \A t \in Of(z) : Alive(t)' <=> Alive(t)
               /\ \/ lock[z].by = "connect" /\ lock'[z] = lock[z] /\ handler'[s] = "subscribing"
                  \/ lock[z].by # "connect" /\ lock'[z] = Free
                     /\ handler'[s] \in {handler[s], "gone"}
<1> DEFINE s == lock[z].socket
<1>1. s \in Of(z) /\ s \in Sockets /\ lock[z] # Free
  BY DropFacts DEF Of
<1>2. dropping'[z] = NoDrop
  BY DEF TypeOK, HolderResumes
<1>3. CASE lock[z] = Held("connect", s)
  <2>1. /\ handler' = [handler EXCEPT ![s] = "subscribing"]
        /\ lock' = lock /\ forwarder' = forwarder
    BY <1>3, Apart DEF HolderResumes
  <2>2. /\ handler'[s] = "subscribing" /\ handler[s] \in Connecting
        /\ \A t \in Of(z) \ {s} : handler'[t] = handler[t]
    BY <1>1, <1>3, <2>1 DEF TypeOK, SeatInv, HolderInv, Of
  <2>3. HolderInv(z)'
    BY <1>1, <2>1, <2>2 DEF SeatInv, HolderInv, Connecting, Of
  <2>4. DropInv(z)'
    BY <1>2, <1>3, <2>1, <2>2, Apart DEF DropInv
  <2> QED
    BY <1>2, <1>3, <2>1, <2>2, <2>3, <2>4, Apart DEF Alive
<1>4. CASE lock[z] = Held("disconnect", s)
  <2>1. /\ handler' = [handler EXCEPT ![s] = "gone"]
        /\ Release(z) /\ forwarder' = forwarder
    BY <1>4, Apart DEF HolderResumes
  <2>2. /\ handler'[s] = "gone" /\ lock'[z] = Free
        /\ \A t \in Of(z) \ {s} : handler'[t] = handler[t]
    BY <1>1, <2>1 DEF TypeOK, Release, Of
  <2>3. HolderInv(z)'
    BY <1>1, <1>4, <2>1, <2>2, Apart DEF SeatInv, HolderInv, Connecting, Of
  <2>4. DropInv(z)'
    BY <1>2, <2>2 DEF DropInv
  <2> QED
    BY <1>2, <1>4, <2>1, <2>2, <2>3, <2>4, Apart DEF Alive
<1>5. CASE lock[z] = Held("forwarder", s)
  <2>1. /\ forwarder' = [forwarder EXCEPT ![s] = "ended"]
        /\ Release(z) /\ handler' = handler
    BY <1>5, Apart DEF HolderResumes
  <2>2. /\ forwarder'[s] = "ended" /\ lock'[z] = Free /\ forwarder[s] = "disconnecting"
        /\ \A t \in Of(z) \ {s} : forwarder'[t] = forwarder[t]
    BY <1>1, <1>5, <2>1 DEF TypeOK, Release, Of, SeatInv, HolderInv
  <2>3. HolderInv(z)'
    BY <1>1, <1>5, <2>1, <2>2, Apart DEF SeatInv, HolderInv, Of
  <2>4. DropInv(z)'
    BY <1>2, <2>2 DEF DropInv
  <2> QED
    BY <1>2, <1>5, <2>1, <2>2, <2>3, <2>4, Apart DEF Alive
<1> QED
  BY <1>3, <1>4, <1>5, DropFacts

LEMMA FindsOtherSeat ==
    ASSUME TypeOK, NEW z \in Seats, SeatInv(z), DropFindsOther(z)
    PROVE  SeatInv(z)'
<1> DEFINE s == lock[z].socket
<1>1. /\ dropping[z].step = "untable" /\ active[z] # dropping[z].socket
      /\ HolderResumes(z) /\ wire' = wire /\ TablesSame(z)
  BY DEF DropFindsOther, StillActive, tables, TablesSame
<1>2. Agree(z) /\ lock[z].by = "disconnect"
  BY <1>1 DEF SeatInv, TableInv
<1>3. /\ HolderInv(z)' /\ DropInv(z)' /\ dropping'[z] = NoDrop /\ lock'[z] = Free
      /\ \A t \in Of(z) : handler'[t] \in {handler[t], "gone"}
      /\ \A t \in Of(z) : Alive(t)' <=> Alive(t)
  BY <1>1, <1>2, ResumesSeat
<1>4. Agree(z)'
  BY <1>1, <1>2, <1>3, Apart DEF Agree, TablesSame, Of
<1>5. \A t \in Of(z) : handler[t] \notin {"subscribing", "accepting", "announcing"}
  BY <1>1, DropFacts
<1>6. TableInv(z)'
  BY <1>1, <1>3, <1>4, <1>5, Apart DEF SeatInv, TableInv, TablesSame, Of
<1> QED
  BY <1>3, <1>6 DEF SeatInv

LEMMA ClearsSeat ==
    ASSUME TypeOK, NEW z \in Seats, SeatInv(z), DropClearsTables(z)
    PROVE  SeatInv(z)'
<1> DEFINE d == dropping[z].socket
<1>1. /\ dropping[z].step = "untable" /\ active[z] = d /\ d \in Of(z) /\ lock[z] # Free
      /\ \A t \in Of(z) : handler[t] \notin {"subscribing", "accepting", "announcing"}
  BY DropFacts DEF DropClearsTables, StillActive
<1>2. /\ active'[z] = NoSocket /\ tasks'[z] = NoSocket /\ pubsubs' = pubsubs
      /\ wire' = wire /\ handler' = handler /\ lock' = lock
      /\ dropping'[z].socket = d /\ dropping'[z].step = "unsubscribe"
      /\ \A t \in Of(z) : forwarder'[t] = IF t = tasks[z] /\ forwarder[t] # "disconnecting"
                                          THEN "ended" ELSE forwarder[t]
  BY DEF TypeOK, DropClearsTables, Drop, Of
<1>3. Agree(z)
  BY <1>1 DEF SeatInv, TableInv
<1>4. HolderInv(z)'
  BY <1>2 DEF SeatInv, HolderInv, Of
<1>5. DropInv(z)'
  BY <1>1, <1>2, Apart DEF SeatInv, DropInv, Of
<1>6. Between(z, NoSocket, d)'
  BY <1>1, <1>2, <1>3 DEF Agree, Between, Alive, Of
<1>7. \A t \in Of(z) : wire[t] # "open"
  BY <1>1, Apart DEF SeatInv, TableInv, DropInv
<1>8. TableInv(z)'
  BY <1>1, <1>2, <1>6, <1>7 DEF TableInv, Of
<1> QED
  BY <1>4, <1>5, <1>8 DEF SeatInv

LEMMA UnsubscribesSeat ==
    ASSUME TypeOK, NEW z \in Seats, SeatInv(z), DropUnsubscribes(z)
    PROVE  SeatInv(z)'
<1> DEFINE s == lock[z].socket
<1>1. /\ dropping[z].step = "unsubscribe" /\ HolderResumes(z) /\ wire' = wire
      /\ active' = active /\ tasks' = tasks /\ pubsubs'[z] = NoSocket
  BY DEF TypeOK, DropUnsubscribes, ClosePubsub
<1>2. Between(z, NoSocket, dropping[z].socket)
  BY <1>1 DEF SeatInv, TableInv
<1>3. /\ HolderInv(z)' /\ DropInv(z)' /\ dropping'[z] = NoDrop
      /\ \A t \in Of(z) \ {s} : handler'[t] = handler[t]
      /\ \A t \in Of(z) : Alive(t)' <=> Alive(t)
      /\ \/ lock'[z] # Free /\ handler'[s] = "subscribing"
         \/ lock'[z] = Free /\ handler'[s] \in {handler[s], "gone"}
  BY <1>1, ResumesSeat, DropFacts
<1>4. Between(z, NoSocket, NoSocket)'
  BY <1>1, <1>2, <1>3 DEF Between, Of
<1>5. lock'[z] = Free => Agree(z)'
  BY <1>4, Apart DEF Agree, Between, Of
<1>6. \A t \in Of(z) : handler'[t] \notin {"accepting", "announcing"}
  BY <1>1, <1>3, DropFacts
<1>7. TableInv(z)'
  BY <1>1, <1>2, <1>3, <1>4, <1>5, <1>6, Apart DEF SeatInv, TableInv, Between, Of
<1> QED
  BY <1>3, <1>7 DEF SeatInv

-----------------------------------------------------------------------------
(* The seat of a socket that ends                                          *)

LEMMA EndsSeat ==
    ASSUME TypeOK, NEW z \in Seats, SeatInv(z), NEW s \in Of(z), ReceiveEnds(s)
    PROVE  SeatInv(z)'
<1>1. /\ handler[s] = "serving" /\ handler'[s] = "leaving" /\ OthersSame(z, s)
      /\ wire'[s] = "closed" /\ forwarder' = forwarder
      /\ TablesSame(z) /\ lock' = lock /\ dropping' = dropping
  BY DEF TypeOK, ReceiveEnds, HandlerGoes, Of, OthersSame, TablesSame, tables
<1>2. HolderInv(z)'
  BY <1>1 DEF SeatInv, HolderInv, OthersSame, Connecting, Of
<1>3. DropInv(z)'
  <2>1. lock[z] # Free => lock[z].socket \in Of(z)
    BY DEF SeatInv, HolderInv
  <2>2. lock[z].by = "connect" => lock[z].socket # s
    BY <1>1, Holders, Apart DEF SeatInv, HolderInv, Connecting
  <2> QED
    BY <1>1, <2>1, <2>2, Apart DEF SeatInv, DropInv, OthersSame, Of
<1>4. TableInv(z)'
  BY <1>1 DEF SeatInv, TableInv, OthersSame, TablesSame, Agree, Between, Alive, Of
<1> QED
  BY <1>2, <1>3, <1>4 DEF SeatInv

LEMMA LeavesSeat ==
    ASSUME TypeOK, NEW z \in Seats, SeatInv(z), NEW s \in Of(z), DisconnectLocked(s)
    PROVE  SeatInv(z)'
<1>1. /\ handler[s] = "leaving" /\ handler'[s] = "disconnecting" /\ OthersSame(z, s)
      /\ wire' = wire /\ forwarder' = forwarder /\ lock[z] = Free
      /\ TablesSame(z) /\ lock'[z] = Held("disconnect", s)
      /\ dropping'[z].socket = s /\ dropping'[z].step = "untable"
  BY DEF TypeOK, DisconnectLocked, Acquire, HandlerGoes, Of, OthersSame, TablesSame, tables, Held
<1>2. HolderInv(z)'
  BY <1>1, Apart DEF SeatInv, HolderInv, OthersSame, Connecting, Of
<1>3. DropInv(z)'
  BY <1>1, Apart DEF SeatInv, HolderInv, DropInv, Of
<1>4. Agree(z)'
  BY <1>1, Apart DEF SeatInv, TableInv, Agree, TablesSame, Alive, Of
<1>5. TableInv(z)'
  BY <1>1, <1>4, Apart DEF SeatInv, TableInv, HolderInv, OthersSame, TablesSame, Connecting, Of
<1> QED
  BY <1>2, <1>3, <1>5 DEF SeatInv

(* A forwarder that runs or has failed belongs to the active socket, unless*)
(* the lock is held by one that disconnects.                               *)
LEMMA ForwarderSeat ==
    ASSUME TypeOK, NEW z \in Seats, SeatInv(z), NEW s \in Of(z), Forwarder(s)
    PROVE  SeatInv(z)'
<1>1. CASE \/ \E c \in Commands : Forward(s, c)
           \/ \E c \in Commands : ForwardFails(s, c)
           \/ ListenFails(s)
  <2>1. /\ forwarder[s] = "running" /\ forwarder'[s] \in {"running", "failed"}
        /\ \A t \in Of(z) \ {s} : forwarder'[t] = forwarder[t]
        /\ handler' = handler /\ wire' = wire /\ TablesSame(z)
        /\ lock' = lock /\ dropping' = dropping
    BY <1>1 DEF TypeOK, Forward, ForwardFails, ListenFails, Forwarding, Of, TablesSame, tables
  <2>2. HolderInv(z)' /\ DropInv(z)'
    BY <2>1 DEF SeatInv, HolderInv, DropInv, Of
  <2>3. TableInv(z)'
    BY <2>1 DEF SeatInv, TableInv, TablesSame, Agree, Between, Alive, Of
  <2> QED
    BY <2>2, <2>3 DEF SeatInv
<1>2. CASE ForwarderLocked(s)
  <2>1. /\ forwarder[s] = "failed" /\ forwarder'[s] = "disconnecting"
        /\ \A t \in Of(z) \ {s} : forwarder'[t] = forwarder[t]
        /\ handler' = handler /\ wire' = wire /\ TablesSame(z)
        /\ lock[z] = Free /\ lock'[z] = Held("forwarder", s)
        /\ dropping'[z].socket = s /\ dropping'[z].step = "close"
    BY <1>2 DEF TypeOK, ForwarderLocked, Acquire, Of, TablesSame, tables, Held
  <2>2. HolderInv(z)'
    BY <2>1, Apart DEF SeatInv, HolderInv, Of
  <2>3. DropInv(z)'
    BY <2>1, Apart DEF DropInv, Of
  <2>4. Agree(z) /\ active[z] = s
    BY <2>1, Apart DEF SeatInv, TableInv, Agree, Alive, Free
  <2>5. Agree(z)'
    BY <2>1, <2>4, Apart DEF Agree, TablesSame, Alive, Of, Free
  <2>6. TableInv(z)'
    BY <2>1, <2>4, <2>5, Apart DEF SeatInv, TableInv, HolderInv, TablesSame, Connecting, Of
  <2> QED
    BY <2>2, <2>3, <2>6 DEF SeatInv
<1> QED
  BY <1>1, <1>2 DEF Forwarder

-----------------------------------------------------------------------------
(* All seats, the subscriptions and the commands                           *)

LEMMA InitInv == Init => IInv
<1> SUFFICES ASSUME Init PROVE IInv
  OBVIOUS
<1>1. ASSUME NEW z \in Seats PROVE SeatInv(z)
  <2>1. HolderInv(z) /\ DropInv(z)
    BY Apart DEF Init, HolderInv, DropInv, Connecting, Of
  <2>2. TableInv(z)
    BY Apart DEF Init, TableInv, Agree, Alive, Of
  <2> QED
    BY <2>1, <2>2 DEF SeatInv
<1>2. SubscriptionInv /\ TrafficInv
  BY DEF Init, SubscriptionInv, TrafficInv, Got
<1> QED
  BY <1>1, <1>2, InitType DEF IInv

LEMMA SeatsStay ==
    ASSUME TypeOK, \A z \in Seats : SeatInv(z), Next
    PROVE  \A z \in Seats : SeatInv(z)'
<1>1. ASSUME NEW s \in Sockets,
             Connect(s) \/ ReceiveEnds(s) \/ DisconnectLocked(s) \/ Forwarder(s)
      PROVE  \A y \in Seats : SeatInv(y)'
  <2>1. SeatOf[s] \in Seats /\ s \in Of(SeatOf[s])
    BY SeatOfType DEF Of
  <2>2. SeatInv(SeatOf[s])'
    BY <1>1, <2>1, RefusedSeat, LockedSeat, SubscribedSeat, GivesUpSeat, AcceptedSeat,
       AnnouncedSeat, EndsSeat, LeavesSeat, ForwarderSeat DEF Connect
  <2>3. \A y \in Seats \ {SeatOf[s]} : Same(y)
    BY <1>1, <2>1, Elsewhere
  <2> QED
    BY <2>2, <2>3, SameInv
<1>2. ASSUME NEW z \in Seats, Disconnect(z) PROVE \A y \in Seats : SeatInv(y)'
  <2>1. dropping[z].step # "none"
    BY <1>2 DEF Disconnect, DropClosesSocket, DropFindsOther, DropClearsTables, DropUnsubscribes
  <2>2. SeatInv(z)'
    BY <1>2, ClosesSeat, FindsOtherSeat, ClearsSeat, UnsubscribesSeat DEF Disconnect
  <2>3. \A y \in Seats \ {z} : Same(y)
    BY <1>2, <2>1, DropFacts, TasksHere, Elsewhere
  <2> QED
    BY <2>2, <2>3, SameInv
<1>3. ASSUME NEW k, NEW c, SendCommand(k, c) \/ SendFails(k, c)
      PROVE  \A y \in Seats : SeatInv(y)'
  BY <1>3, SameInv DEF SendCommand, SendFails, Same, TablesSame, tables
<1> QED
  BY <1>1, <1>2, <1>3 DEF Next

LEMMA SubscriptionsStay ==
    ASSUME TypeOK, \A z \in Seats : SeatInv(z), SubscriptionInv, Next
    PROVE  SubscriptionInv'
<1> DEFINE PutsUp == \E s \in Sockets : Subscribed(s)
           TakesDown == \E z \in Seats : ClosePubsub(z)
           Leaves == pubsubs' = pubsubs /\ subscribed' = subscribed
<1>1. CASE PutsUp
  <2>1. PICK s \in Sockets : Subscribed(s)
    BY <1>1
  <2> DEFINE z == SeatOf[s]
  <2>2. z \in Seats /\ s \in Of(z) /\ handler[s] = "subscribing"
    BY <2>1, SeatOfType DEF Of, Subscribed, HandlerGoes
  <2>3. pubsubs[z] = NoSocket
    BY <2>2, PhaseFacts DEF Between
  <2>4. \A t \in subscribed : SeatOf[t] # z
    BY <2>3, Apart DEF SubscriptionInv, TypeOK
  <2> QED
    BY <2>1, <2>2, <2>4, SeatOfType DEF Subscribed, SubscriptionInv, TypeOK
<1>2. ASSUME NEW z \in Seats, ClosePubsub(z) PROVE SubscriptionInv'
  <2>1. \A t \in subscribed' : t \in subscribed /\ t # pubsubs[z]
    BY <1>2 DEF ClosePubsub
  <2>2. \A t \in subscribed' : SeatOf[t] # z
    BY <2>1 DEF SubscriptionInv
  <2> QED
    BY <1>2, <2>1, <2>2 DEF ClosePubsub, SubscriptionInv, TypeOK
<1>3. CASE Leaves
  BY <1>3 DEF SubscriptionInv
<1>4. PutsUp \/ TakesDown \/ Leaves
  <2>1. ASSUME NEW s \in Sockets, Connect(s)
        PROVE  PutsUp \/ TakesDown \/ Leaves
    BY <2>1, SeatOfType DEF Connect, ConnectRefused, ConnectBegin, ConnectLocked, SubscribeFails,
       Accepted, AcceptFails, Announced, tables
  <2>2. ASSUME NEW s \in Sockets, ReceiveEnds(s) \/ DisconnectLocked(s) \/ Forwarder(s)
        PROVE  Leaves
    BY <2>2 DEF ReceiveEnds, DisconnectLocked, Forwarder, Forward, ForwardFails, ListenFails,
       ForwarderLocked, tables
  <2>3. ASSUME NEW z \in Seats, Disconnect(z) PROVE TakesDown \/ Leaves
    BY <2>3 DEF Disconnect, DropClosesSocket, DropFindsOther, DropClearsTables, DropUnsubscribes, tables
  <2>4. ASSUME NEW k, NEW c, SendCommand(k, c) \/ SendFails(k, c) PROVE Leaves
    BY <2>4 DEF SendCommand, SendFails, tables
  <2> QED
    BY <2>1, <2>2, <2>3, <2>4 DEF Next
<1> QED
  BY <1>1, <1>2, <1>3, <1>4

(* A command reaches new inboxes when it is sent, and never again.         *)
LEMMA TrafficStays ==
    ASSUME TypeOK, SubscriptionInv, TrafficInv, Next
    PROVE  TrafficInv'
<1>1. CASE /\ \A s \in Sockets : Got(s)' \subseteq Got(s)
           /\ \A c \in Commands : outcome'[c] = "unsent" => outcome[c] = "unsent"
  BY <1>1 DEF TrafficInv
<1>2. ASSUME NEW k, NEW c \in Commands, SendCommand(k, c) \/ SendFails(k, c) PROVE TrafficInv'
  <2>1. /\ outcome[c] = "unsent" /\ delivered' = delivered
        /\ outcome'[c] # "unsent" /\ \A d \in Commands \ {c} : outcome'[d] = outcome[d]
        /\ Published(k, c) \/ inbox' = inbox
    BY <1>2 DEF SendCommand, SendFails, TypeOK
  <2>2. \A s \in Sockets : c \notin Got(s)
    BY <2>1 DEF TrafficInv
  <2>3. \A s \in Sockets : \/ Got(s)' = Got(s)
                           \/ s \in subscribed /\ SeatOf[s][2] = k /\ Got(s)' = Got(s) \cup {c}
    BY <2>1 DEF Published, Subscribers, Got, TypeOK
  <2>4. \A s, t \in subscribed : SeatOf[s] = SeatOf[t] => s = t
    BY DEF SubscriptionInv
  <2>5. ASSUME NEW s \in Sockets, NEW t \in Sockets, SeatOf[s] = SeatOf[t], s # t
        PROVE  Got(s)' \cap Got(t)' = {}
    <3>1. Got(s) \cap Got(t) = {}
      BY <2>5 DEF TrafficInv
    <3> QED
      BY <2>2, <2>3, <2>4, <2>5, <3>1
  <2>6. \A s \in Sockets, d \in Commands : outcome'[d] = "unsent" => d \notin Got(s)'
    BY <2>1, <2>3 DEF TrafficInv
  <2> QED
    BY <2>5, <2>6 DEF TrafficInv
<1>3. ASSUME NEW s \in Sockets, NEW c \in Commands, Forward(s, c) \/ ForwardFails(s, c)
      PROVE  TrafficInv'
  <2>1. \A t \in Sockets : Got(t)' \subseteq Got(t)
    BY <1>3 DEF Forward, ForwardFails, Got, TypeOK
  <2> QED
    BY <1>1, <1>3, <2>1 DEF Forward, ForwardFails
<1>4. ASSUME NEW z, ClosePubsub(z), UNCHANGED <<delivered, outcome>> PROVE TrafficInv'
  <2>1. \A t \in Sockets : Got(t)' \subseteq Got(t)
    BY <1>4 DEF ClosePubsub, Got
  <2> QED
    BY <1>1, <1>4, <2>1
<1>5. CASE UNCHANGED traffic
  BY <1>5 DEF traffic, TrafficInv, Got
<1> QED
  <2>1. ASSUME NEW s \in Sockets, Connect(s) PROVE TrafficInv'
    BY <1>4, <1>5, <2>1 DEF Connect, ConnectRefused, ConnectBegin, ConnectLocked, Subscribed,
       SubscribeFails, Accepted, AcceptFails, Announced
  <2>2. ASSUME NEW s \in Sockets, ReceiveEnds(s) \/ DisconnectLocked(s) \/ Forwarder(s)
        PROVE  TrafficInv'
    BY <1>3, <1>5, <2>2 DEF ReceiveEnds, DisconnectLocked, Forwarder, ListenFails, ForwarderLocked
  <2>3. ASSUME NEW z \in Seats, Disconnect(z) PROVE TrafficInv'
    BY <1>4, <1>5, <2>3 DEF Disconnect, DropClosesSocket, DropFindsOther, DropClearsTables,
       DropUnsubscribes, traffic
  <2> QED
    BY <1>2, <2>1, <2>2, <2>3 DEF Next

LEMMA IInvStays == IInv /\ [Next]_vars => IInv'
<1> SUFFICES ASSUME IInv, [Next]_vars PROVE IInv'
  OBVIOUS
<1>1. TypeOK'
  BY NextType DEF IInv
<1>2. CASE Next
  BY <1>1, <1>2, SeatsStay, SubscriptionsStay, TrafficStays DEF IInv
<1>3. CASE UNCHANGED vars
  <2>1. \A z \in Seats : SeatInv(z)'
    BY <1>3, SameInv DEF IInv, vars, tables, Same, TablesSame
  <2>2. SubscriptionInv' /\ TrafficInv'
    BY <1>3 DEF IInv, vars, tables, traffic, SubscriptionInv, TrafficInv, Got
  <2> QED
    BY <1>1, <2>1, <2>2 DEF IInv
<1> QED
  BY <1>2, <1>3

LEMMA IInvHolds == Spec => []IInv
BY InitInv, IInvStays, PTL DEF Spec

-----------------------------------------------------------------------------
(* A reconnect closes the previous socket first and no late disconnect     *)
(* takes down a successor: the only open socket of a kiosk is registered.  *)
THEOREM OneOpenSocket == Spec => []SingleConnection
<1>1. IInv => SingleConnection
  BY SeatOfType DEF IInv, SeatInv, TableInv, SingleConnection, Of
<1> QED
  BY <1>1, IInvHolds, PTL

(* Between two holders of a kiosk's lock the three tables and the running  *)
(* forwarder belong to one socket, or there is none.                       *)
THEOREM TablesMatch == Spec => []TablesAgree
<1>1. IInv => TablesAgree
  <2> SUFFICES ASSUME IInv, NEW z \in Seats, lock[z] = Free
               PROVE  /\ pubsubs[z] = active[z] /\ tasks[z] = active[z]
                      /\ {s \in Sockets : SeatOf[s] = z /\ forwarder[s] \in {"running", "failed"}}
                            = {active[z]} \ {NoSocket}
    BY DEF TablesAgree
  <2>1. Agree(z)
    BY DEF IInv, SeatInv, TableInv
  <2>2. \A s \in Of(z) : Alive(s) <=> active[z] = s
    BY <2>1, Apart DEF Agree
  <2> QED
    BY <2>1, <2>2, Apart DEF Agree, Alive, Of
<1> QED
  BY <1>1, IInvHolds, PTL

(* Whoever Redis counts as a subscriber is the connection of its kiosk, as *)
(* soon as nobody holds the lock.                                          *)
THEOREM NoStraySubscription == Spec => []SubscriberIsConnected
<1>1. IInv => SubscriberIsConnected
  BY SeatOfType DEF IInv, TypeOK, SubscriptionInv, SeatInv, TableInv, Agree, SubscriberIsConnected
<1> QED
  BY <1>1, IInvHolds, PTL

(* Of the sockets a kiosk has had, one at most is handed a command.        *)
THEOREM CommandsNotDoubled == Spec => []DeliveredOnce
<1>1. IInv => DeliveredOnce
  BY DEF IInv, TrafficInv, Got, DeliveredOnce
<1> QED
  BY <1>1, IInvHolds, PTL

=============================================================================
