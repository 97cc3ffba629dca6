-------------------------------- MODULE Socket --------------------------------
(***************************************************************************)
(* The connection table of a Socket (src/socket/mod.rs) with the heartbeat *)
(* timers of its connections (src/socket/connection.rs): what send_to,     *)
(* connect and disconnect do to it, what one poll does, and the two queues *)
(* the application reads.                                                  *)
(*                                                                         *)
(* Of a connection this module keeps the time left before it times out,    *)
(* its message window, and the messages it has taken and not yet given     *)
(* out; module ReceiveManager has the order in which it gives them out,    *)
(* and SendManager what it sends.  Peers may send any valid packet at any  *)
(* time, to a socket that knows them or not.                               *)
(*                                                                         *)
(* A poll is a step that advances the clocks, one per packet, one per      *)
(* connection and message, and one that removes the connections that       *)
(* timed out.  The application does nothing while a poll runs.             *)
(***************************************************************************)
EXTENDS AckWindow, Packet, SequencesExt

CONSTANTS
    Addrs,              \* the addresses of the peers
    HeartbeatTimeout,   \* HEARBEAT_TIMEOUT, in ticks of the clock
    MaxDelta,           \* the second that poll caps its dt to, in ticks
    Deltas,             \* the dt the application may poll with
    PeerMessages,       \* the messages peers send
    MaxPackets,         \* bound: packets received in a behaviour
    MaxConnects         \* bound: connections made in a behaviour

ASSUME SocketAssumption ==
    /\ HeartbeatTimeout \in Nat \ {0}
    /\ MaxDelta \in Nat \ {0}
    /\ Deltas \subseteq Nat
    /\ PeerMessages \subseteq [kind : Kinds, id : Nat]
    /\ MaxPackets \in Nat
    /\ MaxConnects \in Nat

VARIABLES
    connections,    \* from the addresses of its keys to their connections
    events,         \* event_queue
    messages,       \* message_queue
    phase,          \* "idle", or the loop of poll that runs
    todo,           \* the connections poll_connections has still to visit
    visited,        \* the one it visits: a set of one address, or none
    told,           \* history: who is connected, by the events taken
    silent,         \* history: ticks since a connected peer was heard
    packets,        \* how many packets were received, for the bound
    connects        \* how many connections were made, for the bound

pollVars == <<phase, todo, visited>>
vars == <<connections, events, messages, pollVars, told, silent, packets,
          connects>>

Connection(a) == [what |-> "Connection", addr |-> a]
Disconnection(a) == [what |-> "Disconnection", addr |-> a]

Init ==
    /\ connections = <<>>
    /\ events = <<>>
    /\ messages = <<>>
    /\ phase = "idle" /\ todo = {} /\ visited = {}
    /\ told = {}
    /\ silent = [a \in Addrs |-> 0]
    /\ packets = 0
    /\ connects = 0

Connected == DOMAIN connections

-----------------------------------------------------------------------------
(* The application, between two polls *)

NewConnection ==
    [left |-> HeartbeatTimeout, window |-> NewSlidingWindow, taken |-> <<>>]

\* Faulty form of Opens: a connection that exists is replaced.
OpensAnyway(a) == a \in Addrs

Opens(a) == a \notin Connected

\* connect, and send_to, which connects before it queues its message.  To an
\* address that is connected it does nothing to the table.
Connect(a) ==
    /\ phase = "idle"
    /\ connects < MaxConnects
    /\ Opens(a)
    /\ connections' = [b \in Connected \cup {a} |->
                        IF b = a THEN NewConnection ELSE connections[b]]
    /\ events' = Append(events, Connection(a))
    /\ silent' = [silent EXCEPT ![a] = 0]
    /\ connects' = connects + 1
    /\ UNCHANGED <<messages, pollVars, told, packets>>

Disconnect(a) ==
    /\ phase = "idle"
    /\ a \in Connected
    /\ connections' = Restrict(connections, Connected \ {a})
    /\ events' = Append(events, Disconnection(a))
    /\ UNCHANGED <<messages, pollVars, told, silent, packets, connects>>

\* Who is connected, for one who knew who was and has taken the first n events:
\* the last of them about an address says it.
After(known, es, n) ==
    {a \in Addrs :
        \/ \E i \in 1 .. n : /\ es[i] = Connection(a)
                             /\ \A j \in (i + 1) .. n : es[j].addr # a
        \/ a \in known /\ \A j \in 1 .. n : es[j].addr # a}

GetEvent ==
    /\ phase = "idle"
    /\ events # <<>>
    /\ events' = Tail(events)
    /\ told' = After(told, events, 1)
    /\ UNCHANGED <<connections, messages, pollVars, silent, packets, connects>>

\* recv_from takes one message, clear_messages all.
RecvFrom ==
    /\ phase = "idle"
    /\ messages # <<>>
    /\ messages' \in {Tail(messages), <<>>}
    /\ UNCHANGED <<connections, events, pollVars, told, silent, packets,
                   connects>>

ClearEvents ==
    /\ phase = "idle"
    /\ events # <<>>
    /\ events' = <<>>
    /\ told' = After(told, events, Len(events))
    /\ UNCHANGED <<connections, messages, pollVars, silent, packets, connects>>

-----------------------------------------------------------------------------
(* poll: update_connections_times, then receive_messages *)

TimedOut(c) == c.left = 0

Capped(dt) == Min({dt, MaxDelta})

\* Faulty form of Later: a frame longer than the cap does not count at all.
LaterIfShort(c, dt) == IF dt > MaxDelta THEN c
                       ELSE [c EXCEPT !.left = Max({0, @ - dt})]

Later(c, dt) == [c EXCEPT !.left = Max({0, @ - Capped(dt)})]

Poll(dt) ==
    /\ phase = "idle"
    /\ phase' = "receive"
    /\ connections' = [a \in Connected |-> Later(connections[a], dt)]
    /\ silent' = [a \in Addrs |-> IF a \in Connected
                    THEN Min({HeartbeatTimeout, silent[a] + Capped(dt)})
                    ELSE silent[a]]
    /\ UNCHANGED <<events, messages, todo, visited, told, packets, connects>>

\* ReceiveManager::process_message.
Take(c, m) ==
    IF ~ IsReliable(m) THEN [c EXCEPT !.taken = Append(@, m)]
    ELSE IF m.id \in Reach(c.window) \ c.window.marked
    THEN [c EXCEPT !.taken = Append(@, m),
                   !.window = SlidingMark(@, m.id)]
    ELSE c

\* What a connection is after the messages of a packet, one by one.
TakeAll(c, ms) ==
    LET upTo[i \in 0 .. Len(ms)] ==
            IF i = 0 THEN c ELSE Take(upTo[i - 1], ms[i])
    IN  upTo[Len(ms)]

\* Faulty form of Hear: an empty packet does not count as a sign of life.
HearMessages(c, ms) ==
    TakeAll(IF ms = <<>> THEN c ELSE [c EXCEPT !.left = HeartbeatTimeout], ms)

\* process_packet: every packet of the peer resets the heartbeat timer.
Hear(c, ms) == TakeAll([c EXCEPT !.left = HeartbeatTimeout], ms)

From(a, ms) == [i \in DOMAIN ms |-> [from |-> a, message |-> ms[i]]]

\* A peer without a connection has its messages put in the queue as they are.
ReceivePacket(a, ms) ==
    /\ phase = "receive"
    /\ packets < MaxPackets
    /\ packets' = packets + 1
    /\ IF a \in Connected
       THEN /\ connections' = [connections EXCEPT ![a] = Hear(@, ms)]
            /\ silent' = [silent EXCEPT ![a] = 0]
            /\ UNCHANGED messages
       ELSE /\ messages' = messages \o From(a, ms)
            /\ UNCHANGED <<connections, silent>>
    /\ UNCHANGED <<events, pollVars, told, connects>>

\* The backend's recv_from returned None: nothing has arrived, or a datagram
\* that is not a packet.
StopReceiving ==
    /\ phase = "receive"
    /\ phase' = "poll"
    /\ todo' = Connected
    /\ UNCHANGED <<connections, events, messages, visited, told, silent,
                   packets, connects>>

-----------------------------------------------------------------------------
(* poll: poll_connections *)

\* The messages a connection can give out: all but the ordered ones that have
\* a hole below them.
Ready(c) ==
    {i \in DOMAIN c.taken : c.taken[i].kind = "Reliable"
                            => c.taken[i].id < c.window.pos}

Visit(a) ==
    /\ phase = "poll" /\ visited = {}
    /\ a \in todo
    /\ todo' = todo \ {a}
    /\ visited' = {a}
    /\ UNCHANGED <<connections, events, messages, phase, told, silent, packets,
                   connects>>

Drain ==
    /\ \E a \in visited : \E i \in Ready(connections[a]) :
         /\ messages' = Append(messages,
                [from |-> a, message |-> connections[a].taken[i]])
         /\ connections' = [connections EXCEPT ![a].taken = RemoveAt(@, i)]
    /\ UNCHANGED <<events, pollVars, told, silent, packets, connects>>

\* Faulty form of Drained: recv_message is not asked again for the last one.
DrainedOnce(c) == Len(c.taken) <= 1

Drained(c) == Ready(c) = {}

Leave ==
    /\ \E a \in visited :
         /\ Drained(connections[a])
         /\ events' = IF TimedOut(connections[a])
                      THEN Append(events, Disconnection(a)) ELSE events
    /\ visited' = {}
    /\ UNCHANGED <<connections, messages, phase, todo, told, silent, packets,
                   connects>>

Survivors == {a \in Connected : ~ TimedOut(connections[a])}

EndPoll ==
    /\ phase = "poll" /\ todo = {} /\ visited = {}
    /\ connections' = Restrict(connections, Survivors)
    /\ phase' = "idle"
    /\ UNCHANGED <<events, messages, todo, visited, told, silent, packets,
                   connects>>

-----------------------------------------------------------------------------

PeerPackets == {<<>>} \cup {<<m>> : m \in PeerMessages}

Application == \/ \E a \in Addrs : Connect(a) \/ Disconnect(a)
               \/ GetEvent \/ ClearEvents \/ RecvFrom

Polling == \/ StopReceiving
           \/ \E a \in Addrs : Visit(a)
           \/ Drain \/ Leave \/ EndPoll

Next == \/ Application
        \/ \E dt \in Deltas : Poll(dt)
        \/ \E a \in Addrs, ms \in PeerPackets : ReceivePacket(a, ms)
        \/ Polling

Spec == Init /\ [][Next]_vars

\* A poll that begins ends, and the application goes on polling with the time
\* that has passed: some polls may have a dt of zero, but not all from then on,
\* which takes strong fairness since no poll can begin while another runs.
FairSpec ==
    /\ Spec
    /\ SF_vars(\E dt \in Deltas \ {0} : Poll(dt))
    /\ WF_vars(Polling)

-----------------------------------------------------------------------------
(* Properties *)

Message == [kind : Kinds, id : Nat]

ConnectionType ==
    [left : 0 .. HeartbeatTimeout, window : SlidingWindows, taken : Seq(Message)]

EventType == [what : {"Connection", "Disconnection"}, addr : Addrs]

TypeOK ==
    /\ Connected \subseteq Addrs
    /\ connections \in [Connected -> ConnectionType]
    /\ events \in Seq(EventType)
    /\ messages \in Seq([from : Addrs, message : Message])
    /\ phase \in {"idle", "receive", "poll"}
    /\ todo \subseteq Connected
    /\ visited \subseteq Connected
    /\ told \subseteq Addrs
    /\ silent \in [Addrs -> 0 .. HeartbeatTimeout]
    /\ packets \in Nat
    /\ connects \in Nat

\* The events tell the table: an application that takes them all knows who is
\* connected, and no event says what it knows already.  So a connection that is
\* made is reported once, and its end once, by a disconnect or by a poll.
EventsTellConnections ==
    LET Known(n) == After(told, events, n)
    IN  /\ phase = "idle" => Known(Len(events)) = Connected
        /\ \A n \in 1 .. Len(events) : Known(n) # Known(n - 1)

\* A connection leaves the table by a poll exactly when its peer has been
\* silent for the timeout: a packet received in the last poll saves it, even
\* one that came after the time had passed or that carries no message.
TimeoutsAreExact ==
    [][phase = "poll" /\ phase' = "idle" =>
         \A a \in Connected :
            a \notin Connected' <=> silent[a] >= HeartbeatTimeout]_vars

\* A connection that leaves the table, by a timeout or by disconnect, takes no
\* message with it that it could have given out.
LeavesNothing ==
    [][\A a \in Connected \ Connected' : Ready(connections[a]) = {}]_vars

\* A connection whose peer is not heard any more ends.
SilentPeersLeave == \A a \in Addrs : a \in Connected ~> a \notin Connected
=============================================================================
