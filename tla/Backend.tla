------------------------------- MODULE Backend -------------------------------
(***************************************************************************)
(* What lies between a socket and the network: the testing backend         *)
(* VirtSocketUDP (src/socket/virt.rs), which loses, corrupts, copies and   *)
(* delays what is sent; SocketUDP (src/socket/backend.rs), which signs and *)
(* validates datagrams; and their two readers, the receive loop of         *)
(* Socket::poll (src/socket/mod.rs) and BroadcastListener::recv            *)
(* (src/broadcast.rs).                                                     *)
(*                                                                         *)
(* The network is external: a datagram on the wire arrives any number of   *)
(* times, or never, in any order, and others arrive that were altered, or  *)
(* that another program sent.  They may arrive while the receive loop      *)
(* runs.  Which of them the checksum catches is module Checksum's: here it *)
(* may also match by chance.                                               *)
(***************************************************************************)
EXTENDS Integers, Sequences, SequencesExt, Subsequences

CONSTANTS
    Latency,        \* VirtSettings::latency
    Jitter,         \* VirtSettings::jitter, the largest
    Deltas,         \* the time between two polls
    Sizes,          \* the sizes of data
    Mtu,            \* MTU_SIZE_PRIVATE
    SigLen,         \* CRC32_SIG_LEN
    MaxSent,        \* bound: calls of send_to
    MaxArrived,     \* bound: datagrams that arrive
    MaxTime         \* bound: the clock of the virtual socket

ASSUME BackendAssumption ==
    /\ Latency \in Nat /\ Jitter \in Nat
    /\ Deltas \subseteq Nat
    /\ Sizes \subseteq 1 .. Mtu
    /\ SigLen \in 1 .. Mtu

VARIABLES
    now,            \* time of the virtual socket
    packets,        \* packets it delays
    wire,           \* the datagrams it gave to the network
    calls,          \* calls of send_to
    reader,         \* "socket" or "listener"
    inbox,          \* what the kernel has for the reader
    receiving,      \* receive_messages is in its loop
    taken,          \* what the reader was given
    arrived         \* history: every datagram that arrived, in order

sending == <<now, packets, wire, calls>>
reading == <<reader, inbox, receiving, taken, arrived>>
vars == <<sending, reading>>

Init ==
    /\ now = 0 /\ packets = <<>> /\ wire = {} /\ calls = 0
    /\ reader \in {"socket", "listener"}
    /\ inbox = <<>> /\ receiving = FALSE /\ taken = <<>> /\ arrived = <<>>

-----------------------------------------------------------------------------
(* Sending *)

\* SocketUDP::send_to: data that leaves no room for its checksum is refused.
\* Both callers ignore the error.
Signs(data) == data.size <= Mtu - SigLen

Signed(data) == [call |-> data.call, crate |-> data.crate, at |-> data.at]

\* Faulty form of Due: what is due exactly now has to wait.
DueLate(ps, time) == {i \in DOMAIN ps : ps[i].at < time}

Due(ps, time) == {i \in DOMAIN ps : ps[i].at <= time}

\* What remove leaves of the packets, when the k last places were looked at.
Left(ps, due) ==
    LET left[k \in 0 .. Len(ps)] ==
            IF k = 0 THEN ps
            ELSE LET i == Len(ps) - k + 1
                 IN  IF i \in due THEN RemoveAt(left[k - 1], i) ELSE left[k - 1]
    IN  left

\* VirtSocketUDP::poll: what is due is removed index by index, from the last,
\* and given to send_to.
Release(ps, time) ==
    /\ LET due  == Due(ps, time)
           left == Left(ps, due)
           out  == {left[Len(ps) - i][i] : i \in due}
       IN  /\ packets' = left[Len(ps)]
           /\ wire' = wire \cup {Signed(data) : data \in {d \in out : Signs(d)}}
    /\ now' = time

\* The latency, more or less a jitter that is at most the setting.
Delays == {Latency + j : j \in 0 .. Jitter}
              \cup {IF j > Latency THEN 0 ELSE Latency - j : j \in 0 .. Jitter}

\* VirtSocketUDP::send_to, from prepare_and_send and from Socket::broadcast:
\* the data is lost, or queued once or twice, each copy with its own delay.
\* To corrupt it is to reverse it before it is signed, so that its checksum
\* is right and decoding finds no crate.
SendTo ==
    /\ calls < MaxSent
    /\ calls' = calls + 1
    /\ \/ UNCHANGED <<now, packets, wire>>
       \/ \E size \in Sizes, crate \in BOOLEAN, times \in 1 .. 2 :
            \E delays \in [1 .. times -> Delays] :
                LET copies == [k \in 1 .. times |->
                        [call |-> calls, size |-> size, crate |-> crate,
                         at |-> now + delays[k]]]
                IN  Release(packets \o copies, now)
    /\ UNCHANGED reading

\* Its poll, at the start of Socket::poll.
VirtPoll ==
    /\ \E dt \in Deltas : now + dt <= MaxTime /\ Release(packets, now + dt)
    /\ UNCHANGED <<calls, reading>>

-----------------------------------------------------------------------------
(* The network *)

\* A datagram as the reader sees it: whether the last bytes are the checksum
\* of the others, and what those would decode to.
Datagram(call, crate, signed) ==
    [call |-> call, crate |-> crate, signed |-> signed]

\* Both are open for a strange one: 32 bits can match by chance.
Strange == {Datagram(MaxSent, crate, signed) : crate, signed \in BOOLEAN}
Genuine == {Datagram(d.call, d.crate, TRUE) : d \in wire}

Arrives ==
    /\ Len(arrived) < MaxArrived
    /\ \E d \in Genuine \cup Strange :
         inbox' = Append(inbox, d) /\ arrived' = Append(arrived, d)
    /\ UNCHANGED <<sending, reader, receiving, taken>>

-----------------------------------------------------------------------------
(* Reading *)

\* CRC32::validate compares the checksum.
Validated(d) == d.signed

\* Faulty forms of AfterRecv: a datagram whose checksum is wrong stays in the
\* kernel's buffer, or takes all others with it.
AfterRecvKeeps(box) ==
    IF box = <<>> \/ ~ Validated(Head(box)) THEN box ELSE Tail(box)

AfterRecvClears(box) ==
    IF box = <<>> \/ ~ Validated(Head(box)) THEN <<>> ELSE Tail(box)

\* SocketUDP::recv_from consumes one datagram, if there is one; it returns
\* None when there is none, and also when the checksum of it is wrong.
AfterRecv(box) == IF box = <<>> THEN box ELSE Tail(box)

RecvIsNone(box) == box = <<>> \/ ~ Validated(Head(box))

\* Socket::poll, and then one iteration of receive_messages: None ends the
\* loop, data that is no valid crate is skipped.
BeginReceive ==
    /\ reader = "socket" /\ ~ receiving
    /\ receiving' = TRUE
    /\ UNCHANGED <<sending, reader, inbox, taken, arrived>>

ReceiveNext ==
    /\ receiving
    /\ inbox' = AfterRecv(inbox)
    /\ receiving' = ~ RecvIsNone(inbox)
    /\ taken' = IF ~ RecvIsNone(inbox) /\ Head(inbox).crate
                THEN Append(taken, Head(inbox)) ELSE taken
    /\ UNCHANGED <<sending, reader, arrived>>

\* BroadcastListener::recv gives out whatever has the right checksum.
ListenerRecv ==
    /\ reader = "listener"
    /\ inbox' = AfterRecv(inbox)
    /\ taken' = IF RecvIsNone(inbox) THEN taken ELSE Append(taken, Head(inbox))
    /\ UNCHANGED <<sending, reader, receiving, arrived>>

-----------------------------------------------------------------------------

Next == SendTo \/ VirtPoll \/ Arrives \/ BeginReceive \/ ReceiveNext \/ ListenerRecv

Spec == Init /\ [][Next]_vars

\* The application polls its socket, or asks its listener, again and again.
FairSpec ==
    /\ Spec
    /\ WF_vars(BeginReceive) /\ WF_vars(ReceiveNext) /\ WF_vars(ListenerRecv)

-----------------------------------------------------------------------------
(* Properties *)

\* The datagrams the reader can use.
Good(d) == d.signed /\ (reader = "socket" => d.crate)

\* A datagram that is no use, or that ends the loop early, takes nothing with
\* it: what arrived and does not wait was read, and of that all that is good
\* was taken, and once each, in the order of arrival.
NoneSkipped ==
    LET read == Len(arrived) - Len(inbox)
    IN  /\ inbox = SubSeq(arrived, read + 1, Len(arrived))
        /\ taken = Subsequence(arrived, {i \in 1 .. read : Good(arrived[i])})

\* Between two calls the virtual socket holds back nothing that is due, and it
\* has let go of nothing before its time, whatever order the delays are in and
\* although the indices it removes shift.
OnTime ==
    /\ \A i \in DOMAIN packets : packets[i].at > now
    /\ \A d \in wire : d.at <= now

\* Datagrams with a wrong checksum end the loop early, but each poll consumes
\* one, so that the good ones behind them are reached by a later poll.
ReadInTheEnd ==
    SelectSeq(inbox, Good) # <<>> ~> SelectSeq(inbox, Good) = <<>>
=============================================================================
