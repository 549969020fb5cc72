------------------------------- MODULE Frames -------------------------------
(***************************************************************************)
(* Frames: what send_message (src/src/socket.cc) puts on a link, what the  *)
(* link and the kernels make of it, and what receive_message hands to the  *)
(* listeners of the sockets on both sides, in bytes.                       *)
(*                                                                         *)
(* The device is an Ethernet between two stations, or the loopback of the  *)
(* near one.  A frame that leaves a station is shown to the other          *)
(* AF_PACKET sockets of that device too, with PACKET_OUTGOING as its       *)
(* sll_pkttype; bind asked for ETH_P_ALL and receive_message does not look *)
(* at that field.  Frames may be lost on the way, or dropped by the kernel *)
(* for a socket whose backlog is full.                                     *)
(***************************************************************************)
EXTENDS Integers, Sequences, FiniteSets

CONSTANTS
    Near, Far,      \* the sockets of the two stations
    EthernetMtu, LoopbackMtu,   \* what each device takes, without the header
    Lengths,        \* lengths of messages that are tried
    MaxSends        \* bound: messages sent

ASSUME FramesAssumption ==
    /\ Near \cap Far = {}
    /\ EthernetMtu \in Nat /\ LoopbackMtu \in Nat /\ MaxSends \in Nat
    /\ Lengths \subseteq Nat

VARIABLES
    device,     \* what the sockets are opened on
    sent,       \* the messages sendto took, in order
    wire,       \* per station, the frames on their way to it
    rxq,        \* per socket, the frames the kernel has queued
    got         \* per socket, the "message" events

vars == <<device, sent, wire, rxq, got>>

Sockets == Near \cup Far

Header == 14                        \* sizeof(struct ether_header)
MAX_RECEIVE_BUFFER_SIZE == 2048
MinFrame == 60                      \* what an Ethernet device pads to

Larger(a, b) == IF a < b THEN b ELSE a
Smaller(a, b) == IF a < b THEN a ELSE b

\* sll_pkttype: for this host, or captured on its way out.
PacketTypes == {"host", "outgoing"}

\* A frame: which message it carries, its bytes, how it was captured.
FrameType == [id : Nat, bytes : Nat, pkttype : PacketTypes]

\* A "message" event, with what the properties ask of it.
EventType == [id : Nat, length : 0 .. MAX_RECEIVE_BUFFER_SIZE, pkttype : PacketTypes]

FramesTypeOK ==
    /\ device \in {"ethernet", "lo"}
    /\ sent \in Seq([from : Sockets, length : Lengths])
    /\ wire \in [{"near", "far"} -> Seq(FrameType)]
    /\ rxq \in [Sockets -> Seq(FrameType)]
    /\ got \in [Sockets -> Seq(EventType)]

Init ==
    /\ device \in {"ethernet", "lo"}
    /\ sent = <<>>
    /\ wire = [d \in {"near", "far"} |-> <<>>]
    /\ rxq = [s \in Sockets |-> <<>>]
    /\ got = [s \in Sockets |-> <<>>]

-----------------------------------------------------------------------------
(* Sending.                                                                *)

Station(s) == IF s \in Near THEN Near ELSE Far
Destination(s) == IF s \in Far \/ device = "lo" THEN "near" ELSE "far"

\* The frame of send_message: header and message in one buffer.  Its ether_type field, the
\* length's low 16 bits, is read by no part of the program and left out.
FrameOf(length) ==
    [id |-> Len(sent) + 1, bytes |-> Header + length, pkttype |-> "outgoing"]

\* The device pads what it transmits; the loopback device hands it on as it is.
OnTheWire(f) ==
    [f EXCEPT !.bytes = IF device = "lo" THEN @ ELSE Larger(@, MinFrame), !.pkttype = "host"]

Queued(set, f) ==
    [s \in Sockets |-> IF s \in set THEN Append(rxq[s], f) ELSE rxq[s]]

\* The kernel queues a frame for these sockets, but for those whose backlog (SO_RCVBUF) is
\* full, which an empty one is not.
Enqueue(set, f) ==
    \E full \in SUBSET {s \in set : rxq[s] # <<>>} : rxq' = Queued(set \ full, f)

\* send_message: sendto takes what the device takes.
SendMessage(s, length) ==
    /\ Len(sent) < MaxSends
    /\ IF device = "lo" THEN s \in Near /\ length <= LoopbackMtu ELSE length <= EthernetMtu
    /\ sent' = Append(sent, [from |-> s, length |-> length])
    /\ Enqueue(Station(s) \ {s}, FrameOf(length))
    /\ wire' = [wire EXCEPT ![Destination(s)] = Append(@, OnTheWire(FrameOf(length)))]
    /\ UNCHANGED <<device, got>>

-----------------------------------------------------------------------------
(* The link.                                                               *)

SocketsAt(d) == IF d = "near" THEN Near ELSE Far

Arrives(d) ==
    /\ wire[d] # <<>>
    /\ Enqueue(SocketsAt(d), Head(wire[d]))
    /\ wire' = [wire EXCEPT ![d] = Tail(@)]
    /\ UNCHANGED <<device, sent, got>>

Lost(d) ==
    /\ wire[d] # <<>>
    /\ wire' = [wire EXCEPT ![d] = Tail(@)]
    /\ UNCHANGED <<device, sent, rxq, got>>

-----------------------------------------------------------------------------
(* Receiving.                                                              *)

\* Faulty variant: the header is counted into the message.
ReceivedWithHeader(f) == Smaller(f.bytes, Header + MAX_RECEIVE_BUFFER_SIZE)

\* Faulty variant: the header is read into the message's buffer as well.
ReceivedFromBuffer(f) == Smaller(f.bytes, MAX_RECEIVE_BUFFER_SIZE) - Header

\* recvmsg fills the header and a buffer of MAX_RECEIVE_BUFFER_SIZE; the rest is cut off.
\* What is left without the header is the message's length.
Received(f) == Smaller(f.bytes, Header + MAX_RECEIVE_BUFFER_SIZE) - Header

EventOf(f) == [id |-> f.id, length |-> Received(f), pkttype |-> f.pkttype]

\* Faulty variant: the frame stays in the socket's queue (MSG_PEEK).
ReceivePeek(s) ==
    /\ rxq[s] # <<>>
    /\ Len(got[s]) < MaxSends + 1
    /\ got' = [got EXCEPT ![s] = Append(@, EventOf(Head(rxq[s])))]
    /\ UNCHANGED <<device, sent, wire, rxq>>

\* onRecv, Wrapper::Receive, receive_message: one frame, one "message" event.
ReceiveMessage(s) ==
    /\ rxq[s] # <<>>
    /\ got' = [got EXCEPT ![s] = Append(@, EventOf(Head(rxq[s])))]
    /\ rxq' = [rxq EXCEPT ![s] = Tail(@)]
    /\ UNCHANGED <<device, sent, wire>>

Next ==
    \/ \E s \in Sockets :
         \/ \E length \in Lengths : SendMessage(s, length)
         \/ ReceiveMessage(s)
    \/ \E d \in {"near", "far"} : Arrives(d) \/ Lost(d)

Spec == Init /\ [][Next]_vars

-----------------------------------------------------------------------------
(* Properties.                                                             *)

Messages(s) == {got[s][n] : n \in DOMAIN got[s]}
Original(m) == sent[m.id]

\* A message from 46 bytes, with which no frame is padded, to 2048, which the buffer holds,
\* arrives with its length, on every way a frame can take to a socket (socket.cc lines 70
\* and 121, wrapper.hh line 10).
WholeMessage ==
    \A s \in Sockets : \A m \in Messages(s) :
        Original(m).length \in 46 .. MAX_RECEIVE_BUFFER_SIZE =>
            m.length = Original(m).length

\* A message that arrives shorter than it was sent has filled the memory Receive gave to
\* it: nothing else is ever cut (wrapper.cc lines 226 to 230, socket.cc lines 102 to 105).
CutAtBufferOnly ==
    \A s \in Sockets : \A m \in Messages(s) :
        m.length < Original(m).length => m.length = MAX_RECEIVE_BUFFER_SIZE

\* A socket hears what another socket sent in order and once for each way the kernel shows
\* it a frame: on an Ethernet there is one, for lo two, leaving and coming back.  Its own
\* messages a socket hears on lo only, coming back (socket.cc lines 37 to 43 and 113).
OnceInOrder ==
    \A s \in Sockets :
        /\ \A m \in Messages(s) : Original(m).from = s => device = "lo" /\ m.pkttype = "host"
        /\ \A i, j \in DOMAIN got[s] :
             /\ i < j /\ Original(got[s][i]).from = Original(got[s][j]).from
             /\ device = "ethernet" \/ got[s][i].pkttype = got[s][j].pkttype
             => got[s][i].id < got[s][j].id

\* A frame that carries message id has these bytes, as it was sent or as it arrives.
BytesSeen(id, pkttype) ==
    IF pkttype = "outgoing" \/ device = "lo" THEN Header + sent[id].length
    ELSE Larger(Header + sent[id].length, MinFrame)

FrameOK(f) ==
    /\ f.id \in DOMAIN sent
    /\ f.bytes = BytesSeen(f.id, f.pkttype)

EventOK(m) ==
    /\ m.id \in DOMAIN sent
    /\ m.length = Smaller(BytesSeen(m.id, m.pkttype), Header + MAX_RECEIVE_BUFFER_SIZE) - Header

\* A socket is shown what others of its station send as outgoing, and else, over an
\* Ethernet, what the other station sends; lo is the near station's.
ShownTo(s, x) ==
    IF x.pkttype = "outgoing" THEN sent[x.id].from \in Station(s) \ {s}
    ELSE IF device = "lo" THEN s \in Near
    ELSE sent[x.id].from \notin Station(s)

\* What comes earlier was sent earlier.
InOrder(q) ==
    \A i, j \in DOMAIN q : i < j /\ q[i].pkttype = q[j].pkttype => q[i].id < q[j].id

Before(p, q) ==
    \A i \in DOMAIN p : \A j \in DOMAIN q : p[i].pkttype = q[j].pkttype => p[i].id < q[j].id

WireOK(d) ==
    /\ InOrder(wire[d])
    /\ \A n \in DOMAIN wire[d] :
         /\ wire[d][n].pkttype = "host" /\ FrameOK(wire[d][n])
         /\ \A s \in SocketsAt(d) : ShownTo(s, wire[d][n])
    /\ \A s \in SocketsAt(d) : Before(rxq[s], wire[d]) /\ Before(got[s], wire[d])

SocketOK(s) ==
    /\ InOrder(rxq[s]) /\ InOrder(got[s]) /\ Before(got[s], rxq[s])
    /\ \A n \in DOMAIN rxq[s] : FrameOK(rxq[s][n]) /\ ShownTo(s, rxq[s][n])
    /\ \A n \in DOMAIN got[s] : EventOK(got[s][n]) /\ ShownTo(s, got[s][n])

\* The inductive invariant: what each frame carries, and that the ways to a socket keep the
\* order of sending.
FramesInv ==
    /\ FramesTypeOK
    /\ \A d \in {"near", "far"} : WireOK(d)
    /\ \A s \in Sockets : SocketOK(s)

\* A frame in a socket's queue will be read as one event: the listeners' stream of events
\* is what they have had and what the queue holds.
EventsOf(q) == [n \in DOMAIN q |-> EventOf(q[n])]

Stream == [s \in Sockets |-> got[s] \o EventsOf(rxq[s])]
Heard == [s \in Sockets |-> Len(got[s])]

Service == INSTANCE FrameService WITH stream <- Stream, heard <- Heard

\* What listeners hear is what FrameService promises: nothing twice, nothing in the wrong
\* order, nothing made up on the way, every message as long as the device and the buffer
\* leave it (socket.cc lines 60 to 122).
ImplementsFrameService == Service!Spec
=============================================================================
