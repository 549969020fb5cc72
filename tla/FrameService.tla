---------------------------- MODULE FrameService ----------------------------
(***************************************************************************)
(* What the sockets of two stations promise their listeners, with no       *)
(* frames, links, buffers or queues: every socket has a stream of events,  *)
(* which only grows and of which its listeners have heard a first part.    *)
(* A message is promised to the others of the sender's own station as it   *)
(* is sent and afterwards, at one time and never behind a later one, to    *)
(* the sockets it is for.  Any of them may miss it.                        *)
(***************************************************************************)
EXTENDS Naturals, Sequences

CONSTANTS Near, Far, Lengths

VARIABLES
    device,     \* what the sockets are opened on
    sent,       \* the messages, in order
    stream,     \* per socket, the events promised to its listeners
    heard       \* per socket, how many of them the listeners have had

vars == <<device, sent, stream, heard>>

Sockets == Near \cup Far

Init ==
    /\ device \in {"ethernet", "lo"}
    /\ sent = <<>>
    /\ stream = [s \in Sockets |-> <<>>]
    /\ heard = [s \in Sockets |-> 0]

Shortest == 46      \* of a message that an Ethernet carries: it pads others
Longest == 2048     \* of a message that is passed on whole

Padded(length, pkttype) ==
    IF pkttype = "host" /\ device = "ethernet" /\ length < Shortest THEN Shortest ELSE length

Event(id, length, pkttype) ==
    LET padded == Padded(length, pkttype)
    IN  [id |-> id, length |-> IF padded < Longest THEN padded ELSE Longest, pkttype |-> pkttype]

Promise(to, event) ==
    \E some \in SUBSET to :
        stream' = [s \in Sockets |-> IF s \in some THEN Append(stream[s], event) ELSE stream[s]]

Beside(s) == (IF s \in Near THEN Near ELSE Far) \ {s}
Opposite(s) == IF s \in Far \/ device = "lo" THEN Near ELSE Far

Send(s, length) ==
    /\ device = "lo" => s \in Near
    /\ sent' = Append(sent, [from |-> s, length |-> length])
    /\ Promise(Beside(s), Event(Len(sent) + 1, length, "outgoing"))
    /\ UNCHANGED <<device, heard>>

\* Message id gets through, after those sent before it or instead of them.
Carry(id) ==
    /\ \A s \in Opposite(sent[id].from) : \A n \in DOMAIN stream[s] :
         stream[s][n].pkttype = "host" => stream[s][n].id < id
    /\ Promise(Opposite(sent[id].from), Event(id, sent[id].length, "host"))
    /\ UNCHANGED <<device, sent, heard>>

Hear(s) ==
    /\ heard[s] < Len(stream[s])
    /\ heard' = [heard EXCEPT ![s] = @ + 1]
    /\ UNCHANGED <<device, sent, stream>>

Next ==
    \/ \E s \in Sockets :
         \/ \E length \in Lengths : Send(s, length)
         \/ Hear(s)
    \/ \E id \in DOMAIN sent : Carry(id)

Spec == Init /\ [][Next]_vars
=============================================================================
