----------------------------- MODULE Addressing -----------------------------
(***************************************************************************)
(* Where a packet goes, and what it says.  send (src/socket.js) takes an   *)
(* address as text, array or Buffer and a message in a Buffer, and keeps   *)
(* them in its queue until onSend hands them to send_message; a listener   *)
(* gets the addresses of a frame as text and may send an answer there.     *)
(*                                                                         *)
(* Arrays and Buffers stay the user's, who may write to them at any time.  *)
(* A station has one open socket; the queue, the poller and failures of    *)
(* sendto are the matter of PacketSocket.                                  *)
(***************************************************************************)
EXTENDS Addresses, FiniteSets, Functions

CONSTANTS
    Sockets,
    Arrays, Buffers,    \* the user's objects
    Contents,           \* what is written to them: short sequences of bytes
    Texts,              \* addresses the user writes as text
    HwAddresses,        \* what the interfaces may be set to
    MaxRequests,        \* bound: requests in the queues
    MaxFrames,          \* bound: frames on the link
    Nobody              \* what a request answers that is not an answer

ASSUME AddressingAssumption ==
    /\ Arrays \cap Buffers = {}
    /\ Contents \subseteq Seq(Bytes) /\ Texts \subseteq Seq(Seq(Characters))
    /\ \A text \in Texts : \A n \in DOMAIN text : Len(text[n]) <= MaxDigits
    /\ HwAddresses \subseteq Address
    /\ Nobody \notin Sockets
    /\ MaxRequests \in Nat /\ MaxFrames \in Nat

VARIABLES
    hwaddr,             \* the interface's address
    hardware_address,   \* what the socket's constructor has read of it
    content,            \* what the user's objects hold
    requests,           \* Socket.requests
    link,               \* the frames on their way
    heard,              \* the addresses of the last "message" event, and whose it was
    outcome             \* how the last call of send or onSend ended

vars == <<hwaddr, hardware_address, content, requests, link, heard, outcome>>

Objects == Arrays \cup Buffers

\* What the caller of send gives for the address.
Arguments ==
    [kind : {"buffer"}, object : Buffers] \cup [kind : {"array"}, object : Arrays]
        \cup [kind : {"text"}, text : Texts]

\* A request has its buffer and address, and for the properties what both meant in the call
\* of send, the user's Buffers it refers to, those written to since, and whom it answers.
RequestType ==
    [buffer : Buffers,
     address : [kind : {"own"}, bytes : Seq(Bytes)] \cup [kind : {"users"}, object : Buffers],
     message : Contents, given : Seq(Bytes),
     refers : SUBSET Buffers, written : SUBSET Buffers, to : Sockets \cup {Nobody}]

\* A frame, with what its request knew for the properties.
FrameType ==
    [from : Sockets, source : HwAddresses, destination : Address, payload : Contents,
     message : Contents, given : Seq(Bytes),
     written : SUBSET Buffers, to : Sockets \cup {Nobody}]

AddressingTypeOK ==
    /\ hwaddr \in [Sockets -> HwAddresses]
    /\ hardware_address \in [Sockets -> HwAddresses]
    /\ content \in [Objects -> Contents]
    /\ requests \in [Sockets -> Seq(RequestType)]
    /\ link \subseteq FrameType
    /\ heard \in [Sockets -> [from : Sockets \cup {Nobody}, text : Seq(Seq(Characters))]]
    /\ outcome \in {"done", "threw", "error"}

Init ==
    /\ hwaddr \in [Sockets -> HwAddresses]
    /\ \A s, t \in Sockets : hwaddr[s] = hwaddr[t] => s = t
    /\ hardware_address = hwaddr
    /\ \E c \in Contents : content = [o \in Objects |-> c]
    /\ requests = [s \in Sockets |-> <<>>]
    /\ link = {}
    /\ heard = [s \in Sockets |-> [from |-> Nobody, text |-> <<>>]]
    /\ outcome = "done"

-----------------------------------------------------------------------------
(* Around the program.                                                     *)

\* The interface gets another address; nobody tells the socket.
AddressChanges(s) ==
    /\ \E a \in HwAddresses \ {hwaddr[t] : t \in Sockets} :
         hwaddr' = [hwaddr EXCEPT ![s] = a]
    /\ UNCHANGED <<hardware_address, content, requests, link, heard, outcome>>

\* The user writes to an array or a Buffer, be it in a queued request or not.
UserWrites(o) ==
    /\ \E c \in Contents \ {content[o]} : content' = [content EXCEPT ![o] = c]
    /\ requests' = [s \in Sockets |-> [n \in DOMAIN requests[s] |->
                     [requests[s][n] EXCEPT !.written = @ \cup (requests[s][n].refers \cap {o})]]]
    /\ UNCHANGED <<hwaddr, hardware_address, link, heard, outcome>>

-----------------------------------------------------------------------------
(* Socket.prototype.send.                                                  *)

\* Faulty variant: an array is kept, as a Buffer is, until onSend needs it.
AddressToBufferLater(arg) ==
    IF arg.kind = "text" THEN [kind |-> "own", bytes |-> ParseText(arg.text)]
    ELSE [kind |-> "users", object |-> arg.object]

\* A Buffer is taken as it is, an array copied, a text parsed.
AddressToBuffer(arg) ==
    CASE arg.kind = "buffer" -> [kind |-> "users", object |-> arg.object]
      [] arg.kind = "array" -> [kind |-> "own", bytes |-> NewBuffer(content[arg.object])]
      [] arg.kind = "text" -> [kind |-> "own", bytes |-> ParseText(arg.text)]

Throws(arg) == arg.kind = "text" /\ ~HasColon(arg.text)

\* The bytes an address has now.
Now(address) == IF address.kind = "own" THEN address.bytes ELSE content[address.object]

\* The requests in all queues.
Pending == FoldFunction(LAMBDA queue, n : Len(queue) + n, 0, requests)

Enqueue(s, b, arg, to) ==
    /\ Pending < MaxRequests
    /\ LET address == AddressToBuffer(arg)
       IN  requests' = [requests EXCEPT ![s] = Append(@,
               [buffer |-> b, address |-> address, message |-> content[b], given |-> Now(address),
                refers |-> {b} \cup (IF arg.kind = "buffer" THEN {arg.object} ELSE {}),
                written |-> {}, to |-> to])]
    /\ outcome' = "done"
    /\ UNCHANGED <<hwaddr, hardware_address, content, link, heard>>

Send(s, b, arg) == ~Throws(arg) /\ Enqueue(s, b, arg, Nobody)

\* The exception leaves send before the request is made.
SendThrows(arg) ==
    /\ Throws(arg)
    /\ outcome' = "threw"
    /\ UNCHANGED <<hwaddr, hardware_address, content, requests, link, heard>>

\* A message is answered, with the source address as the event gave it.
Answer(s, b) ==
    /\ heard[s].from # Nobody
    /\ Enqueue(s, b, [kind |-> "text", text |-> heard[s].text], heard[s].from)

-----------------------------------------------------------------------------
(* onSend, Wrapper::Send and send_message.                                 *)

Shift(s) == requests' = [requests EXCEPT ![s] = Tail(@)]

\* The frame of a request: its payload and destination are what the Buffers hold now.
FrameOf(s, req) ==
    [from |-> s, source |-> hardware_address[s], destination |-> Now(req.address),
     payload |-> content[req.buffer], message |-> req.message, given |-> req.given,
     written |-> req.written, to |-> req.to]

\* Faulty variant: the length of the address is not looked at.
OnSendUnchecked(s) ==
    /\ requests[s] # <<>> /\ Cardinality(link) < MaxFrames
    /\ link' = link \cup {FrameOf(s, Head(requests[s]))}
    /\ Shift(s)
    /\ outcome' = "done"
    /\ UNCHANGED <<hwaddr, hardware_address, content, heard>>

OnSend(s) ==
    /\ requests[s] # <<>> /\ Cardinality(link) < MaxFrames
    /\ LET req == Head(requests[s])
       IN  /\ Len(Now(req.address)) = ADDRESS_LENGTH
           /\ link' = link \cup {FrameOf(s, req)}
    /\ Shift(s)
    /\ outcome' = "done"
    /\ UNCHANGED <<hwaddr, hardware_address, content, heard>>

\* "Address argument invalid length": the request is dropped, its callback gets the error.
OnSendRefused(s) ==
    /\ requests[s] # <<>>
    /\ Len(Now(Head(requests[s]).address)) # ADDRESS_LENGTH
    /\ Shift(s)
    /\ outcome' = "error"
    /\ UNCHANGED <<hwaddr, hardware_address, content, link, heard>>

-----------------------------------------------------------------------------
(* The link, and onRecv with receive_message.                              *)

\* The device of s takes the frames for its address; the listeners of s get their source.
OnRecv(s, f) ==
    /\ f.from # s /\ f.destination = hwaddr[s]
    /\ heard' = [heard EXCEPT ![s] = [from |-> f.from, text |-> FormatAddress(f.source)]]
    /\ link' = link \ {f}
    /\ UNCHANGED <<hwaddr, hardware_address, content, requests, outcome>>

Lost(f) ==
    /\ link' = link \ {f}
    /\ UNCHANGED <<hwaddr, hardware_address, content, requests, heard, outcome>>

Next ==
    \/ \E o \in Objects : UserWrites(o)
    \/ \E f \in link : Lost(f)
    \/ \E arg \in Arguments : SendThrows(arg)
    \/ \E s \in Sockets :
         \/ AddressChanges(s) \/ OnSend(s) \/ OnSendRefused(s)
         \/ \E f \in link : OnRecv(s, f)
         \/ \E b \in Buffers : Answer(s, b) \/ \E arg \in Arguments : Send(s, b, arg)

Spec == Init /\ [][Next]_vars

-----------------------------------------------------------------------------
(* Properties.                                                             *)

\* A request goes out with the address and the message it was given in the call of send, if
\* the user has left alone the Buffers he passed; what he does to an array, before or after,
\* has no effect.  An address that is not six bytes is never sent to, not even in part
\* (socket.js lines 7, 8, 38 and 86 to 92, wrapper.cc lines 269 to 273, socket.cc lines 70 to 79).
SentAsGiven ==
    \A f \in link : f.written = {} => f.destination = f.given /\ f.payload = f.message

\* An answer, sent to the source address as the "message" event shows it, goes to the station
\* of the message's sender, under the address its socket was opened with: formatting and
\* parsing lose nothing on the way (socket.js lines 10 to 13 and 25, socket.cc line 118).
AnswersReturn ==
    \A f \in link : f.to # Nobody => f.destination = hardware_address[f.to]

\* As long as the interfaces keep the addresses they had in openSocket, a message is heard
\* under the current address of who sent it, so that two senders are never taken for one
\* (socket.js line 25, socket.cc lines 33 to 35, 72 and 118).
SendersToldApart ==
    hwaddr = hardware_address =>
        \A s \in Sockets : heard[s].from # Nobody =>
            \A t \in Sockets :
                ParseText(heard[s].text) = hwaddr[t] <=> t = heard[s].from

\* A queued request refers to the Buffers it says, still means what it meant if they are as
\* they were, and has the address of whom it answers.
RequestOK(req) ==
    /\ req.buffer \in req.refers
    /\ req.address.kind = "users" => req.address.object \in req.refers
    /\ req.written = {} => Now(req.address) = req.given /\ content[req.buffer] = req.message
    /\ req.to # Nobody => req.address = [kind |-> "own", bytes |-> hardware_address[req.to]]

\* No two interfaces have the same address.
DistinctAddresses == \A s, t \in Sockets : hwaddr[s] = hwaddr[t] => s = t

QueuesOK == \A s \in Sockets : \A n \in DOMAIN requests[s] : RequestOK(requests[s][n])

\* A frame has its sender's address, and a listener has seen it.
SourcesOK == \A f \in link : f.source = hardware_address[f.from]

HeardOK ==
    \A s \in Sockets :
        heard[s].from # Nobody => heard[s].text = FormatAddress(hardware_address[heard[s].from])

\* The inductive invariant.
AddressingInv ==
    /\ AddressingTypeOK
    /\ DistinctAddresses /\ QueuesOK /\ SourcesOK /\ HeardOK
    /\ SentAsGiven /\ AnswersReturn
=============================================================================
