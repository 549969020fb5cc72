------------------------------ MODULE Wrapper -------------------------------
(***************************************************************************)
(* The methods of the native class Wrapper (src/src/wrapper.cc) that the   *)
(* event path uses: Receive, Send, PauseSending, ResumeSending and Close.  *)
(* Wrapper has no state of its own beyond its two pointers: `socket',      *)
(* which lives as long as the object, and `poller' (variable alive).       *)
(*                                                                         *)
(* A method that ends in Nan::ThrowError is the ...Throws action, one that *)
(* reaches its Nan::MakeCallback is the ...CallsBack action; the callback  *)
(* itself is JavaScript, in module PacketSocket.                           *)
(***************************************************************************)
EXTENDS Poller, RawSocket

ReceiveCallsBack == ReceiveMessage

\* A malloc fails before the frame is read; receive_message throws; or a node buffer
\* cannot be made once the frame has been read, and the frame is lost.
ReceiveThrows ==
    \/ UNCHANGED rawVars
    \/ ReceiveMessageThrows
    \/ ReceiveMessage

SendCallsBack == SendMessage

\* An argument check fails before send_message, or send_message throws.
SendThrows ==
    \/ UNCHANGED rawVars
    \/ SendMessageThrows

PauseSending == SetEvents(READ_EVENT)

ResumeSending == SetEvents(RW_EVENT)

\* delete obj->poller; obj->poller = new NullPoller.  The second and later calls
\* replace one NullPoller by another.
WrapperClose == IF alive THEN DeletePoller ELSE UNCHANGED pollerVars
=============================================================================
