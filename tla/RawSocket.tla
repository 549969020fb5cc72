----------------------------- MODULE RawSocket ------------------------------
(***************************************************************************)
(* Class Socket of src/src/socket.cc once it is bound, together with the   *)
(* part of the kernel's AF_PACKET socket that its calls depend on: the     *)
(* receive backlog and the pending error.  A frame is counted, its bytes   *)
(* are not modelled here.                                                  *)
(***************************************************************************)
EXTENDS Naturals

CONSTANT MaxBacklog     \* frames the kernel keeps for the socket (SO_RCVBUF)

ASSUME BacklogAssumption == MaxBacklog \in Nat \ {0}

VARIABLES
    rx,     \* number of frames waiting in the kernel
    skerr   \* the kernel's pending socket error (e.g. ENETDOWN), reported as EPOLLERR

rawVars == <<rx, skerr>>

RawTypeOK ==
    /\ rx \in 0 .. MaxBacklog
    /\ skerr \in BOOLEAN

RawInit == rx = 0 /\ skerr = FALSE

-----------------------------------------------------------------------------
(* The network.  A frame that finds the backlog full is dropped.           *)

FrameArrives ==
    /\ rx < MaxBacklog
    /\ rx' = rx + 1
    /\ UNCHANGED skerr

LinkFails ==
    /\ ~skerr
    /\ skerr' = TRUE
    /\ UNCHANGED rx

-----------------------------------------------------------------------------
(* receive_message and send_message.  Both system calls report a pending   *)
(* error before they move a frame, and clear it in doing so.               *)

\* recvmsg returns the first frame of the backlog.
ReceiveMessage ==
    /\ ~skerr
    /\ rx > 0
    /\ rx' = rx - 1
    /\ UNCHANGED skerr

\* recvmsg returns -1: the pending error, or EAGAIN on an empty backlog.
ReceiveMessageThrows ==
    /\ skerr \/ rx = 0
    /\ skerr' = FALSE
    /\ UNCHANGED rx

\* sendto takes the whole packet.
SendMessage ==
    /\ ~skerr
    /\ UNCHANGED rawVars

\* sendto returns -1 (ENETDOWN, EMSGSIZE, ... before the pending error is looked at; or
\* that error, ENOBUFS, EAGAIN, ... once it is) or less than the packet; all throw.
SendMessageThrows ==
    /\ skerr' \in {skerr, FALSE}
    /\ UNCHANGED rx
=============================================================================
