----------------------------- MODULE SocketOpen -----------------------------
(***************************************************************************)
(* Descriptors: how class Socket of src/src/socket.cc opens its AF_PACKET  *)
(* descriptor call by call, what the kernel queues for it meanwhile, what  *)
(* the event loop delivers afterwards, and what becomes of the descriptor. *)
(*                                                                         *)
(* One JavaScript thread constructs, reads and closes sockets; the kernel  *)
(* and the other threads of the process (libuv's pool opens and closes     *)
(* files) run between any two system calls.                                *)
(*                                                                         *)
(* ~Socket, the only other place that closes a descriptor, is not here: it *)
(* runs from ~Wrapper alone, and the Wrapper of a socket is never          *)
(* destroyed (theorem HoldersNeverDestroyed of WrapperLifetimeProofs).     *)
(***************************************************************************)
EXTENDS Naturals, Sequences, FiniteSets

CONSTANTS
    Sockets,        \* the calls of openSocket, all for the same device
    Fds,            \* the descriptors the process may have (RLIMIT_NOFILE)
    Interfaces,     \* the network interfaces of the machine
    Device,         \* the one the sockets are opened on
    MaxBacklog,     \* frames the kernel keeps for one socket
    NoFd, Free, Other   \* no descriptor; a free one; one that another thread opened

ASSUME DescriptorAssumption ==
    /\ NoFd \notin Fds
    /\ Free \notin Sockets /\ Other \notin Sockets /\ Free # Other
    /\ Device \in Interfaces
    /\ MaxBacklog \in Nat

VARIABLES
    step,       \* how far each socket has come
    fd,         \* Socket::socket_descriptor
    table,      \* the descriptor table of the process: whose each descriptor is
    hook,       \* per socket, the interfaces whose frames the kernel queues for it
    queue       \* per socket, the interfaces its waiting frames came in by

vars == <<step, fd, table, hook, queue>>

\* Socket::Socket after each of its calls; then the socket is open, until a poll error has
\* stopped its handle or close was called
Constructing == {"created", "nonblocking", "indexed", "addressed"}
Bound == {"open", "stopped", "closed"}

TypeOK ==
    /\ step \in [Sockets -> Constructing \cup Bound \cup {"none", "failed"}]
    /\ fd \in [Sockets -> Fds \cup {NoFd}]
    /\ table \in [Fds -> Sockets \cup {Free, Other}]
    /\ hook \in [Sockets -> SUBSET Interfaces]
    /\ queue \in [Sockets -> Seq(Interfaces)]

Init ==
    /\ step = [s \in Sockets |-> "none"]
    /\ fd = [s \in Sockets |-> NoFd]
    /\ table = [f \in Fds |-> Free]
    /\ hook = [s \in Sockets |-> {}]
    /\ queue = [s \in Sockets |-> <<>>]

-----------------------------------------------------------------------------
(* The constructor.                                                        *)

\* No constructor is under way: JavaScript and the event loop may run.
Idle == \A s \in Sockets : step[s] \notin Constructing

\* Faulty variant: the descriptor stays in a local variable of the constructor.
CreateSocketLocal(s) ==
    /\ Idle
    /\ step[s] = "none"
    /\ \E f \in Fds : table[f] = Free /\ table' = [table EXCEPT ![f] = s]
    /\ step' = [step EXCEPT ![s] = "created"]
    /\ hook' = [hook EXCEPT ![s] = Interfaces]
    /\ UNCHANGED <<fd, queue>>

\* socket(AF_PACKET, SOCK_RAW, ETH_P_ALL): at once hooked to every interface.
CreateSocket(s) ==
    /\ Idle
    /\ step[s] = "none"
    /\ \E f \in Fds :
         /\ table[f] = Free
         /\ table' = [table EXCEPT ![f] = s]
         /\ fd' = [fd EXCEPT ![s] = f]
    /\ step' = [step EXCEPT ![s] = "created"]
    /\ hook' = [hook EXCEPT ![s] = Interfaces]
    /\ UNCHANGED queue

\* socket() fails (EPERM, EMFILE); this throw is outside the try block.
CreateSocketFails(s) ==
    /\ Idle
    /\ step[s] = "none"
    /\ step' = [step EXCEPT ![s] = "failed"]
    /\ UNCHANGED <<fd, table, hook, queue>>

\* The two fcntl calls, SIOCGIFINDEX, SIOCGIFHWADDR.
Following ==
    [created |-> "nonblocking", nonblocking |-> "indexed", indexed |-> "addressed"]

Proceed(s) ==
    /\ step[s] \in DOMAIN Following
    /\ step' = [step EXCEPT ![s] = Following[step[s]]]
    /\ UNCHANGED <<fd, table, hook, queue>>

\* Faulty variant: the socket is used without having been bound.
BindSkipped(s) ==
    /\ step[s] = "addressed"
    /\ step' = [step EXCEPT ![s] = "open"]
    /\ UNCHANGED <<fd, table, hook, queue>>

\* bind() moves the hook to the device.  What is already queued stays queued.
BindSocket(s) ==
    /\ step[s] = "addressed"
    /\ step' = [step EXCEPT ![s] = "open"]
    /\ hook' = [hook EXCEPT ![s] = {Device}]
    /\ UNCHANGED <<fd, table, queue>>

\* Faulty variant: the exception leaves the constructor without the catch block.
ConstructorFailsOpen(s) ==
    /\ step[s] \in Constructing
    /\ step' = [step EXCEPT ![s] = "failed"]
    /\ UNCHANGED <<fd, table, hook, queue>>

\* A call fails and throws; catch(...) closes the descriptor and rethrows.
ConstructorFails(s) ==
    /\ step[s] \in Constructing
    /\ step' = [step EXCEPT ![s] = "failed"]
    /\ table' = [table EXCEPT ![fd[s]] = Free]
    /\ hook' = [hook EXCEPT ![s] = {}]
    /\ queue' = [queue EXCEPT ![s] = <<>>]
    /\ UNCHANGED fd

-----------------------------------------------------------------------------
(* The open socket.                                                        *)

\* Faulty variant: the frame is left in the backlog (MSG_PEEK).
DeliverPeek(s) ==
    /\ Idle
    /\ step[s] = "open"
    /\ queue[s] # <<>>
    /\ UNCHANGED <<step, fd, table, hook, queue>>

\* io_event, onRecv, Wrapper::Receive: one frame becomes one "message" event.  A read that
\* fails leaves the frame where it is, or loses it, which shows the same here.
Deliver(s) ==
    /\ Idle
    /\ step[s] = "open"
    /\ queue[s] # <<>>
    /\ queue' = [queue EXCEPT ![s] = Tail(@)]
    /\ UNCHANGED <<step, fd, table, hook>>

\* io_event with a status: libuv has stopped the handle, and the error stays where it is, so
\* that the socket is not read again (theorem ErrorIsFinal of PacketSocketProofs).
PollError(s) ==
    /\ Idle
    /\ step[s] = "open"
    /\ step' = [step EXCEPT ![s] = "stopped"]
    /\ UNCHANGED <<fd, table, hook, queue>>

\* Faulty variant: close also closes the descriptor, which the object goes on using.
CloseAndForget(s) ==
    /\ Idle
    /\ step[s] = "open"
    /\ step' = [step EXCEPT ![s] = "closed"]
    /\ table' = [table EXCEPT ![fd[s]] = Free]
    /\ UNCHANGED <<fd, hook, queue>>

\* Socket.prototype.close: the poller goes, the Socket object and its descriptor stay.
Close(s) ==
    /\ Idle
    /\ step[s] \in {"open", "stopped"}
    /\ step' = [step EXCEPT ![s] = "closed"]
    /\ UNCHANGED <<fd, table, hook, queue>>

-----------------------------------------------------------------------------
(* The kernel and the other threads.                                       *)

\* A frame comes in by interface i; a full backlog drops it.
FrameArrives(i) ==
    /\ queue' = [s \in Sockets |->
                   IF i \in hook[s] /\ Len(queue[s]) < MaxBacklog
                   THEN Append(queue[s], i)
                   ELSE queue[s]]
    /\ UNCHANGED <<step, fd, table, hook>>

OtherThreadOpens(f) ==
    /\ table[f] = Free
    /\ table' = [table EXCEPT ![f] = Other]
    /\ UNCHANGED <<step, fd, hook, queue>>

OtherThreadCloses(f) ==
    /\ table[f] = Other
    /\ table' = [table EXCEPT ![f] = Free]
    /\ UNCHANGED <<step, fd, hook, queue>>

-----------------------------------------------------------------------------
Next ==
    \/ \E s \in Sockets :
         \/ CreateSocket(s) \/ CreateSocketFails(s)
         \/ Proceed(s) \/ BindSocket(s) \/ ConstructorFails(s)
         \/ Deliver(s) \/ PollError(s) \/ Close(s)
    \/ \E i \in Interfaces : FrameArrives(i)
    \/ \E f \in Fds : OtherThreadOpens(f) \/ OtherThreadCloses(f)

Spec == Init /\ [][Next]_vars

\* While the process lives the constructor runs to its end, and the event loop reads what is
\* queued as long as it polls the socket: the backlog makes the handle readable in every
\* iteration, and memory is not short for ever.  Nothing is assumed of users, of poll errors,
\* of the network or of other threads.
Fairness ==
    \A s \in Sockets :
        /\ WF_vars(Proceed(s))
        /\ WF_vars(BindSocket(s))
        /\ WF_vars(Deliver(s))

FairSpec == Spec /\ Fairness

-----------------------------------------------------------------------------
(* Properties.                                                             *)

Held(s) == step[s] \in Constructing \cup Bound

\* A socket's number always names its own kernel socket, whatever other threads open and
\* close: neither the constructor's catch nor close lets go of a descriptor that the
\* object may still use (socket.cc lines 45 to 48, wrapper.cc Close).
OwnDescriptor == \A s \in Sockets : Held(s) => fd[s] \in Fds /\ table[fd[s]] = s

\* No descriptor is left behind: one that belongs to a socket is the one its object
\* remembers, and a constructor that failed after any call holds none (socket.cc 17 to 48).
NoOrphan == \A s \in Sockets, f \in Fds : table[f] = s => Held(s) /\ fd[s] = f

\* The inductive invariant: a socket and its descriptor know each other.
DescriptorInv == TypeOK /\ OwnDescriptor /\ NoOrphan

StrangersIn(q) == {n \in 1 .. Len(q) : q[n] # Device}
Strangers(s) == StrangersIn(queue[s])

\* Frames of other interfaces are those from before bind only: from then on they can but
\* become fewer (socket.cc line 42).
NoNewStrangers ==
    [][\A s \in Sockets :
          step[s] \in Bound => Cardinality(Strangers(s)') <= Cardinality(Strangers(s))]_vars

\* The frames of other interfaces do not stay in the way: a socket that stays open, neither
\* stopped by a poll error nor closed, is through with them after finitely many reads
\* (socket.cc bind, Wrapper::Receive, poller.cc io_event).
StrangersPass ==
    \A s \in Sockets : step[s] = "open" ~> (Strangers(s) = {} \/ step[s] # "open")
=============================================================================
