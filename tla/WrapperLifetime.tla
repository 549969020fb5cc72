--------------------------- MODULE WrapperLifetime ---------------------------
(***************************************************************************)
(* Lifetime: what the native Wrapper of src/src/wrapper.cc, its three      *)
(* persistent handles, its Socket and its UvPoller hold of each other from *)
(* the constructor to the destructor, for several Wrappers on one loop.    *)
(*                                                                         *)
(* A Wrapper is a weakly held ObjectWrap: the collector may delete it, in  *)
(* any allocation and so in the middle of its own io_event too, once no    *)
(* reference leads to it.  A persistent handle is a root; it leads to the  *)
(* Wrapper when the function it holds does, as those of socket.js do       *)
(* (me.wrap).  Functions given to a Wrapper directly need not.             *)
(***************************************************************************)
EXTENDS Naturals

CONSTANTS
    Wrappers,
    Holding,        \* those whose three functions refer to their Wrapper
    Fds,            \* the descriptors the process may have
    NoFd, Free, Other,  \* no descriptor; a free one; one another thread opened
    Nobody

ASSUME LifetimeAssumption ==
    /\ Holding \subseteq Wrappers
    /\ NoFd \notin Fds
    /\ Free \notin Wrappers /\ Other \notin Wrappers /\ Free # Other
    /\ Nobody \notin Wrappers

VARIABLES
    constructor,    \* Wrapper::constructor, JavaScript's class Wrapper: "empty" until loaded
    phase,      \* of the C++ object: "dying" is inside its destructor
    pinned,     \* the Wrappers whose three persistent handles are set
    named,      \* those that user code refers to
    poller,     \* what Wrapper::poller points to
    handle,     \* the uv_poll_t
    fd,         \* Socket::socket_descriptor
    table,      \* the descriptor table: whose each descriptor is
    running     \* the Wrapper whose io_event is on the stack

vars == <<constructor, phase, pinned, named, poller, handle, fd, table, running>>

LifetimeTypeOK ==
    /\ constructor \in {"empty", "set"}
    /\ phase \in [Wrappers -> {"none", "rejected", "halfbuilt", "alive", "dying", "dead"}]
    /\ pinned \subseteq Wrappers
    /\ named \subseteq Wrappers
    /\ poller \in [Wrappers -> {"none", "uv", "null"}]
    /\ handle \in [Wrappers -> {"none", "polling", "closing", "freed"}]
    /\ fd \in [Wrappers -> Fds \cup {NoFd}]
    /\ table \in [Fds -> Wrappers \cup {Free, Other}]
    /\ running \in Wrappers \cup {Nobody}

Init ==
    /\ constructor = "empty"
    /\ phase = [w \in Wrappers |-> "none"]
    /\ pinned = {}
    /\ named = {}
    /\ poller = [w \in Wrappers |-> "none"]
    /\ handle = [w \in Wrappers |-> "none"]
    /\ fd = [w \in Wrappers |-> NoFd]
    /\ table = [f \in Fds |-> Free]
    /\ running = Nobody

\* JavaScript and the loop run: no destructor is half-way through.
JsRuns == \A w \in Wrappers : phase[w] # "dying"

\* Wrapper::Init, once, when the addon is loaded: from now on there is a class Wrapper.
InitModule ==
    /\ constructor = "empty"
    /\ constructor' = "set"
    /\ UNCHANGED <<phase, pinned, named, poller, handle, fd, table, running>>

-----------------------------------------------------------------------------
(* Wrapper::New.  The constructor is one call of the JavaScript thread;    *)
(* called without `new' it constructs through the same function.           *)

\* The options, or their properties, are not what they should be: nothing is set yet.
NewRejected(w) ==
    /\ JsRuns
    /\ constructor = "set"
    /\ phase[w] = "none"
    /\ phase' = [phase EXCEPT ![w] = "rejected"]
    /\ UNCHANGED <<constructor, pinned, named, poller, handle, fd, table, running>>

\* Faulty variant: the poller is created before the Socket that then fails.
NewPollerFirst(w) ==
    /\ JsRuns
    /\ constructor = "set"
    /\ phase[w] = "none"
    /\ phase' = [phase EXCEPT ![w] = "halfbuilt"]
    /\ pinned' = pinned \cup {w}
    /\ poller' = [poller EXCEPT ![w] = "uv"]
    /\ handle' = [handle EXCEPT ![w] = "polling"]
    /\ UNCHANGED <<constructor, named, fd, table, running>>

\* new Socket throws.  The destructor does not run for a half-built object: the memory
\* goes, the persistent handles stay set.
NewWithoutSocket(w) ==
    /\ JsRuns
    /\ constructor = "set"
    /\ phase[w] = "none"
    /\ phase' = [phase EXCEPT ![w] = "halfbuilt"]
    /\ pinned' = pinned \cup {w}
    /\ UNCHANGED <<constructor, named, poller, handle, fd, table, running>>

\* The persistent handles are set and the Socket has got descriptor f.
Allocate(w, f) ==
    /\ JsRuns
    /\ constructor = "set"
    /\ phase[w] = "none"
    /\ table[f] = Free
    /\ pinned' = pinned \cup {w}
    /\ fd' = [fd EXCEPT ![w] = f]
    /\ table' = [table EXCEPT ![f] = w]

\* new UvPoller throws (no memory): the Socket stays behind too.
NewWithoutPoller(w) ==
    /\ \E f \in Fds : Allocate(w, f)
    /\ phase' = [phase EXCEPT ![w] = "halfbuilt"]
    /\ UNCHANGED <<constructor, named, poller, handle, running>>

New(w) ==
    /\ \E f \in Fds : Allocate(w, f)
    /\ phase' = [phase EXCEPT ![w] = "alive"]
    /\ named' = named \cup {w}
    /\ poller' = [poller EXCEPT ![w] = "uv"]
    /\ handle' = [handle EXCEPT ![w] = "polling"]
    /\ UNCHANGED <<constructor, running>>

-----------------------------------------------------------------------------
(* Use and destruction.                                                    *)

UserForgets(w) ==
    /\ JsRuns
    /\ w \in named
    /\ named' = named \ {w}
    /\ UNCHANGED <<constructor, phase, pinned, poller, handle, fd, table, running>>

\* A call reaches the Wrapper: from user code that refers to it, or from its functions.
Reachable(w) == w \in named \/ w \in pinned \cap Holding

\* delete poller: a UvPoller closes its handle, a NullPoller nothing.
ClosedHandle(w) ==
    [handle EXCEPT ![w] = IF poller[w] = "uv" THEN "closing" ELSE handle[w]]

\* Faulty variant: the pointer to the deleted poller stays.
CloseKeepsPointer(w) ==
    /\ JsRuns
    /\ phase[w] = "alive" /\ Reachable(w)
    /\ handle' = ClosedHandle(w)
    /\ UNCHANGED <<constructor, phase, pinned, named, poller, fd, table, running>>

\* Faulty variant: close also resets the three persistent handles.
CloseUnpins(w) ==
    /\ JsRuns
    /\ phase[w] = "alive" /\ Reachable(w)
    /\ handle' = ClosedHandle(w)
    /\ poller' = [poller EXCEPT ![w] = "null"]
    /\ pinned' = pinned \ {w}
    /\ UNCHANGED <<constructor, phase, named, fd, table, running>>

Close(w) ==
    /\ JsRuns
    /\ phase[w] = "alive" /\ Reachable(w)
    /\ handle' = ClosedHandle(w)
    /\ poller' = [poller EXCEPT ![w] = "null"]
    /\ UNCHANGED <<constructor, phase, pinned, named, fd, table, running>>

\* Faulty variant: the Socket is deleted before the poller.
CollectSocketFirst(w) ==
    /\ JsRuns
    /\ phase[w] = "alive" /\ ~Reachable(w)
    /\ phase' = [phase EXCEPT ![w] = "dying"]
    /\ pinned' = pinned \ {w}
    /\ table' = [table EXCEPT ![fd[w]] = Free]
    /\ UNCHANGED <<constructor, named, poller, handle, fd, running>>

\* The collector deletes an unreachable Wrapper: Reset three times, delete poller.
Collect(w) ==
    /\ JsRuns
    /\ phase[w] = "alive" /\ ~Reachable(w)
    /\ phase' = [phase EXCEPT ![w] = "dying"]
    /\ pinned' = pinned \ {w}
    /\ handle' = ClosedHandle(w)
    /\ poller' = [poller EXCEPT ![w] = "none"]
    /\ UNCHANGED <<constructor, named, fd, table, running>>

\* Faulty variant: the Socket is not deleted.
DestructorKeepsSocket(w) ==
    /\ phase[w] = "dying"
    /\ phase' = [phase EXCEPT ![w] = "dead"]
    /\ UNCHANGED <<constructor, pinned, named, poller, handle, fd, table, running>>

\* delete socket, the end of ~Wrapper: ~Socket closes the descriptor.
DeleteSocket(w) ==
    /\ phase[w] = "dying"
    /\ phase' = [phase EXCEPT ![w] = "dead"]
    /\ table' = [table EXCEPT ![fd[w]] = Free]
    /\ UNCHANGED <<constructor, pinned, named, poller, handle, fd, running>>

-----------------------------------------------------------------------------
(* The event loop and the other threads.                                   *)

\* io_event_wrapper: external_data is the Wrapper.
IoEvent(w) ==
    /\ JsRuns
    /\ running = Nobody
    /\ handle[w] = "polling"
    /\ running' = w
    /\ UNCHANGED <<constructor, phase, pinned, named, poller, handle, fd, table>>

IoEventReturns ==
    /\ JsRuns
    /\ running # Nobody
    /\ running' = Nobody
    /\ UNCHANGED <<constructor, phase, pinned, named, poller, handle, fd, table>>

\* The loop's closing phase calls on_close.
HandleFreed(w) ==
    /\ JsRuns
    /\ running = Nobody
    /\ handle[w] = "closing"
    /\ handle' = [handle EXCEPT ![w] = "freed"]
    /\ UNCHANGED <<constructor, phase, pinned, named, poller, fd, table, running>>

OtherThread(f) ==
    /\ \/ table[f] = Free /\ table' = [table EXCEPT ![f] = Other]
       \/ table[f] = Other /\ table' = [table EXCEPT ![f] = Free]
    /\ UNCHANGED <<constructor, phase, pinned, named, poller, handle, fd, running>>

Next ==
    \/ InitModule
    \/ \E w \in Wrappers :
         \/ NewRejected(w) \/ NewWithoutSocket(w) \/ NewWithoutPoller(w) \/ New(w)
         \/ UserForgets(w) \/ Close(w) \/ Collect(w) \/ DeleteSocket(w)
         \/ IoEvent(w) \/ HandleFreed(w)
    \/ IoEventReturns
    \/ \E f \in Fds : OtherThread(f)

Spec == Init /\ [][Next]_vars

\* A destructor and an io_event run to their end, and every turn of the loop, between whose
\* io_events a closing handle waits, ends with the closing phase.  Nothing is assumed of
\* the collector and of users.
Fairness ==
    /\ WF_vars(IoEventReturns)
    /\ \A w \in Wrappers : WF_vars(DeleteSocket(w)) /\ SF_vars(HandleFreed(w))

FairSpec == Spec /\ Fairness

-----------------------------------------------------------------------------
(* Properties.                                                             *)

\* libuv polls a handle only for a complete, living Wrapper and only on a descriptor that
\* is that Wrapper's own: the poller is created last and goes first (wrapper.cc lines 32
\* to 37, 43, 44), whatever other threads do with freed descriptors.
PolledLives ==
    \A w \in Wrappers :
        handle[w] = "polling" =>
            phase[w] = "alive" /\ fd[w] \in Fds /\ table[fd[w]] = w

\* The Wrapper points to a UvPoller exactly while that poller's handle is open: close and
\* destruction together close a handle once, in either order of events (wrapper.cc lines
\* 43, 121, 122).
PointerMatchesHandle ==
    \A w \in Wrappers : poller[w] = "uv" <=> handle[w] = "polling"

\* A Wrapper destroyed by the collector has given back everything, and an io_event that a
\* destruction interrupted finds its handle closed (wrapper.cc lines 39 to 45).
DeadHoldsNothing ==
    \A w \in Wrappers :
        phase[w] = "dead" =>
            /\ w \notin pinned
            /\ \A f \in Fds : table[f] # w
            /\ handle[w] \in {"closing", "freed"}

\* What socket.js relies on: while io_event calls a function that refers to the Wrapper,
\* the Wrapper is there, whatever user code forgets or closes meanwhile.  It is the
\* persistent handles that see to it (wrapper.cc lines 27 to 29).  A Wrapper whose functions
\* do not refer to it can be destroyed under its own io_event.
CalledWrapperLives == \A w \in Holding : running = w => phase[w] = "alive"

\* Once the collector has begun with a Wrapper, its descriptor is closed and its handle
\* freed by the loop (wrapper.cc lines 39 to 45, poller.cc on_close).
DestroyedIsReleased ==
    \A w \in Wrappers :
        phase[w] = "dying" ~> (handle[w] = "freed" /\ \A f \in Fds : table[f] # w)

\* The inductive invariant.
LifetimeInv ==
    /\ LifetimeTypeOK
    /\ PolledLives
    /\ PointerMatchesHandle
    /\ DeadHoldsNothing
    /\ CalledWrapperLives
    /\ \A w \in Wrappers :
        /\ constructor = "empty" => phase[w] = "none"
        /\ phase[w] \in {"none", "rejected", "halfbuilt"} => handle[w] = "none"
        /\ phase[w] \in {"alive", "dying"} =>
               handle[w] # "none" /\ fd[w] \in Fds /\ table[fd[w]] = w
        /\ phase[w] = "dying" => handle[w] # "polling" /\ w \notin pinned
        /\ phase[w] \in {"none", "rejected"} => \A f \in Fds : table[f] # w
        /\ phase[w] = "alive" => w \in pinned
    /\ \A w \in Wrappers, f \in Fds : table[f] = w => fd[w] = f
=============================================================================
