------------------------------- MODULE Poller -------------------------------
(***************************************************************************)
(* The poller of one packet socket: class UvPoller, the NullPoller that    *)
(* replaces it on close, and the libuv poll handle UvPoller owns           *)
(* (src/src/poller.cc).  The module gives state and operations; Wrapper    *)
(* and PacketSocket compose them.                                          *)
(*                                                                         *)
(* A mask of poll events is a set: NONE_EVENT = {}, READ_EVENT, RW_EVENT.  *)
(***************************************************************************)

READ_EVENT == {"readable"}
RW_EVENT == {"readable", "writable"}

VARIABLES
    alive,          \* Wrapper::poller is the UvPoller (FALSE: deleted, a NullPoller took its place)
    current_events, \* UvPoller::current_events, the mask the object believes in
    watched,        \* the mask libuv really polls for; {} is a stopped handle
    handle,         \* the uv_poll_t: "open", "closing" (uv_close called) or "freed"
    todo            \* the revents that the running io_event call has not acted on yet

pollerVars == <<alive, current_events, watched, handle>>

PollerTypeOK ==
    /\ alive \in BOOLEAN
    /\ current_events \in {READ_EVENT, RW_EVENT}
    /\ watched \in {{}, READ_EVENT, RW_EVENT}
    /\ handle \in {"open", "closing", "freed"}
    /\ todo \in SUBSET RW_EVENT

\* UvPoller::UvPoller: the handle starts with UV_READABLE only.
PollerInit ==
    /\ alive = TRUE
    /\ current_events = READ_EVENT
    /\ watched = READ_EVENT
    /\ handle = "open"
    /\ todo = {}

-----------------------------------------------------------------------------
(* UvPoller::set_events, NullPoller::set_events and their virtual call.    *)

\* Faulty variant: the cached mask is not brought up to date.
UvSetEventsNoCache(events) ==
    \/ /\ events = current_events
       /\ UNCHANGED pollerVars
    \/ /\ events # current_events
       /\ watched' = events
       /\ UNCHANGED <<alive, handle, current_events>>

\* The cached mask short-cuts the call; otherwise stop, and start when a bit is asked for.
UvSetEvents(events) ==
    \/ /\ events = current_events
       /\ UNCHANGED pollerVars
    \/ /\ events # current_events
       /\ current_events' = events
       /\ watched' = events
       /\ UNCHANGED <<alive, handle>>

NullSetEvents(events) == UNCHANGED pollerVars

\* Faulty variant: the deleted UvPoller is still called after close.
SetEventsNoNull(events) == UvSetEvents(events)

SetEvents(events) == IF alive THEN UvSetEvents(events) ELSE NullSetEvents(events)

-----------------------------------------------------------------------------
(* Deletion: ~UvPoller closes the handle, libuv calls on_close later.      *)

\* Faulty variant: the object goes away, its handle stays in the loop.
DeletePollerNoClose ==
    /\ alive' = FALSE
    /\ UNCHANGED <<current_events, watched, handle>>

DeletePoller ==
    /\ alive' = FALSE
    /\ handle' = "closing"
    /\ watched' = {}
    /\ UNCHANGED current_events

OnClose ==
    /\ handle = "closing"
    /\ handle' = "freed"
    /\ UNCHANGED <<alive, current_events, watched, todo>>

-----------------------------------------------------------------------------
(* io_event: libuv calls it through io_event_wrapper.                      *)

\* Faulty variant: `else if' for the second `if': a writable event hides a readable one.
IoEventWritableFirst(revents) ==
    /\ revents # {}
    /\ revents \subseteq watched
    /\ todo' = IF "writable" \in revents THEN {"writable"} ELSE revents
    /\ UNCHANGED pollerVars

\* status = 0: the events found ready, among those the handle watches.
IoEventBegins(revents) ==
    /\ revents # {}
    /\ revents \subseteq watched
    /\ todo' = revents
    /\ UNCHANGED pollerVars

\* status # 0: libuv stops the handle before it reports; UvPoller only calls
\* error_callback and leaves current_events as it is.
IoEventFails ==
    /\ watched # {}
    /\ watched' = {}
    /\ UNCHANGED <<alive, current_events, handle, todo>>

\* if(revents & UV_READABLE) read_ready_callback(...)
ReadableTurn ==
    /\ "readable" \in todo
    /\ todo' = todo \ {"readable"}

\* if(revents & UV_WRITABLE) write_ready_callback(...), after the readable part
WritableTurn ==
    /\ todo = {"writable"}
    /\ todo' = {}
=============================================================================
