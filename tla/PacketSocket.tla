---------------------------- MODULE PacketSocket ----------------------------
(***************************************************************************)
(* The whole event path of one packet socket: the JavaScript Socket of     *)
(* src/socket.js on top of Wrapper, UvPoller, the raw socket and the       *)
(* kernel, driven by libuv's loop and by user code.                        *)
(*                                                                         *)
(* There is one thread.  What makes the program hard is reentrancy: user   *)
(* code runs in the middle of io_event (a message listener, a send         *)
(* callback, an error listener) and may call send and close there.  `ctl'  *)
(* is the call stack, flattened to the innermost frame that can act next:  *)
(*   loop            libuv's loop; any timer or other JavaScript may run   *)
(*   io              io_event, between two of its callbacks                *)
(*   onMessage       a listener called by emit("message") inside Receive   *)
(*   onRecvError     an error listener called from onRecv's catch          *)
(*   afterSend       req.afterCallback(null, bytes), inside Wrapper::Send  *)
(*   afterSendError  req.afterCallback(error, 0), from onSend's catch      *)
(*   onError         an error listener called through ErrorCallback        *)
(*   turnEnd         the outermost JavaScript call is over: node runs      *)
(*                   next-tick and promise jobs, or the uncaughtException  *)
(*                   handler, before it goes back to io_event              *)
(*   dead            the process has ended                                 *)
(***************************************************************************)
EXTENDS Wrapper, Sequences, Functions

CONSTANTS
    Requests,   \* names for the calls of send that something still refers to
    NoRequest   \* the value of `serving' outside a send callback

ASSUME RequestsAssumption == NoRequest \notin Requests

VARIABLES
    requests,   \* Socket.requests, the FIFO of submitted requests
    ctl,        \* where the thread is
    serving,    \* `req' of the onSend call under way
    okCalls,    \* how often afterCallback(null, bytes) was called, per request
    errCalls,   \* how often afterCallback(error, 0) was called, per request
    sent,       \* the requests whose packet sendto has taken
    late        \* the requests that onSend took from the queue after close

jsVars == <<requests, ctl, serving>>
historyVars == <<okCalls, errCalls, sent, late>>
vars == <<pollerVars, todo, rawVars, jsVars, historyVars>>

Callbacks ==
    {"onMessage", "onRecvError", "afterSend", "afterSendError", "onError", "turnEnd"}

TypeOK ==
    /\ PollerTypeOK
    /\ RawTypeOK
    /\ requests \in Seq(Requests)
    /\ ctl \in Callbacks \cup {"loop", "io", "dead"}
    /\ serving \in Requests \cup {NoRequest}
    /\ okCalls \in [Requests -> Nat]
    /\ errCalls \in [Requests -> Nat]
    /\ sent \in SUBSET Requests
    /\ late \in SUBSET Requests

Init ==
    /\ PollerInit
    /\ RawInit
    /\ requests = <<>>
    /\ ctl = "loop"
    /\ serving = NoRequest
    /\ okCalls = [r \in Requests |-> 0]
    /\ errCalls = [r \in Requests |-> 0]
    /\ sent = {}
    /\ late = {}

Queued(r) == r \in Range(requests)
Answered(r) == okCalls[r] + errCalls[r] > 0
Fresh(r) == ~Queued(r) /\ ~Answered(r)

-----------------------------------------------------------------------------
(* User code: from a timer, or from any callback below.                    *)

UserRuns == ctl \in Callbacks \cup {"loop"}

\* Socket.prototype.send: push, then ResumeSending.  The two are one step, since no
\* other code runs in between.
Send(r) ==
    /\ UserRuns
    /\ Fresh(r)
    /\ requests' = Append(requests, r)
    /\ ResumeSending
    /\ UNCHANGED <<todo, rawVars, ctl, serving, historyVars>>

\* Socket.prototype.close.  The queue is left as it is.
Close ==
    /\ UserRuns
    /\ WrapperClose
    /\ UNCHANGED <<todo, rawVars, jsVars, historyVars>>

\* A callback returns; its outermost JavaScript frame ends the turn.
UserReturns ==
    /\ ctl \in Callbacks
    /\ ctl' = IF ctl = "turnEnd" THEN "io" ELSE "turnEnd"
    /\ serving' = NoRequest
    /\ UNCHANGED <<pollerVars, todo, rawVars, requests, historyVars>>

\* A message listener throws through emit, Receive's MakeCallback and Receive, into
\* onRecv's catch, which emits "error".
MessageListenerThrows ==
    /\ ctl = "onMessage"
    /\ ctl' = "onRecvError"
    /\ UNCHANGED <<pollerVars, todo, rawVars, requests, serving, historyVars>>

\* Faulty variant: the error call of the callback is itself retried when it throws.
SendCallbackThrowsAgain ==
    /\ ctl \in {"afterSend", "afterSendError"}
    /\ ctl' = "afterSendError"
    /\ errCalls' = [errCalls EXCEPT ![serving] = @ + 1]
    /\ UNCHANGED <<pollerVars, todo, rawVars, requests, serving, okCalls, sent, late>>

\* afterCallback(null, bytes) throws through Send into onSend's catch, which calls the
\* same callback with the error.
SendCallbackThrows ==
    /\ ctl = "afterSend"
    /\ ctl' = "afterSendError"
    /\ errCalls' = [errCalls EXCEPT ![serving] = @ + 1]
    /\ UNCHANGED <<pollerVars, todo, rawVars, requests, serving, okCalls, sent, late>>

\* Nothing catches: the process ends, or a handler of uncaughtException keeps it.
UncaughtThrow ==
    /\ ctl \in {"onRecvError", "afterSendError", "onError", "turnEnd"}
    /\ ctl' \in {"turnEnd", "dead"}
    /\ serving' = NoRequest
    /\ UNCHANGED <<pollerVars, todo, rawVars, requests, historyVars>>

\* Nothing refers to an answered request once onSend has returned: it is out of the queue
\* and `req' was a local.  Its name stands for a later call of send, so that there is no
\* end to what users may send.
Forget(r) ==
    /\ Answered(r)
    /\ ~Queued(r)
    /\ serving # r
    /\ r \notin late
    /\ okCalls' = [okCalls EXCEPT ![r] = 0]
    /\ errCalls' = [errCalls EXCEPT ![r] = 0]
    /\ sent' = sent \ {r}
    /\ UNCHANGED <<pollerVars, todo, rawVars, jsVars, late>>

-----------------------------------------------------------------------------
(* libuv and io_event.                                                     *)

\* The loop polls the descriptor and calls io_event.  The backlog decides on
\* "readable"; a transmit buffer that is full for a while hides "writable".
PollReady(revents) ==
    /\ ctl = "loop"
    /\ ~skerr
    /\ ("readable" \in revents) <=> ("readable" \in watched /\ rx > 0)
    /\ IoEventBegins(revents)
    /\ ctl' = "io"
    /\ UNCHANGED <<rawVars, requests, serving, historyVars>>

\* Faulty variant: the error is read and cleared, and the handle polls on.
PollErrorClears ==
    /\ ctl = "loop"
    /\ skerr
    /\ watched # {}
    /\ skerr' = FALSE
    /\ ctl' = "onError"
    /\ UNCHANGED <<pollerVars, todo, rx, requests, serving, historyVars>>

\* EPOLLERR: io_event gets a status, ErrorCallback calls onError, which emits "error".
PollError ==
    /\ ctl = "loop"
    /\ skerr
    /\ IoEventFails
    /\ ctl' = "onError"
    /\ UNCHANGED <<rawVars, requests, serving, historyVars>>

\* read_ready_callback -> ReadReadyCallback -> onRecv -> Wrapper::Receive.
OnRecv ==
    /\ ctl = "io"
    /\ ReadableTurn
    /\ \/ ReceiveCallsBack /\ ctl' = "onMessage"
       \/ ReceiveThrows /\ ctl' = "onRecvError"
    /\ UNCHANGED <<pollerVars, requests, serving, historyVars>>

\* The write_ready_callback of a UvPoller that was deleted while its io_event was
\* running is read from freed memory.  Either the old value is still there, and the
\* actions below run as if nothing had happened, or the process crashes.
DeletedPollerCrashes ==
    /\ ctl = "io"
    /\ ~alive
    /\ WritableTurn
    /\ ctl' = "dead"
    /\ UNCHANGED <<pollerVars, rawVars, requests, serving, historyVars>>

\* Faulty variant: sending is paused while one request is still queued.
OnSendIdleEarly ==
    /\ ctl = "io"
    /\ Len(requests) <= 1
    /\ WritableTurn
    /\ PauseSending
    /\ UNCHANGED <<rawVars, jsVars, historyVars>>

\* Faulty variant: an idle socket is left polling for writability.
OnSendIdleNoPause ==
    /\ ctl = "io"
    /\ requests = <<>>
    /\ WritableTurn
    /\ UNCHANGED <<pollerVars, rawVars, jsVars, historyVars>>

\* onSend with nothing to send.
OnSendIdle ==
    /\ ctl = "io"
    /\ requests = <<>>
    /\ WritableTurn
    /\ PauseSending
    /\ UNCHANGED <<rawVars, jsVars, historyVars>>

\* The outcome of Wrapper::Send for request r: its callback runs inside Send, or Send
\* throws and onSend's catch runs the callback with the error.
Attempt(r) ==
    \/ /\ SendCallsBack
       /\ ctl' = "afterSend"
       /\ sent' = sent \cup {r}
       /\ okCalls' = [okCalls EXCEPT ![r] = @ + 1]
       /\ UNCHANGED errCalls
    \/ /\ SendThrows
       /\ ctl' = "afterSendError"
       /\ errCalls' = [errCalls EXCEPT ![r] = @ + 1]
       /\ UNCHANGED <<sent, okCalls>>

\* Faulty variant: the newest request is taken, requests.pop() for requests.shift().
OnSendNewest ==
    /\ ctl = "io"
    /\ requests # <<>>
    /\ WritableTurn
    /\ requests' = SubSeq(requests, 1, Len(requests) - 1)
    /\ serving' = requests[Len(requests)]
    /\ late' = IF alive THEN late ELSE late \cup {serving'}
    /\ Attempt(requests[Len(requests)])
    /\ UNCHANGED pollerVars

\* onSend with a queue: shift one request and try to send it.
OnSendNext ==
    /\ ctl = "io"
    /\ requests # <<>>
    /\ WritableTurn
    /\ requests' = Tail(requests)
    /\ serving' = Head(requests)
    /\ late' = IF alive THEN late ELSE late \cup {Head(requests)}
    /\ Attempt(Head(requests))
    /\ UNCHANGED pollerVars

\* io_event has no event left to act on.
IoEventReturns ==
    /\ ctl = "io"
    /\ todo = {}
    /\ ctl' = "loop"
    /\ UNCHANGED <<pollerVars, todo, rawVars, requests, serving, historyVars>>

\* The closing phase of a loop iteration calls UvPoller::on_close.
LoopCloses ==
    /\ ctl = "loop"
    /\ OnClose
    /\ UNCHANGED <<rawVars, jsVars, historyVars>>

Network ==
    /\ FrameArrives \/ LinkFails
    /\ UNCHANGED <<pollerVars, todo, jsVars, historyVars>>

-----------------------------------------------------------------------------
OnSend == OnSendIdle \/ OnSendNext

Next ==
    \/ \E r \in Requests : Send(r)
    \/ Close
    \/ UserReturns
    \/ MessageListenerThrows
    \/ SendCallbackThrows
    \/ UncaughtThrow
    \/ \E r \in Requests : Forget(r)
    \/ \E revents \in SUBSET RW_EVENT : PollReady(revents)
    \/ PollError
    \/ OnRecv
    \/ OnSend
    \/ DeletedPollerCrashes
    \/ IoEventReturns
    \/ LoopCloses
    \/ Network

Spec == Init /\ [][Next]_vars

(***************************************************************************)
(* Fairness.  The C++ code runs on once called, and the loop goes on       *)
(* turning: weak fairness of its steps.  User callbacks return (a callback *)
(* that never does stops the whole process).  The transmit buffer drains,  *)
(* so a poll that keeps asking for writability gets it: strong fairness.   *)
(* Nothing is assumed of what users send and close or of the network.      *)
(***************************************************************************)
Fairness ==
    /\ WF_vars(OnRecv)
    /\ WF_vars(OnSend)
    /\ WF_vars(IoEventReturns)
    /\ WF_vars(LoopCloses)
    /\ WF_vars(PollError)
    /\ WF_vars(UserReturns)
    /\ WF_vars(\E revents \in SUBSET RW_EVENT : PollReady(revents))
    /\ SF_vars(\E revents \in SUBSET RW_EVENT : "writable" \in revents /\ PollReady(revents))

FairSpec == Spec /\ Fairness

-----------------------------------------------------------------------------
(* Safety.                                                                 *)

\* No lost wakeup (socket.js send and onSend against the mask cached in set_events):
\* while the socket is open and something is queued, the poller believes in RW_EVENT,
\* and libuv polls with that very mask, unless a socket error that nothing has cleared
\* made it stop the handle.
NoLostWakeup ==
    alive =>
        /\ requests # <<>> => current_events = RW_EVENT
        /\ watched = current_events \/ (watched = {} /\ skerr)

\* At most one success call and at most one error call per send (onSend's try/catch
\* around a Send that calls back synchronously), and none while the request is queued.
AnsweredOnce ==
    \A r \in Requests :
        /\ okCalls[r] <= 1
        /\ errCalls[r] <= 1
        /\ Queued(r) => ~Answered(r)

\* However close and the io_event calls interleave, at most one request is attempted
\* after close: the one of the io_event that was running (Wrapper::Close inside a read
\* callback, poller.cc lines 37 to 40).
OneStraggler == \A r, s \in late : r = s

\* What AnsweredOnce rests on: success calls and packets on the wire go together (Attempt),
\* and neither is there while the request is queued.
VerdictMatchesWire ==
    \A r \in Requests :
        /\ okCalls[r] > 0 <=> r \in sent
        /\ r \in sent => ~Queued(r)

\* The inductive invariant: the properties above with what they rest on.  The poller
\* object and its handle go together; nothing of an io_event is left where it cannot be
\* under way, and a poll error never stops the handle under one; a success callback runs
\* for a request answered once; a straggler used up the last event of a deleted poller
\* (poller.cc io_event, socket.js onSend).
IInv ==
    /\ TypeOK
    /\ NoLostWakeup
    /\ AnsweredOnce
    /\ VerdictMatchesWire
    /\ OneStraggler
    /\ alive <=> handle = "open"
    /\ ~alive => watched = {}
    /\ ctl \in {"loop", "afterSend", "afterSendError", "onError"} => todo = {}
    /\ alive /\ todo # {} => watched = current_events
    /\ ctl = "afterSend" => serving \in sent /\ errCalls[serving] = 0
    /\ late # {} => ~alive /\ todo = {}
    /\ IsInjective(requests)

\* Once close has returned to the loop, no io_event, hence no callback of this socket,
\* ever starts again: uv_close in ~UvPoller silences the handle for good.
ClosedStaysQuiet == [][~alive /\ ctl = "loop" => ctl' = "loop"]_vars

\* A socket error that the poll reports is never cleared: no recvmsg or sendto runs any
\* more, so nothing is received and nothing is sent again (io_event's error branch).
PollErrorIsFinal ==
    [][skerr /\ todo = {} => skerr' /\ todo' = {} /\ sent' \subseteq sent /\ rx' >= rx]_vars

(***************************************************************************)
(* The socket implements the abstract send service: `sent' and the         *)
(* callback counts are read as the outcome of each request.                *)
(***************************************************************************)
Outcome(r) ==
    IF r \in sent THEN "transmitted"
    ELSE IF errCalls[r] > 0 THEN "failed"
    ELSE IF Queued(r) THEN "pending"
    ELSE "none"

Service == INSTANCE SendService WITH
    pending <- requests,
    outcome <- [r \in Requests |-> Outcome(r)],
    open <- alive,
    straggled <- late # {}

\* Requests are attempted in order of submission, once each, with one lasting outcome,
\* and after close at most the attempt under way is made (socket.js send, onSend, close).
ImplementsSendService == Service!Spec

-----------------------------------------------------------------------------
(* Liveness, under FairSpec.                                               *)

Stopped == watched = {}     \* by close or by a poll error
Dead == ctl = "dead"

\* Every request is answered as long as the handle stays polled (send, ResumeSending,
\* onSend taking one request per writable event).
SendAnswered == \A r \in Requests : Queued(r) ~> (Answered(r) \/ Stopped \/ Dead)

\* Frames in the backlog get their read, which may fail, even if users send for ever and
\* every event is writable as well (io_event acts on UV_READABLE and on UV_WRITABLE).
FrameRead == rx > 0 ~> (ctl \in {"onMessage", "onRecvError"} \/ Stopped \/ Dead)

\* An idle socket stops asking for writability, which epoll would report in every
\* iteration of the loop (PauseSending in onSend).
SendingPauses == []<>(requests # <<>> \/ "writable" \notin watched \/ Dead)

\* A closed poller's handle is freed (uv_close and on_close).
HandleReclaimed == ~alive ~> (handle = "freed" \/ Dead)

-----------------------------------------------------------------------------
(* What the documentation says and the code does not do.                   *)

\* README.md line 48: `err' is set when the send failed.
ErrMeansNotSent == \A r \in Requests : errCalls[r] > 0 => r \notin sent

\* README.md line 16: after socket.close() the socket sends nothing.
SilentAfterClose == [][~alive => sent' \subseteq sent]_vars

\* README.md line 48: the callback tells how the send ended.  Here: unless the socket is
\* closed, every send gets its callback.
EverySendAnswered == \A r \in Requests : Queued(r) ~> (Answered(r) \/ ~alive \/ Dead)
=============================================================================
