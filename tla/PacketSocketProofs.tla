------------------------- MODULE PacketSocketProofs -------------------------
(* Theorems about PacketSocket, for every set of requests and every backlog. *)
EXTENDS PacketSocket, SequenceTheorems, TLAPS

-----------------------------------------------------------------------------
(* The request queue: what push and shift do to its elements.              *)

LEMMA PushElements ==
    ASSUME NEW S, NEW s \in Seq(S), NEW e \in S
    PROVE  /\ Append(s, e) \in Seq(S)
           /\ Append(s, e) # <<>>
           /\ Range(Append(s, e)) = Range(s) \cup {e}
<1>1. /\ Append(s, e) \in Seq(S)
      /\ Len(Append(s, e)) = Len(s) + 1
      /\ \A i \in 1 .. Len(s) : Append(s, e)[i] = s[i]
      /\ Append(s, e)[Len(s) + 1] = e
      /\ Len(s) \in Nat
  BY AppendProperties, LenProperties
<1>2. DOMAIN s = 1 .. Len(s) /\ DOMAIN Append(s, e) = 1 .. Len(s) + 1
  BY <1>1, LenProperties
<1>3. Append(s, e) # <<>>
  BY <1>1, EmptySeq
<1>4. Range(Append(s, e)) = Range(s) \cup {e}
  BY <1>1, <1>2 DEF Range
<1>5. QED
  BY <1>1, <1>3, <1>4

LEMMA PushInjective ==
    ASSUME NEW S, NEW s \in Seq(S), NEW e \in S, IsInjective(s), e \notin Range(s)
    PROVE  IsInjective(Append(s, e))
<1>1. /\ Len(Append(s, e)) = Len(s) + 1
      /\ \A i \in 1 .. Len(s) : Append(s, e)[i] = s[i]
      /\ Append(s, e)[Len(s) + 1] = e
      /\ Len(s) \in Nat
      /\ Append(s, e) \in Seq(S)
  BY AppendProperties, LenProperties
<1>2. DOMAIN s = 1 .. Len(s) /\ DOMAIN Append(s, e) = 1 .. Len(s) + 1
  BY <1>1, LenProperties
<1>3. \A i \in 1 .. Len(s) : s[i] # e
  BY <1>2 DEF Range
<1>4. QED
  BY <1>1, <1>2, <1>3 DEF IsInjective

LEMMA ShiftElements ==
    ASSUME NEW S, NEW s \in Seq(S), s # <<>>
    PROVE  /\ Head(s) \in S
           /\ Tail(s) \in Seq(S)
           /\ Head(s) \in Range(s)
           /\ Range(s) = {Head(s)} \cup Range(Tail(s))
<1>1. /\ Head(s) \in S
      /\ Tail(s) \in Seq(S)
      /\ Len(Tail(s)) = Len(s) - 1
      /\ \A i \in 1 .. Len(Tail(s)) : Tail(s)[i] = s[i + 1]
      /\ Head(s) = s[1]
  BY HeadTailProperties
<1>2. /\ DOMAIN s = 1 .. Len(s)
      /\ DOMAIN Tail(s) = 1 .. Len(s) - 1
      /\ Len(s) \in Nat \ {0}
  BY <1>1, LenProperties, EmptySeq
<1>3. Head(s) \in Range(s)
  BY <1>1, <1>2 DEF Range
<1>4. \A i \in 1 .. Len(s) : i = 1 \/ (i - 1 \in 1 .. Len(s) - 1 /\ s[i] = Tail(s)[i - 1])
  BY <1>1, <1>2
<1>5. \A i \in 1 .. Len(s) : s[i] \in {Head(s)} \cup Range(Tail(s))
  <2>1. TAKE i \in 1 .. Len(s)
  <2>2. CASE i = 1
    BY <1>1, <2>2
  <2>3. CASE i # 1
    BY <1>2, <1>4, <2>3 DEF Range
  <2>4. QED
    BY <2>2, <2>3
<1>6. Range(Tail(s)) \subseteq Range(s)
  BY <1>1, <1>2 DEF Range
<1>7. QED
  BY <1>1, <1>2, <1>3, <1>5, <1>6 DEF Range

LEMMA ShiftInjective ==
    ASSUME NEW S, NEW s \in Seq(S), s # <<>>, IsInjective(s)
    PROVE  IsInjective(Tail(s)) /\ Head(s) \notin Range(Tail(s))
<1>1. /\ Tail(s) \in Seq(S)
      /\ Len(Tail(s)) = Len(s) - 1
      /\ \A i \in 1 .. Len(Tail(s)) : Tail(s)[i] = s[i + 1]
      /\ Head(s) = s[1]
  BY HeadTailProperties
<1>2. /\ DOMAIN s = 1 .. Len(s)
      /\ DOMAIN Tail(s) = 1 .. Len(s) - 1
      /\ Len(s) \in Nat \ {0}
  BY <1>1, LenProperties, EmptySeq
<1>3. \A i, j \in 1 .. Len(s) : s[i] = s[j] => i = j
  BY <1>2 DEF IsInjective
<1>4. IsInjective(Tail(s))
  BY <1>1, <1>2, <1>3 DEF IsInjective
<1>5. Head(s) \notin Range(Tail(s))
  BY <1>1, <1>2, <1>3 DEF Range
<1>6. QED
  BY <1>4, <1>5

-----------------------------------------------------------------------------
(* The inductive invariant.                                                *)

LEMMA InitInv == Init => IInv
<1>1. ASSUME Init PROVE IInv
  <2>1. TypeOK
    <3>1. PollerTypeOK /\ RawTypeOK
      <4>1. PollerTypeOK
        BY <1>1 DEF Init, PollerInit, PollerTypeOK
      <4>2. 0 \in 0 .. MaxBacklog
        BY BacklogAssumption
      <4>3. QED
        BY <1>1, <4>1, <4>2 DEF Init, RawInit, RawTypeOK
    <3>2. requests \in Seq(Requests)
      BY <1>1, EmptySeq DEF Init
    <3>3. QED
      BY <1>1, <3>1, <3>2 DEF Init, TypeOK
  <2>2. Range(requests) = {} /\ IsInjective(requests)
    BY <1>1 DEF Init, Range, IsInjective
  <2>3. QED
    BY <1>1, <2>1, <2>2 DEF Init, PollerInit, RawInit, IInv, NoLostWakeup, AnsweredOnce,
       VerdictMatchesWire, OneStraggler, Queued, Answered
<1>2. QED
  BY <1>1

LEMMA SendInv == ASSUME IInv, NEW r \in Requests, Send(r) PROVE IInv'
<1> USE DEF IInv, TypeOK
<1>1. /\ requests' \in Seq(Requests)
      /\ requests' # <<>>
      /\ Range(requests') = Range(requests) \cup {r}
  BY PushElements DEF Send
<1>2. IsInjective(requests')
  BY PushInjective DEF Send, Fresh, Queued
<1>3. PollerTypeOK' /\ RawTypeOK'
  BY DEF Send, ResumeSending, SetEvents, UvSetEvents, NullSetEvents, PollerTypeOK, RawTypeOK,
     pollerVars, rawVars, READ_EVENT, RW_EVENT
<1>4. TypeOK'
  BY <1>1, <1>3 DEF Send, jsVars, historyVars
<1>5. /\ NoLostWakeup'
      /\ alive' <=> handle' = "open"
      /\ ~alive' => watched' = {}
      /\ alive' /\ todo' # {} => watched' = current_events'
  BY DEF Send, ResumeSending, SetEvents, UvSetEvents, NullSetEvents, NoLostWakeup, pollerVars,
     rawVars, READ_EVENT, RW_EVENT
<1>6. AnsweredOnce' /\ VerdictMatchesWire'
  BY <1>1 DEF Send, AnsweredOnce, VerdictMatchesWire, Fresh, Queued, Answered, historyVars
<1>7. OneStraggler' /\ (late' # {} => ~alive' /\ todo' = {})
  BY DEF Send, ResumeSending, SetEvents, UvSetEvents, NullSetEvents, OneStraggler, pollerVars,
     historyVars
<1>8. QED
  BY <1>2, <1>4, <1>5, <1>6, <1>7 DEF Send, historyVars

LEMMA CloseInv == ASSUME IInv, Close PROVE IInv'
<1> USE DEF IInv, TypeOK, Close, WrapperClose, DeletePoller, pollerVars, rawVars, jsVars,
        historyVars
<1>1. TypeOK'
  BY DEF PollerTypeOK, RawTypeOK
<1>2. NoLostWakeup' /\ (alive' <=> handle' = "open") /\ (~alive' => watched' = {})
  BY DEF NoLostWakeup, PollerTypeOK
<1>3. AnsweredOnce' /\ VerdictMatchesWire' /\ OneStraggler'
  BY DEF AnsweredOnce, VerdictMatchesWire, OneStraggler, Queued, Answered
<1>4. QED
  BY <1>1, <1>2, <1>3

LEMMA UserInv ==
    ASSUME IInv, UserReturns \/ MessageListenerThrows \/ UncaughtThrow
    PROVE  IInv'
<1> USE DEF IInv, TypeOK, UserReturns, MessageListenerThrows, UncaughtThrow, Callbacks,
        pollerVars, rawVars, historyVars
<1>1. TypeOK'
  BY DEF PollerTypeOK, RawTypeOK
<1>2. NoLostWakeup' /\ AnsweredOnce' /\ VerdictMatchesWire' /\ OneStraggler'
  BY DEF NoLostWakeup, AnsweredOnce, VerdictMatchesWire, OneStraggler, Queued, Answered
<1>3. QED
  BY <1>1, <1>2

LEMMA SendCallbackThrowsInv == ASSUME IInv, SendCallbackThrows PROVE IInv'
<1> USE DEF IInv, TypeOK, SendCallbackThrows, pollerVars, rawVars
<1>1. serving \in Requests
  OBVIOUS
<1>2. TypeOK'
  BY <1>1 DEF Callbacks, PollerTypeOK, RawTypeOK
<1>3. AnsweredOnce'
  BY <1>1 DEF AnsweredOnce, VerdictMatchesWire, Queued, Answered
<1>4. NoLostWakeup' /\ VerdictMatchesWire' /\ OneStraggler'
  BY DEF NoLostWakeup, VerdictMatchesWire, OneStraggler, Queued
<1>5. QED
  BY <1>2, <1>3, <1>4

\* The name of an answered request is free again: nothing else refers to it.
LEMMA ForgetInv == ASSUME IInv, NEW r \in Requests, Forget(r) PROVE IInv'
<1> USE DEF IInv, TypeOK, Forget, pollerVars, rawVars, jsVars
<1>1. TypeOK'
  BY DEF PollerTypeOK, RawTypeOK
<1>2. AnsweredOnce' /\ VerdictMatchesWire'
  BY DEF AnsweredOnce, VerdictMatchesWire, Queued, Answered
<1>3. NoLostWakeup' /\ OneStraggler'
  BY DEF NoLostWakeup, OneStraggler
<1>4. QED
  BY <1>1, <1>2, <1>3

LEMMA PollReadyInv ==
    ASSUME IInv, NEW revents \in SUBSET RW_EVENT, PollReady(revents)
    PROVE  IInv'
<1> USE DEF IInv, TypeOK, PollReady, IoEventBegins, pollerVars, rawVars, historyVars
<1>1. TypeOK'
  BY DEF PollerTypeOK, RawTypeOK
<1>2. alive /\ late = {} /\ watched = current_events
  BY DEF NoLostWakeup
<1>3. NoLostWakeup' /\ AnsweredOnce' /\ VerdictMatchesWire' /\ OneStraggler'
  BY DEF NoLostWakeup, AnsweredOnce, VerdictMatchesWire, OneStraggler, Queued, Answered
<1>4. QED
  BY <1>1, <1>2, <1>3

LEMMA PollErrorInv == ASSUME IInv, PollError PROVE IInv'
<1> USE DEF IInv, TypeOK, PollError, IoEventFails, rawVars, historyVars
<1>1. TypeOK'
  BY DEF PollerTypeOK, RawTypeOK, Callbacks
<1>2. NoLostWakeup' /\ AnsweredOnce' /\ VerdictMatchesWire' /\ OneStraggler'
  BY DEF NoLostWakeup, AnsweredOnce, VerdictMatchesWire, OneStraggler, Queued, Answered
<1>3. QED
  BY <1>1, <1>2

\* A receive may clear the socket error; the handle is then still polled, for io_event
\* runs only while it is.
LEMMA OnRecvInv == ASSUME IInv, OnRecv PROVE IInv'
<1> USE DEF IInv, TypeOK, OnRecv, ReadableTurn, pollerVars, historyVars
<1>1. RawTypeOK'
  <2> USE DEF ReceiveCallsBack, ReceiveThrows, ReceiveMessage, ReceiveMessageThrows, rawVars
  <2>1. rx' = rx \/ (rx > 0 /\ rx' = rx - 1)
    OBVIOUS
  <2>2. rx' \in 0 .. MaxBacklog
    BY <2>1, BacklogAssumption DEF RawTypeOK
  <2>3. skerr' = skerr \/ skerr' = FALSE
    OBVIOUS
  <2>4. QED
    BY <2>2, <2>3 DEF RawTypeOK
<1>2. TypeOK'
  BY <1>1 DEF PollerTypeOK, Callbacks
<1>3. NoLostWakeup'
  BY DEF NoLostWakeup
<1>4. AnsweredOnce' /\ VerdictMatchesWire' /\ OneStraggler'
  BY DEF AnsweredOnce, VerdictMatchesWire, OneStraggler, Queued, Answered
<1>5. QED
  BY <1>2, <1>3, <1>4

LEMMA OnSendIdleInv == ASSUME IInv, OnSendIdle PROVE IInv'
<1>1. /\ requests = <<>> /\ requests' = <<>>
      /\ ctl = "io" /\ ctl' = ctl /\ serving' = serving
      /\ todo = {"writable"} /\ todo' = {}
      /\ okCalls' = okCalls /\ errCalls' = errCalls /\ sent' = sent /\ late' = late
      /\ rx' = rx /\ skerr' = skerr
  BY DEF OnSendIdle, WritableTurn, rawVars, jsVars, historyVars
<1>2. /\ alive' = alive /\ handle' = handle
      /\ ~alive => watched' = watched /\ current_events' = current_events
      /\ alive => current_events' = READ_EVENT
      /\ alive => watched' = READ_EVENT \/ (watched' = watched /\ current_events = READ_EVENT)
  BY DEF OnSendIdle, PauseSending, SetEvents, UvSetEvents, NullSetEvents, pollerVars
<1>3. alive => watched = current_events
  BY <1>1 DEF IInv
<1>4. TypeOK'
  <2>1. PollerTypeOK'
    BY <1>1, <1>2 DEF IInv, TypeOK, PollerTypeOK
  <2>2. QED
    BY <1>1, <2>1 DEF IInv, TypeOK, RawTypeOK
<1>5. NoLostWakeup'
  BY <1>1, <1>2, <1>3 DEF NoLostWakeup
<1>6. AnsweredOnce' /\ VerdictMatchesWire' /\ OneStraggler'
  BY <1>1 DEF IInv, AnsweredOnce, VerdictMatchesWire, OneStraggler, Queued, Answered
<1>7. QED
  BY <1>1, <1>2, <1>4, <1>5, <1>6 DEF IInv

LEMMA OneMoreCall ==
    ASSUME NEW calls \in [Requests -> Nat], NEW r \in Requests
    PROVE  [calls EXCEPT ![r] = @ + 1] \in [Requests -> Nat]
OBVIOUS

\* The request that onSend shifts is unanswered and not on the wire, and after close it is
\* the first to be taken: a straggler before it would have used up the event.
LEMMA OnSendNextInv == ASSUME IInv, OnSendNext PROVE IInv'
<1> DEFINE r == Head(requests)
<1> USE DEF IInv, TypeOK
<1>1. /\ r \in Requests
      /\ Queued(r)
      /\ requests' \in Seq(Requests)
      /\ Range(requests) = {r} \cup Range(requests')
  BY ShiftElements DEF OnSendNext, Queued
<1>2. IsInjective(requests') /\ r \notin Range(requests')
  BY ShiftInjective DEF OnSendNext
<1>3. okCalls[r] = 0 /\ errCalls[r] = 0 /\ r \notin sent
  BY <1>1 DEF AnsweredOnce, VerdictMatchesWire, Answered
<1>4. /\ todo = {"writable"} /\ todo' = {}
      /\ serving' = r
      /\ UNCHANGED pollerVars
      /\ UNCHANGED rx
      /\ skerr' = skerr \/ skerr' = FALSE
      /\ late = {}
      /\ late' = IF alive THEN late ELSE late \cup {r}
  BY DEF OnSendNext, WritableTurn, Attempt, SendCallsBack, SendThrows, SendMessage,
     SendMessageThrows, rawVars
<1>5. \/ /\ ctl' = "afterSend"
         /\ sent' = sent \cup {r}
         /\ okCalls' = [okCalls EXCEPT ![r] = @ + 1]
         /\ errCalls' = errCalls
      \/ /\ ctl' = "afterSendError"
         /\ errCalls' = [errCalls EXCEPT ![r] = @ + 1]
         /\ sent' = sent
         /\ okCalls' = okCalls
  BY DEF OnSendNext, Attempt
<1>6. TypeOK'
  <2>1. PollerTypeOK'
    BY <1>4 DEF PollerTypeOK, pollerVars
  <2>2. RawTypeOK'
    BY <1>4 DEF RawTypeOK
  <2>3. okCalls' \in [Requests -> Nat] /\ errCalls' \in [Requests -> Nat]
    <3>1. /\ [okCalls EXCEPT ![r] = @ + 1] \in [Requests -> Nat]
          /\ [errCalls EXCEPT ![r] = @ + 1] \in [Requests -> Nat]
      <4>1. okCalls \in [Requests -> Nat] /\ errCalls \in [Requests -> Nat]
        OBVIOUS
      <4>2. QED
        BY <1>1, <4>1, OneMoreCall
    <3>2. okCalls' = okCalls \/ okCalls' = [okCalls EXCEPT ![r] = @ + 1]
      BY <1>5
    <3>3. errCalls' = errCalls \/ errCalls' = [errCalls EXCEPT ![r] = @ + 1]
      BY <1>5
    <3>4. QED
      BY <1>1, <3>1, <3>2, <3>3
  <2>4. sent' \in SUBSET Requests /\ late' \in SUBSET Requests
    BY <1>1, <1>4, <1>5
  <2>5. ctl' \in Callbacks
    BY <1>5 DEF Callbacks
  <2>6. QED
    BY <1>1, <1>4, <2>1, <2>2, <2>3, <2>4, <2>5
<1>7. NoLostWakeup' /\ (alive' /\ todo' # {} => watched' = current_events')
  <2>1. requests # <<>>
    BY DEF OnSendNext
  <2>2. QED
    BY <1>4, <2>1 DEF NoLostWakeup, pollerVars
<1>8. AnsweredOnce' /\ VerdictMatchesWire'
  <2>1. SUFFICES ASSUME NEW q \in Requests
                 PROVE  /\ okCalls'[q] <= 1
                        /\ errCalls'[q] <= 1
                        /\ Queued(q)' => ~Answered(q)'
                        /\ okCalls'[q] > 0 <=> q \in sent'
                        /\ q \in sent' => ~Queued(q)'
    BY DEF AnsweredOnce, VerdictMatchesWire
  <2>2. CASE q = r
    <3>1. ~Queued(q)'
      BY <1>2, <2>2 DEF Queued
    <3>2. \/ okCalls'[q] = 1 /\ errCalls'[q] = 0 /\ q \in sent'
          \/ okCalls'[q] = 0 /\ errCalls'[q] = 1 /\ q \notin sent'
      BY <1>1, <1>3, <1>5, <2>2
    <3>3. QED
      BY <3>1, <3>2
  <2>3. CASE q # r
    <3>1. okCalls'[q] = okCalls[q] /\ errCalls'[q] = errCalls[q]
      BY <1>1, <1>5, <2>3
    <3>2. Queued(q)' <=> Queued(q)
      BY <1>1, <2>3 DEF Queued
    <3>3. q \in sent' <=> q \in sent
      BY <1>5, <2>3
    <3>4. QED
      BY <3>1, <3>2, <3>3 DEF AnsweredOnce, VerdictMatchesWire, Answered
  <2>4. QED
    BY <2>2, <2>3
<1>9. ctl' = "afterSend" => serving' \in sent' /\ errCalls'[serving'] = 0
  BY <1>1, <1>3, <1>4, <1>5
<1>10. OneStraggler' /\ (late' # {} => ~alive' /\ todo' = {})
  BY <1>4 DEF OneStraggler, pollerVars
<1>11. QED
  BY <1>2, <1>4, <1>5, <1>6, <1>7, <1>8, <1>9, <1>10 DEF pollerVars

LEMMA LoopInv ==
    ASSUME IInv, DeletedPollerCrashes \/ IoEventReturns \/ LoopCloses
    PROVE  IInv'
<1> USE DEF IInv, TypeOK, DeletedPollerCrashes, IoEventReturns, LoopCloses, OnClose,
        WritableTurn, pollerVars, rawVars, jsVars, historyVars
<1>1. TypeOK'
  BY DEF PollerTypeOK, RawTypeOK
<1>2. NoLostWakeup' /\ AnsweredOnce' /\ VerdictMatchesWire' /\ OneStraggler'
  BY DEF NoLostWakeup, AnsweredOnce, VerdictMatchesWire, OneStraggler, Queued, Answered
<1>3. QED
  BY <1>1, <1>2

LEMMA NetworkInv == ASSUME IInv, Network PROVE IInv'
<1> USE DEF IInv, TypeOK, Network, FrameArrives, LinkFails, pollerVars, jsVars, historyVars
<1>1. RawTypeOK'
  <2>1. rx' \in 0 .. MaxBacklog
    BY BacklogAssumption DEF RawTypeOK
  <2>2. skerr' \in BOOLEAN
    BY DEF RawTypeOK
  <2>3. QED
    BY <2>1, <2>2 DEF RawTypeOK
<1>2. TypeOK'
  BY <1>1 DEF PollerTypeOK
<1>3. NoLostWakeup' /\ AnsweredOnce' /\ VerdictMatchesWire' /\ OneStraggler'
  BY DEF NoLostWakeup, AnsweredOnce, VerdictMatchesWire, OneStraggler, Queued, Answered
<1>4. QED
  BY <1>2, <1>3

LEMMA StutterInv == ASSUME IInv, UNCHANGED vars PROVE IInv'
  BY DEF IInv, TypeOK, PollerTypeOK, RawTypeOK, NoLostWakeup, AnsweredOnce, VerdictMatchesWire,
     OneStraggler, Queued, Answered, vars, pollerVars, rawVars, jsVars, historyVars

LEMMA NextInv == IInv /\ [Next]_vars => IInv'
<1>1. SUFFICES ASSUME IInv, [Next]_vars PROVE IInv'
  OBVIOUS
<1>2. CASE \E r \in Requests : Send(r)
  BY <1>1, <1>2, SendInv
<1>3. CASE Close
  BY <1>1, <1>3, CloseInv
<1>4. CASE UserReturns \/ MessageListenerThrows \/ UncaughtThrow
  BY <1>1, <1>4, UserInv
<1>5. CASE SendCallbackThrows
  BY <1>1, <1>5, SendCallbackThrowsInv
<1>6. CASE \E revents \in SUBSET RW_EVENT : PollReady(revents)
  BY <1>1, <1>6, PollReadyInv
<1>7. CASE PollError
  BY <1>1, <1>7, PollErrorInv
<1>8. CASE OnRecv
  BY <1>1, <1>8, OnRecvInv
<1>9. CASE OnSend
  BY <1>1, <1>9, OnSendIdleInv, OnSendNextInv DEF OnSend
<1>10. CASE DeletedPollerCrashes \/ IoEventReturns \/ LoopCloses
  BY <1>1, <1>10, LoopInv
<1>11. CASE Network
  BY <1>1, <1>11, NetworkInv
<1>12. CASE UNCHANGED vars
  BY <1>1, <1>12, StutterInv
<1>13. CASE \E r \in Requests : Forget(r)
  BY <1>1, <1>13, ForgetInv
<1>14. QED
  BY <1>1, <1>2, <1>3, <1>4, <1>5, <1>6, <1>7, <1>8, <1>9, <1>10, <1>11, <1>12, <1>13 DEF Next

\* Every reachable state of the socket satisfies the inductive invariant, for any set of
\* requests and any backlog (all of socket.js's event path, wrapper.cc and poller.cc).
THEOREM Invariant == Spec => []IInv
<1>1. QED
  BY InitInv, NextInv, PTL DEF Spec

\* The state variables keep their types.
THEOREM TypeCorrect == Spec => []TypeOK
<1>1. IInv => TypeOK
  BY DEF IInv
<1>2. QED
  BY <1>1, Invariant, PTL

\* No wakeup is lost between send, onSend and the mask cached in UvPoller::set_events.
THEOREM WakeupSafe == Spec => []NoLostWakeup
<1>1. IInv => NoLostWakeup
  BY DEF IInv
<1>2. QED
  BY <1>1, Invariant, PTL

\* onSend calls a request's callback at most once with success and once with an error.
THEOREM AnswersSafe == Spec => []AnsweredOnce
<1>1. IInv => AnsweredOnce
  BY DEF IInv
<1>2. QED
  BY <1>1, Invariant, PTL

\* At most one request is attempted after close, whatever runs inside io_event.
THEOREM StragglerSafe == Spec => []OneStraggler
<1>1. IInv => OneStraggler
  BY DEF IInv
<1>2. QED
  BY <1>1, Invariant, PTL

\* After close no new io_event starts: only the one under way can still run.
THEOREM CloseSilences == Spec => ClosedStaysQuiet
<1>1. IInv /\ [Next]_vars => [~alive /\ ctl = "loop" => ctl' = "loop"]_vars
  <2>1. SUFFICES ASSUME IInv, Next, ~alive, ctl = "loop" PROVE ctl' = "loop"
    OBVIOUS
  <2>2. watched = {}
    BY <2>1 DEF IInv
  <2>3. QED
    BY <2>1, <2>2 DEF Next, Send, Close, UserReturns, MessageListenerThrows, SendCallbackThrows,
       UncaughtThrow, Forget, PollReady, IoEventBegins, PollError, IoEventFails, OnRecv,
       OnSend, OnSendIdle, OnSendNext, DeletedPollerCrashes, IoEventReturns, LoopCloses,
       Network, Callbacks, jsVars, historyVars
<1>2. QED
  BY <1>1, Invariant, PTL DEF Spec, ClosedStaysQuiet

\* Once a poll has reported a socket error, nothing is sent or received any more.
THEOREM ErrorIsFinal == Spec => PollErrorIsFinal
<1> DEFINE Final == skerr /\ todo = {} => skerr' /\ todo' = {} /\ sent' \subseteq sent /\ rx' >= rx
<1>1. IInv /\ [Next]_vars => [Final]_vars
  <2>1. SUFFICES ASSUME IInv, Next, skerr, todo = {}
                 PROVE  skerr' /\ todo' = {} /\ sent' \subseteq sent /\ rx' >= rx
    OBVIOUS
  <2>2. rx \in Nat
    BY <2>1, BacklogAssumption DEF IInv, TypeOK, RawTypeOK
  <2>3. CASE Network
    BY <2>1, <2>2, <2>3 DEF Network, FrameArrives, LinkFails, historyVars
  <2>4. CASE ~Network
    <3>1. skerr' = skerr /\ todo' = todo /\ sent' \subseteq sent /\ rx' = rx
      BY <2>1, <2>4 DEF Next, Send, Close, UserReturns, MessageListenerThrows,
         SendCallbackThrows, UncaughtThrow, Forget, PollReady, PollError, IoEventFails, OnRecv,
         ReadableTurn, OnSend, OnSendIdle, OnSendNext, WritableTurn, DeletedPollerCrashes,
         IoEventReturns, LoopCloses, OnClose, rawVars, historyVars
    <3>2. QED
      BY <2>1, <2>2, <3>1
  <2>5. QED
    BY <2>3, <2>4
<1>2. QED
  BY <1>1, Invariant, PTL DEF Spec, PollErrorIsFinal

-----------------------------------------------------------------------------
(* The socket implements SendService.                                      *)

LEMMA RefinesInit == Init => Service!Init
  BY DEF Init, PollerInit, Service!Init, Outcome, Queued, Range

LEMMA RefinesStutter ==
    ASSUME UNCHANGED <<requests, sent, errCalls, late, alive>>
    PROVE  UNCHANGED Service!vars
  BY DEF Service!vars, Outcome, Queued

LEMMA RefinesSend == ASSUME IInv, NEW r \in Requests, Send(r) PROVE Service!Submit(r)
<1>1. Range(requests') = Range(requests) \cup {r}
  BY PushElements DEF Send, IInv, TypeOK
<1>2. requests' = Append(requests, r) /\ alive' = alive
  BY DEF Send, ResumeSending, SetEvents, UvSetEvents, NullSetEvents, pollerVars
<1>3. errCalls' = errCalls /\ sent' = sent /\ late' = late
  BY DEF Send, historyVars
<1>4. errCalls[r] = 0 /\ r \notin sent /\ ~Queued(r)
  BY DEF Send, Fresh, Answered, IInv, TypeOK, VerdictMatchesWire
<1>5. Outcome(r) = "none" /\ Outcome(r)' = "pending"
  BY <1>1, <1>3, <1>4 DEF Outcome, Queued
<1>6. ASSUME NEW q \in Requests, q # r PROVE Outcome(q)' = Outcome(q)
  BY <1>1, <1>3, <1>6 DEF Outcome, Queued
<1>7. QED
  BY <1>2, <1>3, <1>5, <1>6 DEF Service!Submit

LEMMA RefinesClose == ASSUME IInv, Close PROVE Service!Close \/ UNCHANGED Service!vars
<1>1. UNCHANGED <<requests, sent, errCalls, late>>
  BY DEF Close, jsVars, historyVars
<1>2. CASE alive
  <2>1. alive' = FALSE
    BY <1>2 DEF Close, WrapperClose, DeletePoller
  <2>2. \A q \in Requests : Outcome(q)' = Outcome(q)
    BY <1>1 DEF Outcome, Queued
  <2>3. QED
    BY <1>1, <1>2, <2>1, <2>2 DEF Service!Close
<1>3. CASE ~alive
  <2>1. alive' = alive
    BY <1>3 DEF Close, WrapperClose, pollerVars
  <2>2. QED
    BY <1>1, <2>1, RefinesStutter
<1>4. QED
  BY <1>2, <1>3

LEMMA RefinesOnSendNext ==
    ASSUME IInv, OnSendNext
    PROVE  \E verdict \in {"transmitted", "failed"} : Service!Attempt(verdict)
<1>0. PICK r \in Requests : r = Head(requests)
  BY ShiftElements DEF OnSendNext, IInv, TypeOK
<1>1. /\ Queued(r)
      /\ Range(requests) = {r} \cup Range(requests')
      /\ requests # <<>> /\ requests' = Tail(requests)
  BY <1>0, ShiftElements DEF OnSendNext, Queued, IInv, TypeOK
<1>2. r \notin Range(requests')
  BY <1>0, ShiftInjective DEF OnSendNext, IInv, TypeOK
<1>3. errCalls[r] = 0 /\ r \notin sent
  BY <1>1 DEF IInv, TypeOK, AnsweredOnce, VerdictMatchesWire, Answered
<1>4. late = {} /\ alive' = alive /\ (late' # {} <=> ~alive)
  BY DEF OnSendNext, WritableTurn, pollerVars, IInv
<1>5. Outcome(r) = "pending"
  BY <1>1, <1>3 DEF Outcome
<1>6. PICK verdict \in {"transmitted", "failed"} :
         /\ Outcome(r)' = verdict
         /\ \A q \in Requests : q # r => Outcome(q)' = Outcome(q)
  <2>1. \A q \in Requests : q # r => (Queued(q)' <=> Queued(q))
    BY <1>1 DEF Queued
  <2>2. CASE sent' = sent \cup {r} /\ errCalls' = errCalls
    <3>1. Outcome(r)' = "transmitted"
      BY <2>2 DEF Outcome
    <3>2. ASSUME NEW q \in Requests, q # r PROVE Outcome(q)' = Outcome(q)
      BY <2>1, <2>2, <3>2 DEF Outcome
    <3>3. QED
      BY <3>1, <3>2
  <2>3. CASE sent' = sent /\ errCalls' = [errCalls EXCEPT ![r] = @ + 1]
    <3>1. errCalls'[r] > 0 /\ \A q \in Requests : q # r => errCalls'[q] = errCalls[q]
      BY <1>1, <1>3, <2>3 DEF IInv, TypeOK
    <3>2. Outcome(r)' = "failed"
      BY <1>3, <2>3, <3>1 DEF Outcome
    <3>3. ASSUME NEW q \in Requests, q # r PROVE Outcome(q)' = Outcome(q)
      BY <2>1, <2>3, <3>1, <3>3 DEF Outcome
    <3>4. QED
      BY <3>2, <3>3
  <2>4. QED
    BY <1>0, <2>2, <2>3 DEF OnSendNext, Attempt
<1>7. Service!Attempt(verdict)
  <2>1. [q \in Requests |-> Outcome(q)]' = [[q \in Requests |-> Outcome(q)] EXCEPT ![r] = verdict]
    BY <1>1, <1>6
  <2>2. [q \in Requests |-> Outcome(q)][r] = "pending"
    BY <1>1, <1>5
  <2>3. (late # {})' = ~alive
    BY <1>4
  <2>4. QED
    BY <1>0, <1>1, <1>4, <2>1, <2>2, <2>3 DEF Service!Attempt
<1>8. QED
  BY <1>7

LEMMA RefinesSendCallbackThrows ==
    ASSUME IInv, SendCallbackThrows
    PROVE  UNCHANGED Service!vars
<1>1. serving \in sent /\ serving \in Requests
  BY DEF IInv, TypeOK, SendCallbackThrows
<1>2. /\ UNCHANGED <<requests, sent, late, alive>>
      /\ errCalls' = [errCalls EXCEPT ![serving] = @ + 1]
  BY DEF SendCallbackThrows, pollerVars
<1>3. ASSUME NEW q \in Requests PROVE Outcome(q)' = Outcome(q)
  <2>1. q \in sent \/ errCalls'[q] = errCalls[q]
    BY <1>1, <1>2 DEF IInv, TypeOK
  <2>2. QED
    BY <1>2, <2>1 DEF Outcome, Queued
<1>4. QED
  BY <1>2, <1>3 DEF Service!vars

LEMMA RefinesForget == ASSUME IInv, NEW r \in Requests, Forget(r) PROVE Service!Forget(r)
<1>1. /\ UNCHANGED <<requests, late, alive>>
      /\ sent' = sent \ {r}
      /\ errCalls' = [errCalls EXCEPT ![r] = 0]
      /\ ~Queued(r)
  BY DEF Forget, pollerVars, jsVars
<1>2. Outcome(r) \in {"transmitted", "failed"}
  BY DEF Forget, Answered, Outcome, IInv, TypeOK, VerdictMatchesWire
<1>3. Outcome(r)' = "none"
  BY <1>1 DEF Outcome, Queued, IInv, TypeOK
<1>4. ASSUME NEW q \in Requests, q # r PROVE Outcome(q)' = Outcome(q)
  BY <1>1, <1>4 DEF Outcome, Queued, IInv, TypeOK
<1>5. QED
  BY <1>1, <1>2, <1>3, <1>4 DEF Service!Forget

LEMMA RefinesNext == IInv /\ [Next]_vars => [Service!Next]_Service!vars
<1>1. SUFFICES ASSUME IInv, [Next]_vars PROVE [Service!Next]_Service!vars
  OBVIOUS
<1>2. CASE \E r \in Requests : Send(r)
  BY <1>1, <1>2, RefinesSend DEF Service!Next
<1>3. CASE Close
  BY <1>1, <1>3, RefinesClose DEF Service!Next
<1>4. CASE OnSendNext
  BY <1>1, <1>4, RefinesOnSendNext DEF Service!Next
<1>5. CASE SendCallbackThrows
  BY <1>1, <1>5, RefinesSendCallbackThrows
<1>6. CASE \/ UserReturns \/ MessageListenerThrows \/ UncaughtThrow
           \/ \E revents \in SUBSET RW_EVENT : PollReady(revents)
           \/ PollError \/ OnRecv \/ OnSendIdle \/ DeletedPollerCrashes
           \/ IoEventReturns \/ LoopCloses \/ Network \/ UNCHANGED vars
  <2>1. UNCHANGED <<requests, sent, errCalls, late, alive>>
    BY <1>6 DEF UserReturns, MessageListenerThrows, UncaughtThrow, PollReady, IoEventBegins,
       PollError, IoEventFails, OnRecv, OnSendIdle, PauseSending, SetEvents, UvSetEvents,
       NullSetEvents, DeletedPollerCrashes, IoEventReturns, LoopCloses, OnClose, Network,
       vars, pollerVars, jsVars, historyVars
  <2>2. QED
    BY <2>1, RefinesStutter
<1>7. CASE \E r \in Requests : Forget(r)
  BY <1>1, <1>7, RefinesForget DEF Service!Next
<1>8. QED
  BY <1>1, <1>2, <1>3, <1>4, <1>5, <1>6, <1>7 DEF Next, OnSend

\* The event path of the socket implements the abstract send service.
THEOREM Refinement == Spec => ImplementsSendService
<1>1. QED
  BY RefinesInit, RefinesNext, Invariant, PTL DEF Spec, Service!Spec, ImplementsSendService
=============================================================================
