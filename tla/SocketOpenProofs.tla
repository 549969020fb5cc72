-------------------------- MODULE SocketOpenProofs --------------------------
(* Theorems about SocketOpen, for any number of sockets, descriptors and   *)
(* interfaces.                                                             *)
EXTENDS SocketOpen, SequenceTheorems, FiniteSetTheorems, FunctionTheorems, TLAPS

LEMMA InitInv == Init => DescriptorInv
<1>1. ASSUME Init PROVE DescriptorInv
  <2>1. TypeOK
    BY <1>1, EmptySeq DEF Init, TypeOK
  <2>2. OwnDescriptor /\ NoOrphan
    BY <1>1, DescriptorAssumption DEF Init, OwnDescriptor, NoOrphan, Held, Constructing, Bound
  <2>3. QED
    BY <2>1, <2>2 DEF DescriptorInv
<1>2. QED
  BY <1>1

LEMMA CreateSocketInv ==
    ASSUME DescriptorInv, NEW s \in Sockets, CreateSocket(s)
    PROVE  DescriptorInv'
<1> USE DEF DescriptorInv, TypeOK
<1>1. PICK f \in Fds : /\ table[f] = Free
                       /\ table' = [table EXCEPT ![f] = s]
                       /\ fd' = [fd EXCEPT ![s] = f]
  BY DEF CreateSocket
<1>2. TypeOK'
  BY <1>1 DEF CreateSocket, Constructing
<1>3. \A t \in Sockets : Held(t)' <=> t = s \/ Held(t)
  BY DEF CreateSocket, Held, Constructing, Bound
<1>4. ~Held(s)
  BY DEF CreateSocket, Held, Constructing, Bound
<1>5. OwnDescriptor'
  BY <1>1, <1>3, DescriptorAssumption DEF OwnDescriptor
<1>6. NoOrphan'
  BY <1>1, <1>3, <1>4, DescriptorAssumption DEF NoOrphan
<1>7. QED
  BY <1>2, <1>5, <1>6

\* The steps of a constructor that succeed, a poll error and close only move the socket on.
LEMMA MoveOnInv ==
    ASSUME DescriptorInv, NEW s \in Sockets,
           Proceed(s) \/ BindSocket(s) \/ CreateSocketFails(s) \/ PollError(s) \/ Close(s)
    PROVE  DescriptorInv'
<1> USE DEF DescriptorInv, TypeOK
<1>1. fd' = fd /\ table' = table /\ queue' = queue
  BY DEF Proceed, BindSocket, CreateSocketFails, PollError, Close
<1>2. hook' \in [Sockets -> SUBSET Interfaces]
  <2>1. hook \in [Sockets -> SUBSET Interfaces]
    BY DEF DescriptorInv, TypeOK
  <2>2. hook' = hook \/ hook' = [hook EXCEPT ![s] = {Device}]
    BY DEF Proceed, BindSocket, CreateSocketFails, PollError, Close
  <2>3. {Device} \in SUBSET Interfaces
    BY DescriptorAssumption
  <2>4. [hook EXCEPT ![s] = {Device}] \in [Sockets -> SUBSET Interfaces]
    BY <2>1, <2>3
  <2>5. QED
    BY <2>1, <2>2, <2>4
<1>3. DOMAIN Following = {"created", "nonblocking", "indexed"}
  BY DEF Following
<1>4. step[s] \in DOMAIN Following => Following[step[s]] \in Constructing
  BY <1>3 DEF Following, Constructing
<1>5. PICK p \in Constructing \cup Bound \cup {"failed"} : step' = [step EXCEPT ![s] = p]
  BY <1>4 DEF Proceed, BindSocket, CreateSocketFails, PollError, Close, Bound
<1>6. TypeOK'
  BY <1>1, <1>2, <1>5
<1>7. Held(s)' <=> Held(s)
  BY <1>3, <1>4 DEF Proceed, BindSocket, CreateSocketFails, PollError, Close, Held,
     Constructing, Bound
<1>8. \A t \in Sockets : Held(t)' <=> Held(t)
  BY <1>5, <1>7 DEF Held
<1>9. OwnDescriptor' /\ NoOrphan'
  BY <1>1, <1>8 DEF OwnDescriptor, NoOrphan
<1>10. QED
  BY <1>6, <1>9

\* The catch block frees the socket's own descriptor, which no other socket has.
LEMMA ConstructorFailsInv ==
    ASSUME DescriptorInv, NEW s \in Sockets, ConstructorFails(s)
    PROVE  DescriptorInv'
<1> USE DEF DescriptorInv, TypeOK
<1>1. Held(s) /\ fd[s] \in Fds /\ table[fd[s]] = s
  BY DEF ConstructorFails, Held, OwnDescriptor
<1>2. TypeOK'
  BY <1>1, EmptySeq DEF ConstructorFails
<1>3. \A t \in Sockets : Held(t)' <=> t # s /\ Held(t)
  BY DEF ConstructorFails, Held, Constructing, Bound
<1>4. OwnDescriptor'
  BY <1>1, <1>3 DEF ConstructorFails, OwnDescriptor
<1>5. NoOrphan'
  BY <1>1, <1>3, DescriptorAssumption DEF ConstructorFails, NoOrphan
<1>6. QED
  BY <1>2, <1>4, <1>5

LEMMA QueueInv ==
    ASSUME DescriptorInv,
           \/ \E s \in Sockets : Deliver(s)
           \/ \E i \in Interfaces : FrameArrives(i)
    PROVE  DescriptorInv'
<1> USE DEF DescriptorInv, TypeOK
<1>1. step' = step /\ fd' = fd /\ table' = table /\ hook' = hook
  BY DEF Deliver, FrameArrives
<1>2. queue' \in [Sockets -> Seq(Interfaces)]
  <2>1. CASE \E i \in Interfaces : FrameArrives(i)
    <3>1. PICK i \in Interfaces : FrameArrives(i)
      BY <2>1
    <3>2. \A t \in Sockets : Append(queue[t], i) \in Seq(Interfaces)
      BY AppendProperties
    <3>3. QED
      BY <3>1, <3>2 DEF FrameArrives
  <2>2. CASE \E s \in Sockets : Deliver(s)
    <3>1. PICK s \in Sockets : Deliver(s)
      BY <2>2
    <3>2. Tail(queue[s]) \in Seq(Interfaces)
      BY <3>1, HeadTailProperties DEF Deliver
    <3>3. QED
      BY <3>1, <3>2 DEF Deliver
  <2>3. QED
    BY <2>1, <2>2
<1>3. OwnDescriptor' /\ NoOrphan'
  BY <1>1 DEF OwnDescriptor, NoOrphan, Held
<1>4. QED
  BY <1>1, <1>2, <1>3

\* Other threads take free descriptors and give back their own.
LEMMA OtherThreadInv ==
    ASSUME DescriptorInv, NEW f \in Fds, OtherThreadOpens(f) \/ OtherThreadCloses(f)
    PROVE  DescriptorInv'
<1> USE DEF DescriptorInv, TypeOK, OtherThreadOpens, OtherThreadCloses
<1>1. TypeOK'
  OBVIOUS
<1>2. OwnDescriptor' /\ NoOrphan'
  BY DescriptorAssumption DEF OwnDescriptor, NoOrphan, Held
<1>3. QED
  BY <1>1, <1>2

LEMMA NextInv == DescriptorInv /\ [Next]_vars => DescriptorInv'
<1>1. SUFFICES ASSUME DescriptorInv, [Next]_vars PROVE DescriptorInv'
  OBVIOUS
<1>2. CASE UNCHANGED vars
  BY <1>1, <1>2 DEF vars, DescriptorInv, TypeOK, OwnDescriptor, NoOrphan, Held
<1>3. CASE Next
  BY <1>1, <1>3, CreateSocketInv, MoveOnInv, ConstructorFailsInv, QueueInv, OtherThreadInv DEF Next
<1>4. QED
  BY <1>1, <1>2, <1>3

\* A socket and its descriptor know each other in every reachable state (socket.cc's
\* constructor with all its failures, wrapper.cc's Close).
THEOREM Descriptors == Spec => []DescriptorInv
<1>1. QED
  BY InitInv, NextInv, PTL DEF Spec

\* A socket never uses a descriptor that is not its own.
THEOREM DescriptorsOwn == Spec => []OwnDescriptor
<1>1. DescriptorInv => OwnDescriptor
  BY DEF DescriptorInv
<1>2. QED
  BY <1>1, Descriptors, PTL

\* A constructor that fails leaves no descriptor behind.
THEOREM DescriptorsNotLost == Spec => []NoOrphan
<1>1. DescriptorInv => NoOrphan
  BY DEF DescriptorInv
<1>2. QED
  BY <1>1, Descriptors, PTL

-----------------------------------------------------------------------------
(* Frames of other interfaces.                                             *)

LEMMA StrangersCount ==
    ASSUME NEW q \in Seq(Interfaces)
    PROVE  IsFiniteSet(StrangersIn(q)) /\ Cardinality(StrangersIn(q)) \in Nat
<1>1. IsFiniteSet(1 .. Len(q))
  BY LenProperties, FS_Interval
<1>2. StrangersIn(q) \in SUBSET (1 .. Len(q))
  BY DEF StrangersIn
<1>3. QED
  BY <1>1, <1>2, FS_Subset, FS_CardinalityType

\* Reading takes strangers away: those left were one place further back.
LEMMA StrangersOfTail ==
    ASSUME NEW q \in Seq(Interfaces), q # <<>>
    PROVE  Cardinality(StrangersIn(Tail(q))) <= Cardinality(StrangersIn(q))
<1> DEFINE before == [n \in StrangersIn(Tail(q)) |-> n + 1]
<1>1. /\ Len(Tail(q)) = Len(q) - 1
      /\ Len(q) \in Nat
      /\ \A n \in 1 .. Len(Tail(q)) : Tail(q)[n] = q[n + 1]
  BY HeadTailProperties, LenProperties
<1>2. \A n \in StrangersIn(Tail(q)) : n \in Nat /\ n + 1 \in StrangersIn(q)
  BY <1>1 DEF StrangersIn
<1>3. before \in Injection(StrangersIn(Tail(q)), StrangersIn(q))
  BY <1>2, Fun_IsInj
<1>4. QED
  BY <1>3, StrangersCount, FS_Injection

LEMMA StrangersOfAppend ==
    ASSUME NEW q \in Seq(Interfaces)
    PROVE  StrangersIn(Append(q, Device)) = StrangersIn(q)
<1>1. /\ Len(Append(q, Device)) = Len(q) + 1
      /\ \A n \in 1 .. Len(q) : Append(q, Device)[n] = q[n]
      /\ Append(q, Device)[Len(q) + 1] = Device
      /\ Len(q) \in Nat
  BY AppendProperties, LenProperties, DescriptorAssumption
<1>2. QED
  BY <1>1 DEF StrangersIn

\* From bind on the kernel queues frames of the device only.
HookInv == \A s \in Sockets : step[s] \in Bound => hook[s] = {Device}

LEMMA HookInvInit == Init => HookInv
  BY DEF Init, HookInv, Bound

LEMMA HookInvNext == DescriptorInv /\ HookInv /\ [Next]_vars => HookInv'
<1>1. SUFFICES ASSUME DescriptorInv, HookInv, [Next]_vars, NEW t \in Sockets, step'[t] \in Bound
               PROVE  hook'[t] = {Device}
  BY DEF HookInv
<1> USE DEF DescriptorInv, TypeOK
<1>2. CASE \E s \in Sockets : CreateSocket(s)
  BY <1>1, <1>2 DEF CreateSocket, HookInv, Bound
<1>3. CASE \E s \in Sockets : \/ CreateSocketFails(s) \/ ConstructorFails(s)
                              \/ PollError(s) \/ Close(s)
  BY <1>1, <1>3 DEF CreateSocketFails, ConstructorFails, PollError, Close, HookInv, Bound
<1>4. CASE \E s \in Sockets : Proceed(s)
  <2>1. PICK s \in Sockets : Proceed(s)
    BY <1>4
  <2>2. step'[s] \in Constructing
    BY <2>1 DEF Proceed, Following, Constructing
  <2>3. t # s
    BY <1>1, <2>2 DEF Constructing, Bound
  <2>4. step'[t] = step[t] /\ hook' = hook
    BY <2>1, <2>3 DEF Proceed
  <2>5. QED
    BY <1>1, <2>4 DEF HookInv
<1>5. CASE \E s \in Sockets : BindSocket(s)
  BY <1>1, <1>5 DEF BindSocket, HookInv, Bound
<1>6. CASE \/ \E s \in Sockets : Deliver(s)
           \/ \E i \in Interfaces : FrameArrives(i)
           \/ \E f \in Fds : OtherThreadOpens(f) \/ OtherThreadCloses(f)
           \/ UNCHANGED vars
  BY <1>1, <1>6 DEF Deliver, FrameArrives, OtherThreadOpens, OtherThreadCloses, vars, HookInv
<1>7. QED
  BY <1>1, <1>2, <1>3, <1>4, <1>5, <1>6 DEF Next

LEMMA StrangersStep ==
    ASSUME DescriptorInv, HookInv, Next, NEW t \in Sockets, step[t] \in Bound
    PROVE  Cardinality(Strangers(t)') <= Cardinality(Strangers(t))
<1> USE DEF DescriptorInv, TypeOK
<1>1. queue[t] \in Seq(Interfaces) /\ Cardinality(Strangers(t)) \in Nat
  BY StrangersCount DEF Strangers
<1>2. CASE queue'[t] = queue[t]
  BY <1>1, <1>2 DEF Strangers
<1>3. CASE queue[t] # <<>> /\ queue'[t] = Tail(queue[t])
  BY <1>1, <1>3, StrangersOfTail DEF Strangers
<1>4. CASE queue'[t] = Append(queue[t], Device)
  BY <1>1, <1>4, StrangersOfAppend DEF Strangers
<1>5. CASE \E s \in Sockets : Deliver(s)
  BY <1>2, <1>3, <1>5 DEF Deliver
<1>6. CASE \E i \in Interfaces : FrameArrives(i)
  BY <1>2, <1>4, <1>6 DEF FrameArrives, HookInv
<1>7. CASE \E s \in Sockets : ConstructorFails(s)
  BY <1>2, <1>7 DEF ConstructorFails, Constructing, Bound
<1>8. CASE \/ \E s \in Sockets : \/ CreateSocket(s) \/ CreateSocketFails(s)
                                 \/ Proceed(s) \/ BindSocket(s) \/ PollError(s) \/ Close(s)
           \/ \E f \in Fds : OtherThreadOpens(f) \/ OtherThreadCloses(f)
  BY <1>2, <1>8 DEF CreateSocket, CreateSocketFails, Proceed, BindSocket, PollError,
     Close, OtherThreadOpens, OtherThreadCloses
<1>9. QED
  BY <1>5, <1>6, <1>7, <1>8 DEF Next

\* After bind no frame of another interface is queued any more (socket.cc line 42).
THEOREM NoStrangersAfterBind == Spec => NoNewStrangers
<1> DEFINE Fewer == \A s \in Sockets :
                      step[s] \in Bound => Cardinality(Strangers(s)') <= Cardinality(Strangers(s))
<1>1. DescriptorInv /\ HookInv /\ [Next]_vars => [Fewer]_vars
  BY StrangersStep
<1>2. Spec => []HookInv
  BY HookInvInit, HookInvNext, Descriptors, PTL DEF Spec
<1>3. QED
  BY <1>1, <1>2, Descriptors, PTL DEF Spec, NoNewStrangers
=============================================================================
