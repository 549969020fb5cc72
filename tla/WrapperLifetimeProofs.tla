------------------------ MODULE WrapperLifetimeProofs ------------------------
(* Theorems about WrapperLifetime, for any Wrappers and descriptors.       *)
EXTENDS WrapperLifetime, TLAPS

\* LifetimeInv in three parts: types, what one Wrapper keeps, whose a descriptor is.
Kept(w) ==
    /\ constructor = "empty" => phase[w] = "none"
    /\ poller[w] = "uv" <=> handle[w] = "polling"
    /\ handle[w] = "polling" => phase[w] = "alive"
    /\ phase[w] \in {"none", "rejected", "halfbuilt"} => handle[w] = "none"
    /\ phase[w] \in {"alive", "dying"} => handle[w] # "none"
    /\ phase[w] \in {"dying", "dead"} => handle[w] # "polling" /\ w \notin pinned
    /\ phase[w] = "dead" => handle[w] # "none"
    /\ phase[w] = "alive" => w \in pinned
    /\ w \in Holding /\ running = w => phase[w] = "alive"

Owns(w) ==
    /\ phase[w] \in {"alive", "dying"} => fd[w] \in Fds /\ table[fd[w]] = w
    /\ phase[w] \in {"none", "rejected", "dead"} => \A f \in Fds : table[f] # w
    /\ \A f \in Fds : table[f] = w => fd[w] = f

Parts ==
    /\ LifetimeTypeOK
    /\ \A w \in Wrappers : Kept(w)
    /\ \A w \in Wrappers : Owns(w)

\* The parts are the inductive invariant.
LEMMA PartsAreInv == LifetimeInv <=> Parts
<1>1. ASSUME LifetimeInv PROVE Parts
  <2>1. ASSUME NEW w \in Wrappers PROVE Kept(w)
    <3>1. /\ poller[w] = "uv" <=> handle[w] = "polling"
          /\ handle[w] = "polling" => phase[w] = "alive"
          /\ w \in Holding /\ running = w => phase[w] = "alive"
      BY <1>1 DEF LifetimeInv, PointerMatchesHandle, PolledLives, CalledWrapperLives
    <3>2. phase[w] = "dead" =>
              handle[w] # "none" /\ handle[w] # "polling" /\ w \notin pinned
      BY <1>1 DEF LifetimeInv, DeadHoldsNothing
    <3>3. /\ constructor = "empty" => phase[w] = "none"
          /\ phase[w] \in {"none", "rejected", "halfbuilt"} => handle[w] = "none"
          /\ phase[w] \in {"alive", "dying"} => handle[w] # "none"
          /\ phase[w] = "dying" => handle[w] # "polling" /\ w \notin pinned
          /\ phase[w] = "alive" => w \in pinned
      BY <1>1 DEF LifetimeInv
    <3> QED BY <3>1, <3>2, <3>3 DEF Kept
  <2>2. ASSUME NEW w \in Wrappers PROVE Owns(w)
    BY <1>1, <2>2 DEF LifetimeInv, Owns, DeadHoldsNothing
  <2> QED BY <1>1, <2>1, <2>2 DEF LifetimeInv, Parts
<1>2. ASSUME Parts PROVE LifetimeInv
  <2>1. PolledLives /\ PointerMatchesHandle /\ CalledWrapperLives
    BY <1>2, LifetimeAssumption
       DEF Parts, Kept, Owns, PolledLives, PointerMatchesHandle, CalledWrapperLives
  <2>2. ASSUME NEW w \in Wrappers, phase[w] = "dead"
        PROVE  handle[w] \in {"closing", "freed"} /\ w \notin pinned
    BY <1>2, <2>2 DEF Parts, Kept, LifetimeTypeOK
  <2>3. DeadHoldsNothing
    BY <1>2, <2>2 DEF Parts, Owns, DeadHoldsNothing
  <2> QED BY <1>2, <2>1, <2>3 DEF Parts, Kept, Owns, LifetimeInv
<1> QED BY <1>1, <1>2

LEMMA InitParts == Init => Parts
  BY LifetimeAssumption DEF Init, Parts, Kept, Owns, LifetimeTypeOK

\* Steps that take a descriptor: those of the constructor.
LEMMA NewKeeps ==
    ASSUME Parts, NEW w \in Wrappers, New(w) \/ NewWithoutPoller(w)
    PROVE  Parts'
<1>1. PICK f \in Fds : Allocate(w, f)
  BY DEF New, NewWithoutPoller
<1>2. LifetimeTypeOK'
  BY <1>1 DEF Parts, LifetimeTypeOK, New, NewWithoutPoller, Allocate
<1>3. ASSUME NEW v \in Wrappers PROVE Kept(v)'
  BY <1>1, <1>3 DEF Parts, LifetimeTypeOK, Kept, New, NewWithoutPoller, Allocate
<1>4. ASSUME NEW v \in Wrappers PROVE Owns(v)'
  BY <1>1, <1>4, LifetimeAssumption
     DEF Parts, LifetimeTypeOK, Owns, New, NewWithoutPoller, Allocate
<1> QED BY <1>2, <1>3, <1>4 DEF Parts

\* The step that gives one back.
LEMMA DeleteSocketKeeps ==
    ASSUME Parts, NEW w \in Wrappers, DeleteSocket(w)
    PROVE  Parts'
<1>1. LifetimeTypeOK'
  BY DEF Parts, LifetimeTypeOK, DeleteSocket
<1>2. ASSUME NEW v \in Wrappers PROVE Kept(v)'
  BY <1>2 DEF Parts, LifetimeTypeOK, Kept, DeleteSocket
<1>3. ASSUME NEW v \in Wrappers PROVE Owns(v)'
  BY <1>3, LifetimeAssumption DEF Parts, LifetimeTypeOK, Owns, DeleteSocket
<1> QED BY <1>1, <1>2, <1>3 DEF Parts

LEMMA OtherThreadKeeps ==
    ASSUME Parts, NEW f \in Fds, OtherThread(f)
    PROVE  Parts'
<1>1. LifetimeTypeOK'
  BY DEF Parts, LifetimeTypeOK, OtherThread
<1>2. ASSUME NEW v \in Wrappers PROVE Kept(v)'
  BY <1>2 DEF Parts, Kept, OtherThread
<1>3. ASSUME NEW v \in Wrappers PROVE Owns(v)'
  BY <1>3, LifetimeAssumption DEF Parts, LifetimeTypeOK, Owns, OtherThread
<1> QED BY <1>1, <1>2, <1>3 DEF Parts

\* All others leave the descriptors alone.
Elsewhere(w) ==
    \/ NewRejected(w) \/ NewWithoutSocket(w) \/ UserForgets(w) \/ Close(w)
    \/ Collect(w) \/ IoEvent(w) \/ HandleFreed(w)

LEMMA ElsewhereKeeps ==
    ASSUME Parts, NEW w \in Wrappers, Elsewhere(w)
    PROVE  Parts'
<1>1. CASE NewRejected(w) \/ NewWithoutSocket(w)
  <2>1. LifetimeTypeOK'
    BY <1>1 DEF Parts, LifetimeTypeOK, NewRejected, NewWithoutSocket
  <2>2. ASSUME NEW v \in Wrappers PROVE Kept(v)'
    BY <1>1, <2>2 DEF Parts, LifetimeTypeOK, Kept, NewRejected, NewWithoutSocket
  <2>3. ASSUME NEW v \in Wrappers PROVE Owns(v)'
    BY <1>1, <2>3 DEF Parts, LifetimeTypeOK, Owns, NewRejected, NewWithoutSocket
  <2> QED BY <2>1, <2>2, <2>3 DEF Parts
<1>2. CASE Close(w) \/ Collect(w)
  <2>1. LifetimeTypeOK'
    BY <1>2 DEF Parts, LifetimeTypeOK, Close, Collect, ClosedHandle
  <2>2. ASSUME NEW v \in Wrappers PROVE Kept(v)'
    BY <1>2, <2>2 DEF Parts, LifetimeTypeOK, Kept, Close, Collect, ClosedHandle, Reachable
  <2>3. ASSUME NEW v \in Wrappers PROVE Owns(v)'
    BY <1>2, <2>3 DEF Parts, LifetimeTypeOK, Owns, Close, Collect
  <2> QED BY <2>1, <2>2, <2>3 DEF Parts
<1>3. CASE UserForgets(w) \/ IoEvent(w) \/ HandleFreed(w)
  <2>1. LifetimeTypeOK'
    BY <1>3 DEF Parts, LifetimeTypeOK, UserForgets, IoEvent, HandleFreed
  <2>2. ASSUME NEW v \in Wrappers PROVE Kept(v)'
    BY <1>3, <2>2 DEF Parts, LifetimeTypeOK, Kept, UserForgets, IoEvent, HandleFreed
  <2>3. ASSUME NEW v \in Wrappers PROVE Owns(v)'
    BY <1>3, <2>3 DEF Parts, Owns, UserForgets, IoEvent, HandleFreed
  <2> QED BY <2>1, <2>2, <2>3 DEF Parts
<1> QED BY <1>1, <1>2, <1>3 DEF Elsewhere

LEMMA ReturnKeeps ==
    ASSUME Parts, InitModule \/ IoEventReturns \/ UNCHANGED vars
    PROVE  Parts'
<1>1. LifetimeTypeOK'
  BY DEF Parts, LifetimeTypeOK, InitModule, IoEventReturns, vars
<1>2. ASSUME NEW v \in Wrappers PROVE Kept(v)'
  BY <1>2, LifetimeAssumption DEF Parts, Kept, InitModule, IoEventReturns, vars
<1>3. ASSUME NEW v \in Wrappers PROVE Owns(v)'
  BY <1>3 DEF Parts, Owns, InitModule, IoEventReturns, vars
<1> QED BY <1>1, <1>2, <1>3 DEF Parts

\* LifetimeInv holds for any Wrappers, however many of them are closed, forgotten,
\* collected and constructed in any order (wrapper.cc lines 4 to 45, 72 to 123).
THEOREM Lifetimes == Spec => []LifetimeInv
<1>1. Init => Parts
  BY InitParts
<1>2. Parts /\ [Next]_vars => Parts'
  <2> SUFFICES ASSUME Parts, [Next]_vars PROVE Parts'
    OBVIOUS
  <2>1. CASE \E w \in Wrappers : New(w) \/ NewWithoutPoller(w)
    BY <2>1, NewKeeps
  <2>2. CASE \E w \in Wrappers : DeleteSocket(w)
    BY <2>2, DeleteSocketKeeps
  <2>3. CASE \E w \in Wrappers : Elsewhere(w)
    BY <2>3, ElsewhereKeeps
  <2>4. CASE \E f \in Fds : OtherThread(f)
    BY <2>4, OtherThreadKeeps
  <2>5. CASE InitModule \/ IoEventReturns \/ UNCHANGED vars
    BY <2>5, ReturnKeeps
  <2> QED BY <2>1, <2>2, <2>3, <2>4, <2>5 DEF Next, Elsewhere
<1> QED BY <1>1, <1>2, PartsAreInv, PTL DEF Spec

\* libuv polls for living Wrappers on their own descriptors only (wrapper.cc lines 32 to 44).
THEOREM PolledWrappersLive == Spec => []PolledLives
<1>1. LifetimeInv => PolledLives
  BY DEF LifetimeInv
<1> QED BY <1>1, Lifetimes, PTL

\* A handle is closed once (wrapper.cc lines 43, 121, 122).
THEOREM PointersMatchHandles == Spec => []PointerMatchesHandle
<1>1. LifetimeInv => PointerMatchesHandle
  BY DEF LifetimeInv
<1> QED BY <1>1, Lifetimes, PTL

\* A destroyed Wrapper holds nothing any more (wrapper.cc lines 39 to 45).
THEOREM DestroyedHoldNothing == Spec => []DeadHoldsNothing
<1>1. LifetimeInv => DeadHoldsNothing
  BY DEF LifetimeInv
<1> QED BY <1>1, Lifetimes, PTL

\* The Wrapper of a running function of socket.js is there (wrapper.cc lines 27 to 29).
THEOREM CalledWrappersLive == Spec => []CalledWrapperLives
<1>1. LifetimeInv => CalledWrapperLives
  BY DEF LifetimeInv
<1> QED BY <1>1, Lifetimes, PTL

\* A leak: close resets none of the persistent handles, so a Wrapper of socket.js is never
\* destroyed, closed or not, ~Socket never runs and its descriptor is never given back
\* (wrapper.cc lines 27 to 29 and 119 to 123).  SocketOpen has no ~Socket for this reason.
THEOREM HoldersNeverDestroyed ==
    Spec => [][\A w \in Holding : phase[w] = "alive" => phase'[w] = "alive"]_vars
<1>1. ASSUME LifetimeInv, [Next]_vars, NEW w \in Holding, phase[w] = "alive"
      PROVE  phase'[w] = "alive"
  <2>1. w \in Wrappers /\ Reachable(w) /\ LifetimeTypeOK
    BY <1>1, LifetimeAssumption DEF LifetimeInv, Reachable
  <2>2. ASSUME NEW v \in Wrappers, Collect(v) \/ DeleteSocket(v) PROVE v # w
    BY <2>1, <2>2, <1>1 DEF Collect, DeleteSocket
  <2>3. CASE \E v \in Wrappers : Collect(v) \/ DeleteSocket(v)
    BY <2>3, <2>2, <2>1, <1>1 DEF LifetimeTypeOK, Collect, DeleteSocket
  <2>4. CASE \E v \in Wrappers : NewRejected(v) \/ NewWithoutSocket(v)
    BY <2>4, <2>1, <1>1 DEF LifetimeTypeOK, NewRejected, NewWithoutSocket
  <2>5. CASE \E v \in Wrappers : NewWithoutPoller(v) \/ New(v)
    BY <2>5, <2>1, <1>1 DEF LifetimeTypeOK, NewWithoutPoller, New, Allocate
  <2>6. CASE \E v \in Wrappers : UserForgets(v) \/ Close(v) \/ IoEvent(v) \/ HandleFreed(v)
    BY <2>6, <2>1, <1>1 DEF LifetimeTypeOK, UserForgets, Close, IoEvent, HandleFreed
  <2>7. CASE InitModule \/ IoEventReturns \/ (\E f \in Fds : OtherThread(f)) \/ UNCHANGED vars
    BY <2>7, <1>1 DEF InitModule, IoEventReturns, OtherThread, vars
  <2> QED BY <2>3, <2>4, <2>5, <2>6, <2>7, <1>1 DEF Next
<1>2. LifetimeInv /\ [Next]_vars
         => [\A w \in Holding : phase[w] = "alive" => phase'[w] = "alive"]_vars
  BY <1>1
<1> QED BY <1>2, Lifetimes, PTL DEF Spec
=============================================================================
