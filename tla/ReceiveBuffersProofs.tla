------------------------ MODULE ReceiveBuffersProofs ------------------------
(* Theorems about ReceiveBuffers, for any number of blocks.                *)
EXTENDS ReceiveBuffers, FiniteSetTheorems, TLAPS

\* How often a block is among the three pointers.
Uses(b) == {k \in Kinds : at[k] = b}

LEMMA UsesCounted ==
    ASSUME NEW b
    PROVE  /\ Cardinality(Uses(b)) \in Nat
           /\ Uses(b) = {} => Cardinality(Uses(b)) = 0
           /\ \A k \in Kinds : Uses(b) = {k} => Cardinality(Uses(b)) = 1
           /\ Uses(b) # {} => Cardinality(Uses(b)) > 0
<1>1. IsFiniteSet(Kinds)
  <2>1. IsFiniteSet({"source"})
    BY FS_Singleton
  <2>2. IsFiniteSet({"source"} \cup {"destination"})
    BY <2>1, FS_AddElement
  <2>3. IsFiniteSet(({"source"} \cup {"destination"}) \cup {"message"})
    BY <2>2, FS_AddElement
  <2>4. Kinds = ({"source"} \cup {"destination"}) \cup {"message"}
    BY DEF Kinds
  <2> QED BY <2>3, <2>4
<1>2. IsFiniteSet(Uses(b))
  BY <1>1, FS_Subset DEF Uses
<1>3. Cardinality(Uses(b)) \in Nat
  BY <1>2, FS_CardinalityType
<1>4. Uses(b) = {} <=> Cardinality(Uses(b)) = 0
  BY <1>2, FS_EmptySet
<1>5. ASSUME NEW k \in Kinds, Uses(b) = {k} PROVE Cardinality(Uses(b)) = 1
  BY <1>5, FS_Singleton
<1>6. Uses(b) # {} => Cardinality(Uses(b)) > 0
  BY <1>3, <1>4
<1> QED BY <1>3, <1>4, <1>5, <1>6

\* The parts of the invariant: types and pointers, ownership, and while no frame was empty.
Pointers ==
    /\ BuffersTypeOK
    /\ \A k \in Kinds : k \in Allocated <=> at[k] # Null
    /\ pc = "resizeEmpty" => emptied

Sound ==
    ~emptied =>
        /\ \A b \in Blocks : refs[b] = IF owner[b] = "node" THEN 1 ELSE 0
        /\ \A k \in Allocated :
            /\ owner[at[k]] = IF pc = "call" THEN "node" ELSE "receive"
            /\ \A j \in Allocated : at[j] = at[k] => j = k

LEMMA InvParts == BuffersInv <=> Pointers /\ NothingLeaks /\ Sound
<1>1. BuffersInv => Pointers /\ NothingLeaks
  BY DEF BuffersInv, Pointers
<1>2. BuffersInv => Sound
  BY DEF BuffersInv, Sound, OneBufferPerBlock
<1>3. Pointers /\ NothingLeaks /\ Sound => BuffersInv
  BY DEF BuffersInv, Pointers, Sound, OneBufferPerBlock
<1> QED BY <1>1, <1>2, <1>3

LEMMA InitParts == Init => Pointers /\ NothingLeaks /\ Sound
<1> SUFFICES ASSUME Init PROVE Pointers /\ NothingLeaks /\ Sound
  OBVIOUS
<1>1. Allocated = {} /\ \A k \in Kinds : at[k] = Null
  BY DEF Init, Idle, Nothing, Allocated
<1>2. BuffersTypeOK
  BY DEF Init, Idle, Nothing, BuffersTypeOK, Kinds
<1>3. Pointers
  BY <1>1, <1>2 DEF Init, Idle, Pointers
<1>4. NothingLeaks /\ Sound
  BY <1>1 DEF Init, NothingLeaks, Sound
<1> QED BY <1>3, <1>4

LEMMA MallocInv ==
    ASSUME Pointers, NothingLeaks, Sound, Malloc
    PROVE  (Pointers /\ NothingLeaks /\ Sound)'
<1>1. PICK b \in Blocks :
        /\ owner[b] = "free"
        /\ owner' = [owner EXCEPT ![b] = "receive"]
        /\ at' = [at EXCEPT ![pc] = b]
  BY DEF Malloc
<1>2. pc \in Kinds /\ pc' = Following[pc] /\ UNCHANGED <<refs, emptied>>
  BY DEF Malloc
<1>3. pc \notin Allocated /\ Allocated' = Allocated \cup {pc} /\ pc' \in Kinds \cup {"receive"}
  BY <1>2 DEF Allocated, Kinds, Following
<1>4. at[pc] = Null
  BY <1>2, <1>3 DEF Pointers
<1>5. BuffersTypeOK'
  BY <1>1, <1>2, <1>3 DEF Pointers, BuffersTypeOK
<1>6. Pointers'
  BY <1>1, <1>2, <1>3, <1>5, BuffersAssumption DEF Pointers, BuffersTypeOK, Kinds
<1>7. NothingLeaks'
  BY <1>1, <1>2, <1>3, <1>4, BuffersAssumption
     DEF Pointers, BuffersTypeOK, NothingLeaks, Kinds
<1>8. Sound'
  <2>1. pc # "call" /\ pc' # "call"
    BY <1>2, <1>3 DEF Kinds
  <2>2. ASSUME ~emptied, NEW k \in Allocated PROVE at[k] # b /\ k # pc /\ k \in Kinds
    BY <2>1, <2>2, <1>1, <1>3 DEF Sound, Allocated, Kinds
  <2>3. ASSUME ~emptied', NEW k \in Allocated'
        PROVE  /\ owner'[at'[k]] = "receive"
               /\ \A j \in Allocated' : at'[j] = at'[k] => j = k
    BY <2>1, <2>2, <2>3, <1>1, <1>2, <1>3 DEF Sound, Pointers, BuffersTypeOK
  <2>4. ASSUME ~emptied', NEW c \in Blocks
        PROVE  refs'[c] = IF owner'[c] = "node" THEN 1 ELSE 0
    BY <2>4, <1>1, <1>2 DEF Sound, Pointers, BuffersTypeOK
  <2> QED BY <2>1, <2>3, <2>4 DEF Sound
<1> QED BY <1>6, <1>7, <1>8

\* Paths that free what Receive allocated.
LEMMA FailInv ==
    ASSUME Pointers, NothingLeaks, Sound, MallocFails \/ ReceiveMessageThrows
    PROVE  (Pointers /\ NothingLeaks /\ Sound)'
<1>1. /\ pc' = "source" /\ at' = Nothing /\ UNCHANGED <<refs, emptied>>
      /\ pc \in Kinds \cup {"receive"}
  BY DEF MallocFails, ReceiveMessageThrows, Return
<1>2. PICK set : /\ owner' = Freed(set)
                 /\ \A k \in Allocated : at[k] \in set
                 /\ \A b \in set : b # Null => \E k \in Allocated : at[k] = b
  <2>1. CASE MallocFails
    BY <2>1 DEF MallocFails, Allocated, Kinds, Pointers
  <2>2. CASE ReceiveMessageThrows
    BY <2>2 DEF ReceiveMessageThrows, Allocated, Kinds
  <2> QED BY <2>1, <2>2
<1>3. owner' \in [Blocks -> {"free", "receive", "node", "other"}]
  BY <1>2 DEF Freed, Pointers, BuffersTypeOK
<1>4. Pointers'
  BY <1>1, <1>3 DEF Pointers, BuffersTypeOK, Nothing, Allocated, Kinds
<1>5. NothingLeaks'
  BY <1>2, BuffersAssumption DEF NothingLeaks, Pointers, Freed
<1>6. Sound'
  <2>1. Allocated' = {}
    BY <1>1 DEF Allocated
  <2>2. ASSUME ~emptied, NEW b \in Blocks
        PROVE  refs[b] = IF owner'[b] = "node" THEN 1 ELSE 0
    <3>1. b \in set => owner[b] = "receive"
      BY <1>1, <1>2, <2>2, BuffersAssumption DEF Sound, Kinds
    <3> QED BY <1>2, <2>2, <3>1 DEF Sound, Freed
  <2> QED BY <1>1, <2>1, <2>2 DEF Sound
<1> QED BY <1>4, <1>5, <1>6

LEMMA ReceivedInv ==
    ASSUME Pointers, NothingLeaks, Sound, ReceiveMessage
    PROVE  (Pointers /\ NothingLeaks /\ Sound)'
<1>1. /\ pc = "receive" /\ pc' \in {"resize", "resizeEmpty"}
      /\ emptied' \in BOOLEAN /\ (emptied => emptied')
      /\ pc' = "resizeEmpty" => emptied'
      /\ UNCHANGED <<at, owner, refs>>
  BY DEF ReceiveMessage, Pointers, BuffersTypeOK
<1>2. Allocated = Kinds /\ Allocated' = Kinds
  BY <1>1 DEF Allocated
<1>3. Pointers'
  BY <1>1, <1>2 DEF Pointers, BuffersTypeOK
<1>4. NothingLeaks' /\ Sound'
  BY <1>1, <1>2 DEF NothingLeaks, Sound
<1> QED BY <1>3, <1>4

LEMMA ReallocInv ==
    ASSUME Pointers, NothingLeaks, Sound, Realloc
    PROVE  (Pointers /\ NothingLeaks /\ Sound)'
<1>1. /\ pc = "resize" /\ pc' = "adopt" /\ UNCHANGED <<refs, emptied>>
      /\ Allocated = Kinds /\ Allocated' = Kinds
  BY DEF Realloc, Allocated
<1>2. CASE UNCHANGED <<at, owner>>
  BY <1>1, <1>2 DEF Pointers, BuffersTypeOK, NothingLeaks, Sound
<1>3. CASE \E b \in Blocks :
             /\ owner[b] = "free"
             /\ owner' = [Freed({at["message"]}) EXCEPT ![b] = "receive"]
             /\ at' = [at EXCEPT !["message"] = b]
  <2>1. PICK b \in Blocks :
          /\ owner[b] = "free"
          /\ owner' = [Freed({at["message"]}) EXCEPT ![b] = "receive"]
          /\ at' = [at EXCEPT !["message"] = b]
    BY <1>3
  <2>2. at["message"] \in Blocks
    BY <1>1 DEF Pointers, BuffersTypeOK, Kinds
  <2>3. \A c \in Blocks : owner'[c] = IF c = b THEN "receive"
                                      ELSE IF c = at["message"] THEN "free" ELSE owner[c]
    BY <2>1 DEF Freed
  <2>4. owner' \in [Blocks -> {"free", "receive", "node", "other"}]
    BY <2>1 DEF Freed, Pointers, BuffersTypeOK
  <2>5. Pointers'
    BY <1>1, <2>1, <2>4, BuffersAssumption DEF Pointers, BuffersTypeOK, Kinds
  <2>6. at'["message"] = b /\ \A k \in Kinds \ {"message"} : at'[k] = at[k]
    BY <2>1 DEF Pointers, BuffersTypeOK, Kinds
  <2>7. NothingLeaks'
    BY <1>1, <2>3, <2>6 DEF NothingLeaks, Kinds
  <2>8. Sound'
    <3>1. ASSUME ~emptied
          PROVE  /\ \A k \in Kinds : owner[at[k]] = "receive" /\ at[k] # b /\ at[k] \in Blocks
                 /\ \A j, k \in Kinds : at[j] = at[k] => j = k
      BY <1>1, <2>1, <3>1 DEF Sound, Pointers, BuffersTypeOK
    <3>2. ASSUME ~emptied, NEW c \in Blocks
          PROVE  refs[c] = IF owner'[c] = "node" THEN 1 ELSE 0
      BY <2>1, <2>2, <2>3, <3>1, <3>2 DEF Sound, Kinds
    <3>3. ASSUME ~emptied, NEW k \in Kinds
          PROVE  owner'[at'[k]] = "receive" /\ \A j \in Kinds : at'[j] = at'[k] => j = k
      BY <2>3, <2>6, <3>1, <3>3 DEF Kinds
    <3> QED BY <1>1, <3>2, <3>3 DEF Sound
  <2> QED BY <2>5, <2>7, <2>8
<1> QED BY <1>2, <1>3 DEF Realloc

LEMMA ReallocEmptyInv ==
    ASSUME Pointers, NothingLeaks, Sound, ReallocEmpty
    PROVE  (Pointers /\ NothingLeaks /\ Sound)'
<1>1. /\ pc = "resizeEmpty" /\ pc' = "adopt" /\ UNCHANGED <<at, refs, emptied>>
      /\ Allocated = Kinds /\ Allocated' = Kinds /\ emptied
  BY DEF ReallocEmpty, Allocated, Pointers
<1>2. owner' \in [Blocks -> {"free", "receive", "node", "other"}]
  BY DEF ReallocEmpty, Freed, Pointers, BuffersTypeOK
<1>3. Pointers'
  BY <1>1, <1>2 DEF Pointers, BuffersTypeOK
<1>4. NothingLeaks'
  BY <1>1 DEF ReallocEmpty, Freed, NothingLeaks
<1> QED BY <1>1, <1>3, <1>4 DEF Sound

\* NewBuffer, whether the three come back or not: the locals stay for the call or go.
LEMMA NewBuffersInv ==
    ASSUME Pointers, NothingLeaks, Sound, NewBuffers \/ NewBufferFails
    PROVE  (Pointers /\ NothingLeaks /\ Sound)'
<1>1. /\ pc = "adopt" /\ emptied' = emptied /\ Allocated = Kinds
      /\ \/ pc' = "call" /\ at' = at
         \/ pc' = "source" /\ at' = Nothing
  BY DEF NewBuffers, NewBufferFails, Return, Allocated
<1>2. \A b \in Blocks :
        /\ owner'[b] = IF owner[b] = "receive" /\ Uses(b) # {} THEN "node" ELSE owner[b]
        /\ refs'[b] = refs[b] + Cardinality(Uses(b))
  BY DEF NewBuffers, NewBufferFails, Adopted, Uses
<1>3. owner' \in [Blocks -> {"free", "receive", "node", "other"}]
  BY DEF NewBuffers, NewBufferFails, Adopted, Pointers, BuffersTypeOK
<1>4. refs' \in [Blocks -> Nat]
  <2>1. refs' = [b \in Blocks |-> refs[b] + Cardinality(Uses(b))]
    BY DEF NewBuffers, NewBufferFails, Adopted, Uses
  <2>2. \A b \in Blocks : refs[b] + Cardinality(Uses(b)) \in Nat
    BY UsesCounted DEF Pointers, BuffersTypeOK
  <2> QED BY <2>1, <2>2
<1>5. Pointers'
  BY <1>1, <1>3, <1>4 DEF Pointers, BuffersTypeOK, Nothing, Allocated, Kinds
<1>6. ASSUME NEW b \in Blocks PROVE owner'[b] # "receive"
  <2>1. owner[b] = "receive" => Uses(b) # {}
    BY DEF NothingLeaks, Uses
  <2> QED BY <1>2, <2>1
<1>7. Sound'
  <2>1. ASSUME ~emptied, NEW k \in Kinds
        PROVE  at[k] \in Blocks /\ owner[at[k]] = "receive" /\ Uses(at[k]) = {k}
    BY <1>1, <2>1 DEF Sound, Pointers, BuffersTypeOK, Uses
  <2>2. ASSUME ~emptied, NEW b \in Blocks
        PROVE  refs'[b] = IF owner'[b] = "node" THEN 1 ELSE 0
    <3>1. refs[b] = IF owner[b] = "node" THEN 1 ELSE 0
      BY <2>2 DEF Sound
    <3>2. CASE Uses(b) = {}
      BY <1>2, <3>1, <3>2, UsesCounted
    <3>3. CASE Uses(b) # {}
      <4>1. PICK k \in Kinds : at[k] = b
        BY <3>3 DEF Uses
      <4>2. Uses(b) = {k} /\ owner[b] = "receive"
        BY <4>1, <2>1, <2>2
      <4>3. Cardinality(Uses(b)) = 1 /\ refs[b] = 0
        BY <4>2, <3>1, UsesCounted
      <4> QED BY <1>2, <4>2, <4>3, <3>3
    <3> QED BY <3>2, <3>3
  <2>3. CASE pc' = "source"
    BY <2>2, <2>3, <1>1 DEF Sound, Allocated
  <2>4. CASE pc' = "call" /\ at' = at
    <3>1. Allocated' = Kinds
      BY <2>4 DEF Allocated
    <3>2. ASSUME ~emptied, NEW k \in Kinds
          PROVE  owner'[at[k]] = "node" /\ \A j \in Kinds : at[j] = at[k] => j = k
      <4>1. owner'[at[k]] = "node"
        BY <3>2, <2>1, <1>2
      <4>2. ASSUME NEW j \in Kinds, at[j] = at[k] PROVE j = k
        <5>1. j \in Uses(at[k])
          BY <4>2 DEF Uses
        <5> QED BY <5>1, <3>2, <2>1
      <4> QED BY <4>1, <4>2
    <3> QED BY <2>2, <2>4, <3>1, <3>2, <1>1 DEF Sound
  <2> QED BY <2>3, <2>4, <1>1
<1> QED BY <1>5, <1>6, <1>7 DEF NothingLeaks

LEMMA CallbackReturnsInv ==
    ASSUME Pointers, NothingLeaks, Sound, CallbackReturns
    PROVE  (Pointers /\ NothingLeaks /\ Sound)'
<1>1. pc = "call" /\ pc' = "source" /\ at' = Nothing /\ UNCHANGED <<owner, refs, emptied>>
  BY DEF CallbackReturns, Return
<1>2. Pointers'
  BY <1>1 DEF Pointers, BuffersTypeOK, Nothing, Allocated, Kinds
<1>3. Allocated' = {}
  BY <1>1 DEF Allocated
<1>4. NothingLeaks' /\ Sound'
  BY <1>1, <1>3 DEF NothingLeaks, Sound
<1> QED BY <1>2, <1>4

\* Pointers and locals stay as they are when V8 collects and other threads run.
LEMMA CollectInv ==
    ASSUME Pointers, NothingLeaks, Sound, NEW b \in Blocks, Collect(b)
    PROVE  (Pointers /\ NothingLeaks /\ Sound)'
<1>1. /\ pc = "source" \/ pc = "call"
      /\ refs' = [refs EXCEPT ![b] = @ - 1]
      /\ owner' = [c \in Blocks |-> IF c = b THEN "free" ELSE owner[c]]
      /\ UNCHANGED <<pc, at, emptied>>
      /\ refs[b] > Cardinality(Uses(b))
  BY DEF Collect, Idle, Freed, Uses
<1>2. refs[b] \in Nat /\ refs[b] > 0 /\ (Uses(b) # {} => refs[b] > 1)
  BY <1>1, UsesCounted DEF Pointers, BuffersTypeOK
<1>3. refs' \in [Blocks -> Nat]
  BY <1>1, <1>2 DEF Pointers, BuffersTypeOK
<1>4. Allocated' = Allocated
  BY <1>1 DEF Allocated
<1>5. Pointers'
  BY <1>1, <1>3, <1>4 DEF Pointers, BuffersTypeOK
<1>6. NothingLeaks'
  BY <1>1 DEF NothingLeaks
<1>7. Sound'
  <2>1. ASSUME ~emptied PROVE owner[b] = "node" /\ refs[b] = 1 /\ Uses(b) = {}
    BY <2>1, <1>2 DEF Sound
  <2>2. ASSUME ~emptied, NEW c \in Blocks
        PROVE  refs'[c] = IF owner'[c] = "node" THEN 1 ELSE 0
    BY <2>1, <2>2, <1>1 DEF Sound, Pointers, BuffersTypeOK
  <2>3. ASSUME ~emptied, NEW k \in Allocated PROVE at[k] # b /\ at[k] \in Blocks
    BY <2>1, <2>3, <1>1 DEF Uses, Allocated, Pointers, BuffersTypeOK
  <2>4. ASSUME ~emptied, NEW k \in Allocated
        PROVE  owner'[at[k]] = IF pc = "call" THEN "node" ELSE "receive"
    BY <2>3, <2>4, <1>1 DEF Sound
  <2> QED BY <2>2, <2>4, <1>1, <1>4 DEF Sound
<1> QED BY <1>5, <1>6, <1>7

LEMMA OtherThreadInv ==
    ASSUME Pointers, NothingLeaks, Sound, NEW b \in Blocks, OtherThread(b)
    PROVE  (Pointers /\ NothingLeaks /\ Sound)'
<1>1. PICK o \in {"free", "other"} :
        /\ owner[b] \in {"free", "other"}
        /\ owner' = [c \in Blocks |-> IF c = b THEN o ELSE owner[c]]
        /\ UNCHANGED <<pc, at, refs, emptied>>
  BY DEF OtherThread, Freed, Pointers, BuffersTypeOK
<1>2. Allocated' = Allocated
  BY <1>1 DEF Allocated
<1>3. Pointers'
  BY <1>1, <1>2 DEF Pointers, BuffersTypeOK
<1>4. NothingLeaks'
  BY <1>1 DEF NothingLeaks
<1>5. Sound'
  <2>1. ASSUME ~emptied, NEW c \in Blocks
        PROVE  refs[c] = IF owner'[c] = "node" THEN 1 ELSE 0
    BY <2>1, <1>1 DEF Sound
  <2>2. ASSUME ~emptied, NEW k \in Allocated
        PROVE  /\ owner'[at[k]] = IF pc = "call" THEN "node" ELSE "receive"
               /\ \A j \in Allocated : at[j] = at[k] => j = k
    <3>1. k \in Kinds /\ at[k] # Null
      BY DEF Pointers, Allocated, Kinds
    <3>2. at[k] # b
      BY <2>2, <1>1 DEF Sound
    <3> QED BY <2>2, <3>1, <3>2, <1>1 DEF Sound, Pointers, BuffersTypeOK
  <2> QED BY <2>1, <2>2, <1>1, <1>2 DEF Sound
<1> QED BY <1>3, <1>4, <1>5

\* BuffersInv holds for a heap of any size (wrapper.cc lines 208 to 257).
THEOREM Buffers == Spec => []BuffersInv
<1>1. Init => Pointers /\ NothingLeaks /\ Sound
  BY InitParts
<1>2. ASSUME Pointers, NothingLeaks, Sound, [Next]_vars
      PROVE  (Pointers /\ NothingLeaks /\ Sound)'
  <2>1. CASE UNCHANGED vars
    BY <1>2, <2>1 DEF vars, Pointers, BuffersTypeOK, NothingLeaks, Sound, Allocated
  <2>2. CASE \E b \in Blocks : Collect(b) \/ OtherThread(b)
    BY <1>2, <2>2, CollectInv, OtherThreadInv
  <2>3. CASE Malloc \/ MallocFails \/ ReceiveMessage \/ ReceiveMessageThrows
    BY <1>2, <2>3, MallocInv, FailInv, ReceivedInv
  <2>4. CASE Realloc \/ ReallocEmpty \/ NewBuffers \/ NewBufferFails \/ CallbackReturns
    BY <1>2, <2>4, ReallocInv, ReallocEmptyInv, NewBuffersInv, CallbackReturnsInv
  <2> QED BY <1>2, <2>1, <2>2, <2>3, <2>4 DEF Next
<1>3. Pointers /\ NothingLeaks /\ Sound => BuffersInv
  BY InvParts
<1> QED BY <1>1, <1>2, <1>3, PTL DEF Spec

\* No path of Receive leaks a block (wrapper.cc lines 208 to 247).
THEOREM BuffersNotLost == Spec => []NothingLeaks
<1>1. BuffersInv => NothingLeaks
  BY DEF BuffersInv
<1> QED BY <1>1, Buffers, PTL

\* While every frame has a payload a block backs one Buffer (wrapper.cc lines 238 to 247).
THEOREM BuffersNotShared == Spec => []OneBufferPerBlock
<1>1. BuffersInv => OneBufferPerBlock
  BY DEF BuffersInv
<1> QED BY <1>1, Buffers, PTL

\* The three arguments of a "message" event share no memory (wrapper.cc lines 249 to 255).
THEOREM ListenersSafe == Spec => []ListenersOwnBuffers
<1>1. BuffersInv => ListenersOwnBuffers
  BY DEF BuffersInv, ListenersOwnBuffers, Allocated, BuffersTypeOK
<1> QED BY <1>1, Buffers, PTL
=============================================================================
