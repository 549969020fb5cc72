--------------------------- MODULE ReceiveBuffers ---------------------------
(***************************************************************************)
(* The memory of Wrapper::Receive (src/src/wrapper.cc): who owns the three *)
(* blocks it allocates, on every path from malloc to the collector that    *)
(* frees the Buffers the listeners were given.                             *)
(*                                                                         *)
(* Receive runs on the JavaScript thread and does not nest; other threads  *)
(* allocate and free between any two of its calls, V8 collects while       *)
(* JavaScript runs.  node adopts a block before anything in NewBuffer can  *)
(* fail.  An AF_PACKET socket of an Ethernet device or of lo gives no      *)
(* frame shorter than its header, so the payload is empty or it is not.    *)
(***************************************************************************)
EXTENDS Naturals, FiniteSets

CONSTANTS
    Blocks,     \* what malloc may return
    Null,
    MaxRefs     \* bound: Buffers that one block may back when a call begins

ASSUME BuffersAssumption == Null \notin Blocks /\ MaxRefs \in Nat

VARIABLES
    pc,         \* where Receive is: the block it allocates next, or the call it makes
    at,         \* its three pointers
    owner,      \* whose each block is
    refs,       \* per block, the Buffers of node that have it as their memory
    emptied     \* a frame without payload has been received

vars == <<pc, at, owner, refs, emptied>>

Kinds == {"source", "destination", "message"}

BuffersTypeOK ==
    /\ pc \in Kinds \cup {"receive", "resize", "resizeEmpty", "adopt", "call"}
    /\ at \in [Kinds -> Blocks \cup {Null}]
    /\ owner \in [Blocks -> {"free", "receive", "node", "other"}]
    /\ refs \in [Blocks -> Nat]
    /\ emptied \in BOOLEAN

\* Between two calls Receive waits to allocate the first block.
Idle == pc = "source"

Nothing == [k \in Kinds |-> Null]

Init ==
    /\ Idle
    /\ at = Nothing
    /\ owner = [b \in Blocks |-> "free"]
    /\ refs = [b \in Blocks |-> 0]
    /\ emptied = FALSE

\* The heap after free(b) for the blocks of a set.
Freed(set) == [b \in Blocks |-> IF b \in set THEN "free" ELSE owner[b]]

\* return: the locals are gone.
Return == pc' = "source" /\ at' = Nothing

-----------------------------------------------------------------------------
(* Wrapper::Receive.                                                       *)

Following ==
    [source |-> "destination", destination |-> "message", message |-> "receive"]

Malloc ==
    /\ pc \in Kinds
    /\ Idle => \A b \in Blocks : refs[b] <= MaxRefs
    /\ \E b \in Blocks :
         /\ owner[b] = "free"
         /\ owner' = [owner EXCEPT ![b] = "receive"]
         /\ at' = [at EXCEPT ![pc] = b]
    /\ pc' = Following[pc]
    /\ UNCHANGED <<refs, emptied>>

\* Faulty variant: the third malloc's failure frees the source address only.
MallocFailsHalf ==
    /\ pc \in Kinds
    /\ owner' = Freed({at["source"]})
    /\ Return
    /\ UNCHANGED <<refs, emptied>>

\* malloc fails: what was allocated before is freed (the other pointers are Null).
MallocFails ==
    /\ pc \in Kinds
    /\ owner' = Freed({at["source"], at["destination"]})
    /\ Return
    /\ UNCHANGED <<refs, emptied>>

ReceiveMessage ==
    /\ pc = "receive"
    /\ \E next \in {"resize", "resizeEmpty"} :
         /\ pc' = next
         /\ emptied' = (emptied \/ next = "resizeEmpty")
    /\ UNCHANGED <<at, owner, refs>>

ReceiveMessageThrows ==
    /\ pc = "receive"
    /\ owner' = Freed({at[k] : k \in Kinds})
    /\ Return
    /\ UNCHANGED <<refs, emptied>>

\* Faulty variant: the block realloc returns is not taken.
ReallocForgets ==
    /\ pc = "resize"
    /\ pc' = "adopt"
    /\ \E b \in Blocks :
         /\ owner[b] = "free"
         /\ owner' = [Freed({at["message"]}) EXCEPT ![b] = "receive"]
    /\ UNCHANGED <<at, refs, emptied>>

\* realloc to the length of the payload: it shrinks in place, fails, or moves the block.
Realloc ==
    /\ pc = "resize"
    /\ pc' = "adopt"
    /\ \/ UNCHANGED <<at, owner>>
       \/ \E b \in Blocks :
            /\ owner[b] = "free"
            /\ owner' = [Freed({at["message"]}) EXCEPT ![b] = "receive"]
            /\ at' = [at EXCEPT !["message"] = b]
    /\ UNCHANGED <<refs, emptied>>

\* realloc to 0 bytes: the block is freed, NULL comes back, the old pointer stays.
ReallocEmpty ==
    /\ pc = "resizeEmpty"
    /\ pc' = "adopt"
    /\ owner' = Freed({at["message"]})
    /\ UNCHANGED <<at, refs, emptied>>

\* NewBuffer three times: node now frees each block when its Buffer is collected.
Adopted ==
    /\ owner' = [b \in Blocks |->
                   IF owner[b] = "receive" /\ \E k \in Kinds : at[k] = b
                   THEN "node" ELSE owner[b]]
    /\ refs' = [b \in Blocks |-> refs[b] + Cardinality({k \in Kinds : at[k] = b})]

NewBuffers ==
    /\ pc = "adopt"
    /\ Adopted
    /\ pc' = "call"
    /\ UNCHANGED <<at, emptied>>

\* Faulty variant: the error path frees what node has adopted.
NewBufferFailsFrees ==
    /\ pc = "adopt"
    /\ owner' = Freed({at[k] : k \in Kinds})
    /\ refs' = [b \in Blocks |-> refs[b] + Cardinality({k \in Kinds : at[k] = b})]
    /\ Return
    /\ UNCHANGED emptied

\* A NewBuffer comes back empty: Receive throws, and leaves all three to the collector.
NewBufferFails ==
    /\ pc = "adopt"
    /\ Adopted
    /\ Return
    /\ UNCHANGED emptied

\* MakeCallback comes back from the listeners.
CallbackReturns ==
    /\ pc = "call"
    /\ Return
    /\ UNCHANGED <<owner, refs, emptied>>

-----------------------------------------------------------------------------
(* The collector and the other threads.                                    *)

\* A Buffer whose memory is b is collected: not one that is being passed to listeners.
Collect(b) ==
    /\ Idle \/ pc = "call"
    /\ refs[b] > Cardinality({k \in Kinds : at[k] = b})
    /\ refs' = [refs EXCEPT ![b] = @ - 1]
    /\ owner' = Freed({b})
    /\ UNCHANGED <<pc, at, emptied>>

OtherThread(b) ==
    /\ \/ owner[b] = "free" /\ owner' = [owner EXCEPT ![b] = "other"]
       \/ owner[b] = "other" /\ owner' = Freed({b})
    /\ UNCHANGED <<pc, at, refs, emptied>>

Next ==
    \/ Malloc \/ MallocFails \/ ReceiveMessage \/ ReceiveMessageThrows
    \/ Realloc \/ ReallocEmpty \/ NewBuffers \/ NewBufferFails \/ CallbackReturns
    \/ \E b \in Blocks : Collect(b) \/ OtherThread(b)

Spec == Init /\ [][Next]_vars

-----------------------------------------------------------------------------
(* Properties.                                                             *)

\* A block is Receive's only while Receive points to it, and none is any more when the
\* listeners run: whichever call fails, in whatever order (wrapper.cc lines 208 to 247).
NothingLeaks ==
    \A b \in Blocks : owner[b] = "receive" => pc # "call" /\ \E k \in Kinds : at[k] = b

\* As long as every frame had a payload, a block that node has adopted backs exactly one
\* Buffer, and a Buffer's block is nobody else's: it is freed once, by the collector,
\* wherever realloc moved it (wrapper.cc lines 238 to 247).
OneBufferPerBlock ==
    ~emptied => \A b \in Blocks : refs[b] = IF owner[b] = "node" THEN 1 ELSE 0

\* Then also the three arguments of a "message" event share no memory with each other, and
\* none with another thread (wrapper.cc lines 249 to 255).
ListenersOwnBuffers ==
    pc = "call" /\ ~emptied =>
        /\ \A k \in Kinds : at[k] \in Blocks /\ owner[at[k]] = "node"
        /\ \A j, k \in Kinds : at[j] = at[k] => j = k

\* README.md line 52: the event contains a buffer with the message received.  The block
\* of a Buffer is node's.
BufferHasItsBlock == \A b \in Blocks : refs[b] > 0 => owner[b] = "node"

\* The pointers that hold a block at each point of Receive.
Allocated ==
    CASE pc = "source" -> {}
      [] pc = "destination" -> {"source"}
      [] pc = "message" -> {"source", "destination"}
      [] OTHER -> Kinds

\* The inductive invariant.
BuffersInv ==
    /\ BuffersTypeOK
    /\ NothingLeaks
    /\ OneBufferPerBlock
    /\ \A k \in Kinds : k \in Allocated <=> at[k] # Null
    /\ pc = "resizeEmpty" => emptied
    /\ ~emptied =>
        \A k \in Allocated :
            /\ owner[at[k]] = IF pc = "call" THEN "node" ELSE "receive"
            /\ \A j \in Allocated : at[j] = at[k] => j = k
=============================================================================
