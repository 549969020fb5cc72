---------------------------- MODULE QueueLemmas ----------------------------
(* What push, Append here, and shift, Tail, do to the elements of a queue. *)
EXTENDS Integers, SequenceTheorems, TLAPS

\* A function on the first naturals is a sequence.
LEMMA FunctionIsSeq ==
    ASSUME NEW S, NEW n \in Nat, NEW f \in [1 .. n -> S]
    PROVE  f \in Seq(S)
BY SeqDef

\* push puts an element behind the others and leaves those where they are.
LEMMA PushedElements ==
    ASSUME NEW S, NEW q \in Seq(S), NEW e \in S
    PROVE  /\ Append(q, e) \in Seq(S)
           /\ \A n \in DOMAIN Append(q, e) :
                \/ n \in DOMAIN q /\ Append(q, e)[n] = q[n]
                \/ n = Len(q) + 1 /\ Append(q, e)[n] = e
           /\ \A n \in DOMAIN q :
                n \in DOMAIN Append(q, e) /\ Append(q, e)[n] = q[n] /\ n < Len(q) + 1
<1>1. /\ Append(q, e) \in Seq(S)
      /\ Len(Append(q, e)) = Len(q) + 1
      /\ \A i \in 1 .. Len(q) : Append(q, e)[i] = q[i]
      /\ Append(q, e)[Len(q) + 1] = e
      /\ Len(q) \in Nat
  BY AppendProperties, LenProperties
<1>2. DOMAIN q = 1 .. Len(q) /\ DOMAIN Append(q, e) = 1 .. Len(q) + 1
  BY <1>1, LenProperties
<1>3. QED
  BY <1>1, <1>2

\* shift moves every element but the first forward by one.
LEMMA ShiftedElements ==
    ASSUME NEW S, NEW q \in Seq(S), q # <<>>
    PROVE  /\ 1 \in DOMAIN q /\ Head(q) = q[1] /\ Head(q) \in S
           /\ Tail(q) \in Seq(S)
           /\ \A n \in DOMAIN Tail(q) :
                n \in Int /\ 1 < n + 1 /\ n + 1 \in DOMAIN q /\ Tail(q)[n] = q[n + 1]
<1>1. /\ Head(q) \in S
      /\ Tail(q) \in Seq(S)
      /\ Len(Tail(q)) = Len(q) - 1
      /\ \A i \in 1 .. Len(Tail(q)) : Tail(q)[i] = q[i + 1]
      /\ Head(q) = q[1]
  BY HeadTailProperties
<1>2. /\ DOMAIN q = 1 .. Len(q)
      /\ DOMAIN Tail(q) = 1 .. Len(q) - 1
      /\ Len(q) \in Nat \ {0}
  BY <1>1, LenProperties, EmptySeq
<1>3. QED
  BY <1>1, <1>2

LEMMA QueuedElement ==
    ASSUME NEW S, NEW q \in Seq(S), NEW n \in DOMAIN q
    PROVE  q[n] \in S
BY LenProperties
=============================================================================
