---------------------------- MODULE FramesProofs ----------------------------
(* Theorems about Frames, for every number of sockets, every length of     *)
(* message and every MTU.                                                  *)
EXTENDS Frames, QueueLemmas

-----------------------------------------------------------------------------
(* Order in the queues.                                                    *)

LEMMA PushedInOrder ==
    ASSUME NEW S, NEW q \in Seq(S), NEW e \in S, InOrder(q),
           \A n \in DOMAIN q : q[n].pkttype = e.pkttype => q[n].id < e.id
    PROVE  InOrder(Append(q, e))
<1>1. SUFFICES ASSUME NEW i \in DOMAIN Append(q, e), NEW j \in DOMAIN Append(q, e), i < j,
                      Append(q, e)[i].pkttype = Append(q, e)[j].pkttype
               PROVE  Append(q, e)[i].id < Append(q, e)[j].id
  BY DEF InOrder
<1>2. /\ (i \in DOMAIN q /\ Append(q, e)[i] = q[i]) \/ (i = Len(q) + 1 /\ Append(q, e)[i] = e)
      /\ (j \in DOMAIN q /\ Append(q, e)[j] = q[j]) \/ (j = Len(q) + 1 /\ Append(q, e)[j] = e)
  BY PushedElements
<1>3. i \in DOMAIN q /\ Append(q, e)[i] = q[i]
  <2>1. SUFFICES ASSUME i = Len(q) + 1
                 PROVE  FALSE
    BY <1>2
  <2>2. Len(q) \in Nat /\ DOMAIN q = 1 .. Len(q)
    BY LenProperties
  <2>3. j \in Int /\ j <= Len(q) + 1
    BY <1>2, <2>2
  <2>4. QED
    BY <1>1, <2>1, <2>2, <2>3
<1>4. CASE j \in DOMAIN q /\ Append(q, e)[j] = q[j]
  BY <1>1, <1>3, <1>4 DEF InOrder
<1>5. CASE Append(q, e)[j] = e
  BY <1>1, <1>3, <1>5
<1>6. QED
  BY <1>2, <1>4, <1>5

LEMMA ShiftedInOrder ==
    ASSUME NEW S, NEW q \in Seq(S), q # <<>>, InOrder(q)
    PROVE  /\ InOrder(Tail(q))
           /\ \A n \in DOMAIN Tail(q) :
                Head(q).pkttype = Tail(q)[n].pkttype => Head(q).id < Tail(q)[n].id
<1>1. /\ 1 \in DOMAIN q /\ Head(q) = q[1]
      /\ \A n \in DOMAIN Tail(q) :
            n \in Int /\ 1 < n + 1 /\ n + 1 \in DOMAIN q /\ Tail(q)[n] = q[n + 1]
  BY ShiftedElements
<1>2. ASSUME NEW i \in DOMAIN Tail(q), NEW j \in DOMAIN Tail(q), i < j,
             Tail(q)[i].pkttype = Tail(q)[j].pkttype
      PROVE  Tail(q)[i].id < Tail(q)[j].id
  <2>1. i + 1 < j + 1
    BY <1>1, <1>2
  <2>2. QED
    BY <1>1, <1>2, <2>1 DEF InOrder
<1>3. ASSUME NEW n \in DOMAIN Tail(q), Head(q).pkttype = Tail(q)[n].pkttype
      PROVE  Head(q).id < Tail(q)[n].id
  BY <1>1, <1>3 DEF InOrder
<1>4. QED
  BY <1>2, <1>3 DEF InOrder

LEMMA PushedBefore ==
    ASSUME NEW S, NEW p \in Seq(S), NEW e \in S, NEW q, Before(p, q),
           \A n \in DOMAIN q : e.pkttype = q[n].pkttype => e.id < q[n].id
    PROVE  Before(Append(p, e), q)
BY PushedElements DEF Before

LEMMA BeforePushed ==
    ASSUME NEW S, NEW q \in Seq(S), NEW e \in S, NEW p, Before(p, q),
           \A n \in DOMAIN p : p[n].pkttype = e.pkttype => p[n].id < e.id
    PROVE  Before(p, Append(q, e))
BY PushedElements DEF Before

LEMMA BeforeShifted ==
    ASSUME NEW S, NEW q \in Seq(S), q # <<>>, NEW p, Before(p, q)
    PROVE  /\ Before(p, Tail(q))
           /\ \A n \in DOMAIN p : p[n].pkttype = Head(q).pkttype => p[n].id < Head(q).id
BY ShiftedElements DEF Before

LEMMA ShiftedBefore ==
    ASSUME NEW S, NEW p \in Seq(S), p # <<>>, NEW q, Before(p, q)
    PROVE  /\ Before(Tail(p), q)
           /\ \A n \in DOMAIN q : Head(p).pkttype = q[n].pkttype => Head(p).id < q[n].id
BY ShiftedElements DEF Before

-----------------------------------------------------------------------------
(* Types.                                                                  *)

SentType == [from : Sockets, length : Lengths]
Links == {"near", "far"}

LEMMA InvTypes ==
    ASSUME FramesInv
    PROVE  /\ device \in {"ethernet", "lo"}
           /\ sent \in Seq(SentType)
           /\ \A d \in Links : wire[d] \in Seq(FrameType)
           /\ \A s \in Sockets : rxq[s] \in Seq(FrameType) /\ got[s] \in Seq(EventType)
           /\ wire \in [Links -> Seq(FrameType)]
           /\ rxq \in [Sockets -> Seq(FrameType)] /\ got \in [Sockets -> Seq(EventType)]
           /\ \A d \in Links : WireOK(d)
           /\ \A s \in Sockets : SocketOK(s)
BY DEF FramesInv, FramesTypeOK, SentType, Links

LEMMA SentLength ==
    ASSUME FramesInv, NEW id \in DOMAIN sent
    PROVE  /\ sent[id].length \in Nat /\ sent[id].from \in Sockets
           /\ id \in Nat /\ id <= Len(sent)
<1>1. sent \in Seq(SentType)
  BY InvTypes
<1>2. sent[id] \in SentType /\ id \in 1 .. Len(sent) /\ Len(sent) \in Nat
  BY <1>1, LenProperties
<1>3. sent[id].length \in Lengths /\ sent[id].from \in Sockets
  BY <1>2 DEF SentType
<1>4. sent[id].length \in Nat
  BY <1>3, FramesAssumption
<1>5. QED
  BY <1>2, <1>3, <1>4

\* Every link ends at sockets of one station.
LEMMA LinkSockets ==
    ASSUME NEW d \in Links, NEW s \in SocketsAt(d)
    PROVE  s \in Sockets
BY DEF Links, SocketsAt, Sockets

-----------------------------------------------------------------------------
(* send_message.                                                           *)

\* What has been said of a frame or an event stays true when another message is sent.
LEMMA SentGrows ==
    ASSUME NEW e \in SentType, sent \in Seq(SentType), sent' = Append(sent, e), device' = device
    PROVE  /\ \A n \in DOMAIN sent : n \in DOMAIN sent' /\ sent'[n] = sent[n]
           /\ Len(sent) + 1 \in DOMAIN sent' /\ sent'[Len(sent) + 1] = e
           /\ Len(sent) \in Nat
<1>1. /\ Len(Append(sent, e)) = Len(sent) + 1
      /\ \A i \in 1 .. Len(sent) : Append(sent, e)[i] = sent[i]
      /\ Append(sent, e)[Len(sent) + 1] = e
      /\ Append(sent, e) \in Seq(SentType)
  BY AppendProperties
<1>2. /\ DOMAIN sent = 1 .. Len(sent) /\ Len(sent) \in Nat
      /\ DOMAIN Append(sent, e) = 1 .. Len(sent) + 1
  BY <1>1, LenProperties
<1>3. QED
  BY <1>1, <1>2

LEMMA OldFrame ==
    ASSUME NEW e \in SentType, sent \in Seq(SentType), sent' = Append(sent, e), device' = device,
           NEW f, FrameOK(f)
    PROVE  FrameOK(f)'
BY SentGrows DEF FrameOK, BytesSeen

LEMMA OldEvent ==
    ASSUME NEW e \in SentType, sent \in Seq(SentType), sent' = Append(sent, e), device' = device,
           NEW m, EventOK(m)
    PROVE  EventOK(m)'
BY SentGrows DEF EventOK, BytesSeen

LEMMA OldShown ==
    ASSUME NEW e \in SentType, sent \in Seq(SentType), sent' = Append(sent, e), device' = device,
           NEW x, x.id \in DOMAIN sent, NEW s \in Sockets, ShownTo(s, x)
    PROVE  ShownTo(s, x)'
BY SentGrows DEF ShownTo

\* The two frames made of a message.
LEMMA NewFrames ==
    ASSUME NEW length \in Nat, NEW e \in SentType, e.length = length,
           sent \in Seq(SentType), sent' = Append(sent, e), device' = device
    PROVE  \E f, w \in FrameType :
              /\ f = FrameOf(length) /\ w = OnTheWire(f)
              /\ f.id = Len(sent) + 1 /\ f.pkttype = "outgoing" /\ FrameOK(f)'
              /\ w.id = Len(sent) + 1 /\ w.pkttype = "host" /\ FrameOK(w)'
<1> DEFINE f == FrameOf(length)
           w == OnTheWire(f)
<1>1. /\ Len(sent) \in Nat /\ Len(sent) + 1 \in DOMAIN sent'
      /\ sent'[Len(sent) + 1].length = length
  BY SentGrows
<1>2. Header + length \in Nat /\ Len(sent) + 1 \in Nat
  BY <1>1 DEF Header
<1>3. "host" \in PacketTypes /\ "outgoing" \in PacketTypes
  BY DEF PacketTypes
<1>4. f.id = Len(sent) + 1 /\ f.bytes = Header + length /\ f.pkttype = "outgoing"
  BY DEF FrameOf
<1>5. f \in FrameType
  BY <1>2, <1>3 DEF FrameOf, FrameType
<1> HIDE DEF f
<1>6. PICK padded \in Nat : padded = IF device = "lo" THEN f.bytes ELSE Larger(f.bytes, MinFrame)
  BY <1>2, <1>4 DEF Larger, MinFrame
<1>7. w = [f EXCEPT !.bytes = padded, !.pkttype = "host"]
  BY <1>6 DEF OnTheWire
<1> HIDE DEF w
<1>8. w \in FrameType
  BY <1>3, <1>5, <1>7 DEF FrameType
<1>9. w.id = f.id /\ w.bytes = padded /\ w.pkttype = "host"
  BY <1>5, <1>7 DEF FrameType
<1>10. PICK frame \in FrameType : frame = f
  BY <1>5
<1>11. PICK arriving \in FrameType : arriving = w
  BY <1>8
<1>12. FrameOK(frame)'
  BY <1>1, <1>4, <1>10 DEF FrameOK, BytesSeen
<1>13. FrameOK(arriving)'
  BY <1>1, <1>4, <1>6, <1>9, <1>11 DEF FrameOK, BytesSeen
<1>14. QED
  BY <1>4, <1>9, <1>10, <1>11, <1>12, <1>13 DEF f, w

\* What has been sent before has a smaller number than the next message.
LEMMA OldNumbers ==
    ASSUME FramesInv, NEW s \in Sockets, NEW d \in Links
    PROVE  /\ \A n \in DOMAIN wire[d] : wire[d][n].id < Len(sent) + 1
           /\ \A n \in DOMAIN rxq[s] : rxq[s][n].id < Len(sent) + 1
           /\ \A n \in DOMAIN got[s] : got[s][n].id < Len(sent) + 1
<1>1. sent \in Seq(SentType) /\ WireOK(d) /\ SocketOK(s)
  BY InvTypes
<1>2. Len(sent) \in Nat /\ DOMAIN sent = 1 .. Len(sent)
  BY <1>1, LenProperties
<1>3. \A id \in DOMAIN sent : id < Len(sent) + 1
  BY <1>2
<1>4. /\ \A n \in DOMAIN wire[d] : wire[d][n].id \in DOMAIN sent
      /\ \A n \in DOMAIN rxq[s] : rxq[s][n].id \in DOMAIN sent
      /\ \A n \in DOMAIN got[s] : got[s][n].id \in DOMAIN sent
  BY <1>1 DEF WireOK, SocketOK, FrameOK, EventOK
<1>5. QED
  BY <1>3, <1>4

\* Who is shown the frames of a new message.
LEMMA NewShown ==
    ASSUME FramesInv, NEW s \in Sockets, NEW x, x.id \in DOMAIN sent', sent'[x.id].from = s,
           device' = device
    PROVE  /\ x.pkttype = "outgoing" => \A t \in Station(s) \ {s} : ShownTo(t, x)'
           /\ x.pkttype = "host" => \A t \in SocketsAt(Destination(s)) : ShownTo(t, x)'
<1>1. Near \cap Far = {} /\ (s \in Near \/ s \in Far)
  BY FramesAssumption DEF Sockets
<1>2. ASSUME x.pkttype = "outgoing", NEW t \in Station(s) \ {s}
      PROVE  ShownTo(t, x)'
  <2>1. s \in Station(t) /\ s # t
    BY <1>1 DEF Station
  <2>2. QED
    BY <1>2, <2>1 DEF ShownTo
<1>3. ASSUME x.pkttype = "host", NEW t \in SocketsAt(Destination(s))
      PROVE  ShownTo(t, x)'
  <2>1. IF device = "lo" THEN t \in Near ELSE s \notin Station(t)
    BY <1>1 DEF Station, SocketsAt, Destination
  <2>2. QED
    BY <1>3, <2>1 DEF ShownTo
<1>4. QED
  BY <1>2, <1>3

LEMMA SendKeeps ==
    ASSUME FramesInv, NEW s \in Sockets, NEW length \in Lengths, SendMessage(s, length)
    PROVE  FramesInv'
<1> DEFINE e == [from |-> s, length |-> length]
           D == Destination(s)
<1>1. e \in SentType /\ e.from = s /\ e.length = length
  BY DEF SentType
<1>2. sent \in Seq(SentType) /\ sent' = Append(sent, e) /\ device' = device /\ got' = got
  BY InvTypes DEF SendMessage
<1> HIDE DEF e
<1>3. length \in Nat
  BY FramesAssumption
<1>4. PICK f \in FrameType, w \in FrameType :
              /\ f = FrameOf(length) /\ w = OnTheWire(f)
              /\ f.id = Len(sent) + 1 /\ f.pkttype = "outgoing" /\ FrameOK(f)'
              /\ w.id = Len(sent) + 1 /\ w.pkttype = "host" /\ FrameOK(w)'
  BY <1>1, <1>2, <1>3, NewFrames
<1>5. /\ Enqueue(Station(s) \ {s}, f) /\ wire' = [wire EXCEPT ![D] = Append(wire[D], w)]
  BY <1>4 DEF SendMessage
<1>5a. PICK T \in SUBSET (Station(s) \ {s}) : rxq' = Queued(T, f)
  BY <1>5 DEF Enqueue
<1>6. /\ Len(sent) + 1 \in DOMAIN sent' /\ sent'[Len(sent) + 1].from = s
      /\ sent' \in Seq(SentType)
  BY <1>1, <1>2, SentGrows, AppendProperties
<1>7. D \in Links /\ wire \in [Links -> Seq(FrameType)]
  BY InvTypes DEF Destination, Links
<1>8. ASSUME NEW d \in Links
      PROVE  /\ wire[d] \in Seq(FrameType) /\ WireOK(d)
             /\ d = D => wire'[d] = Append(wire[d], w)
             /\ d # D => wire'[d] = wire[d]
             /\ \A n \in DOMAIN wire'[d] :
                  \/ n \in DOMAIN wire[d] /\ wire'[d][n] = wire[d][n]
                  \/ d = D /\ wire'[d][n] = w
             /\ wire'[d] \in Seq(FrameType)
  <2>1. wire[d] \in Seq(FrameType) /\ WireOK(d)
    BY InvTypes
  <2>2. CASE d = D
    <3>1. wire'[d] = Append(wire[d], w)
      BY <1>5, <1>7, <2>2
    <3>2. QED
      BY <2>1, <2>2, <3>1, PushedElements
  <2>3. CASE d # D
    <3>1. wire'[d] = wire[d]
      BY <1>5, <1>7, <2>3
    <3>2. QED
      BY <2>1, <2>3, <3>1
  <2>4. QED
    BY <2>2, <2>3
<1>9. ASSUME NEW t \in Sockets
      PROVE  /\ rxq[t] \in Seq(FrameType) /\ got[t] \in Seq(EventType) /\ SocketOK(t)
             /\ t \in T => rxq'[t] = Append(rxq[t], f)
             /\ t \notin T => rxq'[t] = rxq[t]
             /\ \A n \in DOMAIN rxq'[t] :
                  \/ n \in DOMAIN rxq[t] /\ rxq'[t][n] = rxq[t][n]
                  \/ t \in T /\ rxq'[t][n] = f
             /\ rxq'[t] \in Seq(FrameType)
  <2>1. rxq[t] \in Seq(FrameType) /\ got[t] \in Seq(EventType) /\ SocketOK(t)
    BY InvTypes
  <2>2. CASE t \in T
    <3>1. rxq'[t] = Append(rxq[t], f)
      BY <1>5a, <2>2 DEF Queued
    <3>2. QED
      BY <2>1, <2>2, <3>1, PushedElements
  <2>3. CASE t \notin T
    <3>1. rxq'[t] = rxq[t]
      BY <1>5a, <2>3 DEF Queued
    <3>2. QED
      BY <2>1, <2>3, <3>1
  <2>4. QED
    BY <2>2, <2>3
<1>10. FramesTypeOK'
  <2>1. wire' \in [Links -> Seq(FrameType)]
    BY <1>5, <1>7, <1>8
  <2>2. rxq' \in [Sockets -> Seq(FrameType)]
    BY <1>5a, <1>9 DEF Queued
  <2>3. got' \in [Sockets -> Seq(EventType)] /\ device' \in {"ethernet", "lo"}
    BY <1>2, InvTypes
  <2>4. QED
    BY <1>6, <2>1, <2>2, <2>3 DEF FramesTypeOK, Links, SentType
<1>11. ASSUME NEW d \in Links
       PROVE  WireOK(d)'
  <2>1. InOrder(wire'[d])
    <3>1. \A n \in DOMAIN wire[d] : wire[d][n].id < w.id
      BY <1>4, OldNumbers
    <3>2. InOrder(wire[d])
      BY <1>8 DEF WireOK
    <3>3. wire[d] \in Seq(FrameType)
      BY <1>8
    <3>4. InOrder(Append(wire[d], w))
      BY <3>1, <3>2, <3>3, PushedInOrder
    <3>5. wire'[d] = Append(wire[d], w) \/ wire'[d] = wire[d]
      BY <1>8
    <3>6. QED
      BY <3>2, <3>4, <3>5
  <2>2. ASSUME NEW n \in DOMAIN wire'[d]
        PROVE  /\ wire'[d][n].pkttype = "host" /\ FrameOK(wire[d][n])'
               /\ \A t \in SocketsAt(d) : ShownTo(t, wire[d][n])'
    <3>1. CASE n \in DOMAIN wire[d] /\ wire'[d][n] = wire[d][n]
      <4>1. PICK x \in FrameType : x = wire[d][n]
        BY <1>8, <3>1, QueuedElement
      <4>2. x.pkttype = "host" /\ FrameOK(x) /\ \A t \in SocketsAt(d) : ShownTo(t, x)
        BY <1>8, <3>1, <4>1 DEF WireOK
      <4>3. FrameOK(x)'
        BY <1>1, <1>2, <4>2, OldFrame
      <4>4. \A t \in SocketsAt(d) : ShownTo(t, x)'
        <5>1. x.id \in DOMAIN sent
          BY <4>2 DEF FrameOK
        <5>2. QED
          BY <1>1, <1>2, <4>2, <5>1, OldShown, LinkSockets
      <4>5. x = wire'[d][n]
        BY <3>1, <4>1
      <4>6. QED
        BY <4>2, <4>3, <4>4, <4>5
    <3>2. CASE d = D /\ wire'[d][n] = w
      <4>1. \A t \in SocketsAt(D) : ShownTo(t, w)'
        BY <1>2, <1>4, <1>6, NewShown
      <4>2. QED
        BY <1>4, <3>2, <4>1
    <3>3. QED
      BY <1>8, <3>1, <3>2
  <2>3. ASSUME NEW t \in SocketsAt(d)
        PROVE  Before(rxq'[t], wire'[d]) /\ Before(got'[t], wire'[d])
    <3>1. /\ t \in Sockets /\ rxq[t] \in Seq(FrameType) /\ got[t] \in Seq(EventType)
          /\ Before(rxq[t], wire[d]) /\ Before(got[t], wire[d])
      BY <1>8, <1>9, LinkSockets DEF WireOK
    <3>2. /\ \A n \in DOMAIN rxq[t] : rxq[t][n].id < w.id
          /\ \A n \in DOMAIN got[t] : got[t][n].id < w.id
      BY <1>4, <3>1, OldNumbers
    <3>3. /\ wire[d] \in Seq(FrameType)
          /\ wire'[d] = Append(wire[d], w) \/ wire'[d] = wire[d]
      BY <1>8
    <3>4. Before(rxq[t], wire'[d]) /\ Before(got[t], wire'[d])
      <4>1. Before(rxq[t], Append(wire[d], w))
        BY <3>1, <3>2, <3>3, BeforePushed
      <4>2. Before(got[t], Append(wire[d], w))
        BY <3>1, <3>2, <3>3, BeforePushed
      <4>3. QED
        BY <3>1, <3>3, <4>1, <4>2
    <3>5. \A n \in DOMAIN wire'[d] : f.pkttype # wire'[d][n].pkttype
      BY <1>4, <2>2
    <3>6. Before(rxq'[t], wire'[d])
      <4>1. Before(Append(rxq[t], f), wire'[d])
        BY <3>1, <3>4, <3>5, PushedBefore
      <4>2. rxq'[t] = Append(rxq[t], f) \/ rxq'[t] = rxq[t]
        BY <1>9, <3>1
      <4>3. QED
        BY <3>4, <4>1, <4>2
    <3>7. QED
      BY <1>2, <3>4, <3>6
  <2>4. QED
    BY <2>1, <2>2, <2>3 DEF WireOK, SocketsAt
<1>12. ASSUME NEW t \in Sockets
       PROVE  SocketOK(t)'
  <2>1. /\ \A n \in DOMAIN rxq[t] : rxq[t][n].id < f.id
        /\ \A n \in DOMAIN got[t] : got[t][n].id < f.id
    BY <1>4, <1>7, OldNumbers
  <2>2. InOrder(rxq[t]) /\ InOrder(got[t]) /\ Before(got[t], rxq[t])
    BY <1>9 DEF SocketOK
  <2>3. InOrder(rxq'[t]) /\ Before(got[t], rxq'[t])
    <3>1. /\ rxq[t] \in Seq(FrameType)
          /\ rxq'[t] = Append(rxq[t], f) \/ rxq'[t] = rxq[t]
      BY <1>9
    <3>2. InOrder(Append(rxq[t], f))
      BY <2>1, <2>2, <3>1, PushedInOrder
    <3>3. Before(got[t], Append(rxq[t], f))
      BY <2>1, <2>2, <3>1, BeforePushed
    <3>4. QED
      BY <2>2, <3>1, <3>2, <3>3
  <2>4. ASSUME NEW n \in DOMAIN rxq'[t]
        PROVE  FrameOK(rxq[t][n])' /\ ShownTo(t, rxq[t][n])'
    <3>1. CASE n \in DOMAIN rxq[t] /\ rxq'[t][n] = rxq[t][n]
      <4>1. PICK x \in FrameType : x = rxq[t][n]
        BY <1>9, <3>1, QueuedElement
      <4>2. FrameOK(x) /\ ShownTo(t, x)
        BY <1>9, <3>1, <4>1 DEF SocketOK
      <4>3. FrameOK(x)'
        BY <1>1, <1>2, <4>2, OldFrame
      <4>4. ShownTo(t, x)'
        <5>1. x.id \in DOMAIN sent
          BY <4>2 DEF FrameOK
        <5>2. QED
          BY <1>1, <1>2, <4>2, <5>1, OldShown
      <4>5. x = rxq'[t][n]
        BY <3>1, <4>1
      <4>6. QED
        BY <4>3, <4>4, <4>5
    <3>2. CASE t \in T /\ rxq'[t][n] = f
      <4>1. ShownTo(t, f)'
        BY <1>2, <1>4, <1>6, <3>2, NewShown
      <4>2. QED
        BY <1>4, <3>2, <4>1
    <3>3. QED
      BY <1>9, <3>1, <3>2
  <2>5. ASSUME NEW n \in DOMAIN got'[t]
        PROVE  EventOK(got[t][n])' /\ ShownTo(t, got[t][n])'
    <3>1. n \in DOMAIN got[t] /\ got'[t][n] = got[t][n]
      BY <1>2
    <3>2. PICK x \in EventType : x = got[t][n]
      BY <1>9, <3>1, QueuedElement
    <3>3. EventOK(x) /\ ShownTo(t, x)
      BY <1>9, <3>1, <3>2 DEF SocketOK
    <3>4. EventOK(x)'
      BY <1>1, <1>2, <3>3, OldEvent
    <3>5. ShownTo(t, x)'
      <4>1. x.id \in DOMAIN sent
        BY <3>3 DEF EventOK
      <4>2. QED
        BY <1>1, <1>2, <3>3, <4>1, OldShown
    <3>6. x = got'[t][n]
      BY <3>1, <3>2
    <3>7. QED
      BY <3>4, <3>5, <3>6
  <2>6. QED
    BY <1>2, <2>2, <2>3, <2>4, <2>5 DEF SocketOK
<1>13. QED
  BY <1>10, <1>11, <1>12 DEF FramesInv, Links

-----------------------------------------------------------------------------
(* The link and receive_message.                                           *)

LEMMA SameFrames ==
    ASSUME UNCHANGED <<sent, device>>, NEW x, NEW s \in Sockets
    PROVE  /\ FrameOK(x) => FrameOK(x)'
           /\ EventOK(x) => EventOK(x)'
           /\ ShownTo(s, x) => ShownTo(s, x)'
<1>1. FrameOK(x) => FrameOK(x)'
  BY DEF FrameOK, BytesSeen
<1>2. EventOK(x) => EventOK(x)'
  BY DEF EventOK, BytesSeen
<1>3. ShownTo(s, x) => ShownTo(s, x)'
  BY DEF ShownTo
<1>4. QED
  BY <1>1, <1>2, <1>3

\* A link whose frames are among those it had, in front of sockets that are in order with it.
LEMMA SameWire ==
    ASSUME UNCHANGED <<sent, device>>, NEW d \in Links, WireOK(d),
           wire[d] \in Seq(FrameType), InOrder(wire'[d]),
           \A n \in DOMAIN wire'[d] : \E k \in DOMAIN wire[d] : wire'[d][n] = wire[d][k],
           \A s \in SocketsAt(d) : Before(rxq'[s], wire'[d]) /\ Before(got'[s], wire'[d])
    PROVE  WireOK(d)'
<1>1. ASSUME NEW n \in DOMAIN wire'[d]
      PROVE  /\ wire'[d][n].pkttype = "host" /\ FrameOK(wire[d][n])'
             /\ \A s \in SocketsAt(d) : ShownTo(s, wire[d][n])'
  <2>1. PICK k \in DOMAIN wire[d] : wire'[d][n] = wire[d][k]
    OBVIOUS
  <2>2. PICK x \in FrameType : x = wire[d][k]
    BY QueuedElement
  <2>3. x.pkttype = "host" /\ FrameOK(x) /\ \A s \in SocketsAt(d) : ShownTo(s, x)
    BY <2>2 DEF WireOK
  <2>4. \A s \in SocketsAt(d) : ShownTo(s, x)'
    BY <2>3, SameFrames, LinkSockets
  <2>5. FrameOK(x)'
    BY <2>3 DEF FrameOK, BytesSeen
  <2>6. x = wire'[d][n]
    BY <2>1, <2>2
  <2>7. QED
    BY <2>3, <2>4, <2>5, <2>6
<1>2. QED
  BY <1>1 DEF WireOK, SocketsAt

\* A frame taken from a link or not, the others keep their order.
LEMMA TailWire ==
    ASSUME FramesInv, NEW d \in Links, wire[d] # <<>>
    PROVE  /\ Head(wire[d]) \in FrameType /\ Tail(wire[d]) \in Seq(FrameType)
           /\ Head(wire[d]).pkttype = "host" /\ FrameOK(Head(wire[d]))
           /\ \A s \in SocketsAt(d) : ShownTo(s, Head(wire[d]))
           /\ InOrder(Tail(wire[d]))
           /\ \A n \in DOMAIN Tail(wire[d]) :
                \E k \in DOMAIN wire[d] : Tail(wire[d])[n] = wire[d][k]
           /\ \A n \in DOMAIN Tail(wire[d]) :
                Head(wire[d]).pkttype = Tail(wire[d])[n].pkttype =>
                    Head(wire[d]).id < Tail(wire[d])[n].id
           /\ \A s \in SocketsAt(d) :
                /\ Before(rxq[s], Tail(wire[d])) /\ Before(got[s], Tail(wire[d]))
                /\ \A n \in DOMAIN rxq[s] :
                     rxq[s][n].pkttype = Head(wire[d]).pkttype => rxq[s][n].id < Head(wire[d]).id
                /\ \A n \in DOMAIN got[s] :
                     got[s][n].pkttype = Head(wire[d]).pkttype => got[s][n].id < Head(wire[d]).id
<1>1. wire[d] \in Seq(FrameType) /\ WireOK(d)
  BY InvTypes
<1>2. /\ 1 \in DOMAIN wire[d] /\ Head(wire[d]) = wire[d][1]
      /\ Head(wire[d]) \in FrameType /\ Tail(wire[d]) \in Seq(FrameType)
      /\ \A n \in DOMAIN Tail(wire[d]) :
            \E k \in DOMAIN wire[d] : Tail(wire[d])[n] = wire[d][k]
  BY <1>1, ShiftedElements
<1>3. /\ Head(wire[d]).pkttype = "host" /\ FrameOK(Head(wire[d]))
      /\ \A s \in SocketsAt(d) : ShownTo(s, Head(wire[d]))
  BY <1>1, <1>2 DEF WireOK
<1>4. InOrder(wire[d])
  BY <1>1 DEF WireOK
<1>5. /\ InOrder(Tail(wire[d]))
      /\ \A n \in DOMAIN Tail(wire[d]) :
            Head(wire[d]).pkttype = Tail(wire[d])[n].pkttype =>
                Head(wire[d]).id < Tail(wire[d])[n].id
  BY <1>1, <1>4, ShiftedInOrder
<1>6. ASSUME NEW s \in SocketsAt(d)
      PROVE  /\ Before(rxq[s], Tail(wire[d])) /\ Before(got[s], Tail(wire[d]))
             /\ \A n \in DOMAIN rxq[s] :
                  rxq[s][n].pkttype = Head(wire[d]).pkttype => rxq[s][n].id < Head(wire[d]).id
             /\ \A n \in DOMAIN got[s] :
                  got[s][n].pkttype = Head(wire[d]).pkttype => got[s][n].id < Head(wire[d]).id
  <2>1. Before(rxq[s], wire[d]) /\ Before(got[s], wire[d])
    BY <1>1 DEF WireOK
  <2>2. QED
    BY <1>1, <2>1, BeforeShifted
<1>7. QED
  BY <1>2, <1>3, <1>5, <1>6

\* A socket nothing has changed for.
LEMMA SameSocket ==
    ASSUME FramesInv, UNCHANGED <<sent, device>>, NEW s \in Sockets, UNCHANGED <<rxq[s], got[s]>>
    PROVE  SocketOK(s)'
<1>1. rxq[s] \in Seq(FrameType) /\ got[s] \in Seq(EventType) /\ SocketOK(s)
  BY InvTypes
<1>2. ASSUME NEW n \in DOMAIN rxq'[s]
      PROVE  FrameOK(rxq[s][n])' /\ ShownTo(s, rxq[s][n])'
  <2>1. PICK x \in FrameType : x = rxq[s][n] /\ x = rxq'[s][n]
    BY <1>1, QueuedElement
  <2>2. FrameOK(x) /\ ShownTo(s, x)
    BY <1>1, <2>1 DEF SocketOK
  <2>3. FrameOK(x)' /\ ShownTo(s, x)'
    BY <2>2, SameFrames
  <2>4. QED
    BY <2>1, <2>3
<1>3. ASSUME NEW n \in DOMAIN got'[s]
      PROVE  EventOK(got[s][n])' /\ ShownTo(s, got[s][n])'
  <2>1. PICK x \in EventType : x = got[s][n] /\ x = got'[s][n]
    BY <1>1, QueuedElement
  <2>2. EventOK(x) /\ ShownTo(s, x)
    BY <1>1, <2>1 DEF SocketOK
  <2>3. EventOK(x)' /\ ShownTo(s, x)'
    BY <2>2, SameFrames
  <2>4. QED
    BY <2>1, <2>3
<1>4. QED
  BY <1>1, <1>2, <1>3 DEF SocketOK

LEMMA LostKeeps ==
    ASSUME FramesInv, NEW d \in Links, Lost(d)
    PROVE  FramesInv'
<1>1. /\ wire[d] # <<>> /\ wire' = [wire EXCEPT ![d] = Tail(wire[d])]
      /\ UNCHANGED <<device, sent, rxq, got>>
  BY DEF Lost
<1>2. /\ wire \in [Links -> Seq(FrameType)] /\ Tail(wire[d]) \in Seq(FrameType)
  BY <1>1, InvTypes, TailWire
<1>3. FramesTypeOK'
  <2>1. wire' \in [Links -> Seq(FrameType)]
    BY <1>1, <1>2
  <2>2. QED
    BY <1>1, <2>1 DEF FramesInv, FramesTypeOK, Links
<1>4. ASSUME NEW l \in Links
      PROVE  WireOK(l)'
  <2>1. wire[l] \in Seq(FrameType) /\ WireOK(l)
    BY InvTypes
  <2>2. CASE l = d
    <3>1. wire'[l] = Tail(wire[d])
      BY <1>1, <1>2, <2>2
    <3>2. /\ InOrder(wire'[l])
          /\ \A n \in DOMAIN wire'[l] : \E k \in DOMAIN wire[l] : wire'[l][n] = wire[l][k]
          /\ \A s \in SocketsAt(l) : Before(rxq'[s], wire'[l]) /\ Before(got'[s], wire'[l])
      BY <1>1, <2>2, <3>1, TailWire
    <3>3. QED
      BY <1>1, <2>1, <3>2, SameWire
  <2>3. CASE l # d
    <3>1. wire'[l] = wire[l]
      BY <1>1, <1>2, <2>3
    <3>2. /\ InOrder(wire'[l])
          /\ \A n \in DOMAIN wire'[l] : \E k \in DOMAIN wire[l] : wire'[l][n] = wire[l][k]
          /\ \A s \in SocketsAt(l) : Before(rxq'[s], wire'[l]) /\ Before(got'[s], wire'[l])
      BY <1>1, <2>1, <3>1 DEF WireOK
    <3>3. QED
      BY <1>1, <2>1, <3>2, SameWire
  <2>4. QED
    BY <2>2, <2>3
<1>5. \A s \in Sockets : SocketOK(s)'
  BY <1>1, SameSocket
<1>6. QED
  BY <1>3, <1>4, <1>5 DEF FramesInv, Links

LEMMA ArrivesKeeps ==
    ASSUME FramesInv, NEW d \in Links, Arrives(d)
    PROVE  FramesInv'
<1> DEFINE f == Head(wire[d])
<1>1. /\ wire[d] # <<>> /\ wire' = [wire EXCEPT ![d] = Tail(wire[d])]
      /\ Enqueue(SocketsAt(d), f)
      /\ UNCHANGED <<device, sent, got>>
  BY DEF Arrives
<1>2. /\ f \in FrameType /\ Tail(wire[d]) \in Seq(FrameType)
      /\ f.pkttype = "host" /\ FrameOK(f) /\ \A s \in SocketsAt(d) : ShownTo(s, f)
      /\ InOrder(Tail(wire[d]))
      /\ \A n \in DOMAIN Tail(wire[d]) :
            \E k \in DOMAIN wire[d] : Tail(wire[d])[n] = wire[d][k]
      /\ \A n \in DOMAIN Tail(wire[d]) :
            f.pkttype = Tail(wire[d])[n].pkttype => f.id < Tail(wire[d])[n].id
      /\ \A s \in SocketsAt(d) :
            /\ Before(rxq[s], Tail(wire[d])) /\ Before(got[s], Tail(wire[d]))
            /\ \A n \in DOMAIN rxq[s] : rxq[s][n].pkttype = f.pkttype => rxq[s][n].id < f.id
            /\ \A n \in DOMAIN got[s] : got[s][n].pkttype = f.pkttype => got[s][n].id < f.id
  BY <1>1, TailWire
<1>3. wire \in [Links -> Seq(FrameType)]
  BY InvTypes
<1> HIDE DEF f
<1>3a. PICK T \in SUBSET SocketsAt(d) : rxq' = Queued(T, f)
  BY <1>1 DEF Enqueue
<1>4. ASSUME NEW s \in Sockets
      PROVE  /\ rxq[s] \in Seq(FrameType) /\ got[s] \in Seq(EventType) /\ SocketOK(s)
             /\ s \in T => rxq'[s] = Append(rxq[s], f)
             /\ s \notin T => rxq'[s] = rxq[s]
             /\ rxq'[s] \in Seq(FrameType)
  <2>1. rxq[s] \in Seq(FrameType) /\ got[s] \in Seq(EventType) /\ SocketOK(s)
    BY InvTypes
  <2>2. CASE s \in T
    <3>1. rxq'[s] = Append(rxq[s], f)
      BY <1>3a, <2>2 DEF Queued
    <3>2. QED
      BY <1>2, <2>1, <2>2, <3>1, PushedElements
  <2>3. CASE s \notin T
    <3>1. rxq'[s] = rxq[s]
      BY <1>3a, <2>3 DEF Queued
    <3>2. QED
      BY <2>1, <2>3, <3>1
  <2>4. QED
    BY <2>2, <2>3
<1>5. FramesTypeOK'
  <2>1. wire' \in [Links -> Seq(FrameType)]
    BY <1>1, <1>2, <1>3
  <2>2. rxq' \in [Sockets -> Seq(FrameType)]
    BY <1>3a, <1>4 DEF Queued
  <2>3. QED
    BY <1>1, <2>1, <2>2 DEF FramesInv, FramesTypeOK, Links
<1>6. ASSUME NEW l \in Links
      PROVE  WireOK(l)'
  <2>1. wire[l] \in Seq(FrameType) /\ WireOK(l)
    BY InvTypes
  <2>2. CASE l = d
    <3>1. wire'[l] = Tail(wire[d])
      BY <1>1, <1>3, <2>2
    <3>2. ASSUME NEW s \in SocketsAt(l)
          PROVE  Before(rxq'[s], wire'[l]) /\ Before(got'[s], wire'[l])
      <4>1. /\ rxq[s] \in Seq(FrameType)
            /\ rxq'[s] = Append(rxq[s], f) \/ rxq'[s] = rxq[s]
            /\ Before(rxq[s], wire'[l]) /\ Before(got[s], wire'[l])
        BY <1>2, <1>4, <2>2, <3>1, LinkSockets
      <4>2. \A n \in DOMAIN wire'[l] : f.pkttype = wire'[l][n].pkttype => f.id < wire'[l][n].id
        BY <1>2, <3>1
      <4>3. Before(Append(rxq[s], f), wire'[l])
        BY <1>2, <4>1, <4>2, PushedBefore
      <4>4. QED
        BY <1>1, <4>1, <4>3
    <3>3. /\ InOrder(wire'[l])
          /\ \A n \in DOMAIN wire'[l] : \E k \in DOMAIN wire[l] : wire'[l][n] = wire[l][k]
      BY <1>2, <2>2, <3>1
    <3>4. QED
      BY <1>1, <2>1, <3>2, <3>3, SameWire
  <2>3. CASE l # d
    <3>1. wire'[l] = wire[l]
      BY <1>1, <1>3, <2>3
    <3>2. \A s \in SocketsAt(l) : s \in Sockets /\ s \notin T
      BY <2>3, FramesAssumption DEF Links, SocketsAt, Sockets
    <3>3. \A s \in SocketsAt(l) : rxq'[s] = rxq[s] /\ got'[s] = got[s]
      BY <1>1, <1>4, <3>2
    <3>4. /\ InOrder(wire'[l])
          /\ \A n \in DOMAIN wire'[l] : \E k \in DOMAIN wire[l] : wire'[l][n] = wire[l][k]
          /\ \A s \in SocketsAt(l) : Before(rxq'[s], wire'[l]) /\ Before(got'[s], wire'[l])
      BY <2>1, <3>1, <3>3 DEF WireOK
    <3>5. QED
      BY <1>1, <2>1, <3>4, SameWire
  <2>4. QED
    BY <2>2, <2>3
<1>7. ASSUME NEW s \in Sockets
      PROVE  SocketOK(s)'
  <2>1. CASE s \notin T
    BY <1>1, <1>4, <2>1, SameSocket
  <2>2. CASE s \in T
    <3>1. rxq'[s] = Append(rxq[s], f) /\ rxq[s] \in Seq(FrameType) /\ got[s] \in Seq(EventType)
      BY <1>4, <2>2
    <3>2. InOrder(rxq[s]) /\ InOrder(got[s]) /\ Before(got[s], rxq[s])
      BY <1>4 DEF SocketOK
    <3>3. /\ \A n \in DOMAIN rxq[s] : rxq[s][n].pkttype = f.pkttype => rxq[s][n].id < f.id
          /\ \A n \in DOMAIN got[s] : got[s][n].pkttype = f.pkttype => got[s][n].id < f.id
      BY <1>2, <2>2
    <3>4. InOrder(Append(rxq[s], f))
      BY <1>2, <3>1, <3>2, <3>3, PushedInOrder
    <3>5. Before(got[s], Append(rxq[s], f))
      BY <1>2, <3>1, <3>2, <3>3, BeforePushed
    <3>6. ASSUME NEW n \in DOMAIN rxq'[s]
          PROVE  FrameOK(rxq[s][n])' /\ ShownTo(s, rxq[s][n])'
      <4>1. (n \in DOMAIN rxq[s] /\ rxq'[s][n] = rxq[s][n]) \/ rxq'[s][n] = f
        BY <1>2, <3>1, PushedElements
      <4>2. PICK x \in FrameType : x = rxq'[s][n] /\ FrameOK(x) /\ ShownTo(s, x)
        <5>1. CASE n \in DOMAIN rxq[s] /\ rxq'[s][n] = rxq[s][n]
          <6>1. rxq[s][n] \in FrameType
            BY <3>1, <5>1, QueuedElement
          <6>2. FrameOK(rxq[s][n]) /\ ShownTo(s, rxq[s][n])
            BY <1>4, <5>1 DEF SocketOK
          <6>3. QED
            BY <5>1, <6>1, <6>2
        <5>2. CASE rxq'[s][n] = f
          BY <1>2, <2>2, <5>2
        <5>3. QED
          BY <4>1, <5>1, <5>2
      <4>3. FrameOK(x)' /\ ShownTo(s, x)'
        BY <1>1, <4>2, SameFrames
      <4>4. QED
        BY <4>2, <4>3
    <3>7. ASSUME NEW n \in DOMAIN got'[s]
          PROVE  EventOK(got[s][n])' /\ ShownTo(s, got[s][n])'
      <4>1. n \in DOMAIN got[s] /\ got'[s][n] = got[s][n]
        BY <1>1
      <4>2. PICK x \in EventType : x = got[s][n]
        BY <3>1, <4>1, QueuedElement
      <4>3. EventOK(x) /\ ShownTo(s, x)
        BY <1>4, <4>1, <4>2 DEF SocketOK
      <4>4. EventOK(x)' /\ ShownTo(s, x)'
        BY <1>1, <4>3, SameFrames
      <4>5. x = got'[s][n]
        BY <4>1, <4>2
      <4>6. QED
        BY <4>4, <4>5
    <3>8. QED
      BY <1>1, <3>1, <3>2, <3>4, <3>5, <3>6, <3>7 DEF SocketOK
  <2>3. QED
    BY <2>1, <2>2
<1>8. QED
  BY <1>5, <1>6, <1>7 DEF FramesInv, Links

\* The event that receive_message makes of a frame.
LEMMA FrameReceived ==
    ASSUME FramesInv, NEW f \in FrameType, FrameOK(f), NEW s \in Sockets, ShownTo(s, f)
    PROVE  /\ EventOf(f) \in EventType /\ EventOK(EventOf(f)) /\ ShownTo(s, EventOf(f))
           /\ EventOf(f).id = f.id /\ EventOf(f).pkttype = f.pkttype
<1>1. f.id \in Nat /\ f.pkttype \in PacketTypes /\ f.id \in DOMAIN sent
  BY DEF FrameType, FrameOK
<1>2. sent[f.id].length \in Nat
  BY <1>1, SentLength
<1>3. /\ f.bytes = BytesSeen(f.id, f.pkttype)
      /\ f.bytes \in Nat /\ f.bytes >= Header
  BY <1>2 DEF FrameOK, BytesSeen, Larger, Header, MinFrame
<1>4. MAX_RECEIVE_BUFFER_SIZE \in Nat
  BY DEF MAX_RECEIVE_BUFFER_SIZE
<1>5. Received(f) \in 0 .. MAX_RECEIVE_BUFFER_SIZE
  BY <1>3, <1>4 DEF Received, Smaller, Header
<1>6. EventOf(f) \in EventType
  BY <1>1, <1>5 DEF EventOf, EventType
<1>7. /\ EventOf(f).id = f.id /\ EventOf(f).pkttype = f.pkttype
      /\ EventOf(f).length = Received(f)
  BY DEF EventOf
<1>8. EventOK(EventOf(f))
  BY <1>1, <1>3, <1>7 DEF EventOK, Received
<1>9. ShownTo(s, EventOf(f))
  BY <1>7 DEF ShownTo
<1>10. QED
  BY <1>6, <1>7, <1>8, <1>9

LEMMA ReceiveKeeps ==
    ASSUME FramesInv, NEW s \in Sockets, ReceiveMessage(s)
    PROVE  FramesInv'
<1> DEFINE f == Head(rxq[s])
           m == EventOf(f)
<1>1. /\ rxq[s] # <<>> /\ got' = [got EXCEPT ![s] = Append(got[s], m)]
      /\ rxq' = [rxq EXCEPT ![s] = Tail(rxq[s])]
      /\ UNCHANGED <<device, sent, wire>>
  BY DEF ReceiveMessage
<1>2. /\ rxq \in [Sockets -> Seq(FrameType)] /\ got \in [Sockets -> Seq(EventType)]
      /\ rxq[s] \in Seq(FrameType) /\ got[s] \in Seq(EventType) /\ SocketOK(s)
  BY InvTypes
<1>3. /\ 1 \in DOMAIN rxq[s] /\ f = rxq[s][1] /\ f \in FrameType
      /\ Tail(rxq[s]) \in Seq(FrameType)
      /\ \A n \in DOMAIN Tail(rxq[s]) :
            n + 1 \in DOMAIN rxq[s] /\ Tail(rxq[s])[n] = rxq[s][n + 1]
  BY <1>1, <1>2, ShiftedElements
<1>4. FrameOK(f) /\ ShownTo(s, f)
  BY <1>2, <1>3 DEF SocketOK
<1>5. InOrder(rxq[s]) /\ InOrder(got[s]) /\ Before(got[s], rxq[s])
  BY <1>2 DEF SocketOK
<1>6. /\ InOrder(Tail(rxq[s]))
      /\ \A n \in DOMAIN Tail(rxq[s]) :
            f.pkttype = Tail(rxq[s])[n].pkttype => f.id < Tail(rxq[s])[n].id
  BY <1>1, <1>2, <1>5, ShiftedInOrder
<1>7. /\ Before(got[s], Tail(rxq[s]))
      /\ \A n \in DOMAIN got[s] : got[s][n].pkttype = f.pkttype => got[s][n].id < f.id
  BY <1>1, <1>2, <1>5, BeforeShifted
<1> HIDE DEF f
<1>8. m \in EventType /\ EventOK(m) /\ ShownTo(s, m) /\ m.id = f.id /\ m.pkttype = f.pkttype
  BY <1>3, <1>4, FrameReceived
<1> HIDE DEF m
<1>9. /\ rxq'[s] = Tail(rxq[s]) /\ got'[s] = Append(got[s], m)
      /\ Append(got[s], m) \in Seq(EventType)
      /\ \A n \in DOMAIN Append(got[s], m) :
            (n \in DOMAIN got[s] /\ Append(got[s], m)[n] = got[s][n]) \/ Append(got[s], m)[n] = m
  BY <1>1, <1>2, <1>8, PushedElements
<1>10. ASSUME NEW t \in Sockets, t # s
       PROVE  rxq'[t] = rxq[t] /\ got'[t] = got[t]
  BY <1>1, <1>2, <1>10
<1>11. FramesTypeOK'
  <2>1. rxq' \in [Sockets -> Seq(FrameType)] /\ got' \in [Sockets -> Seq(EventType)]
    BY <1>1, <1>2, <1>3, <1>9
  <2>2. QED
    BY <1>1, <2>1 DEF FramesInv, FramesTypeOK
<1>12. ASSUME NEW d \in Links
       PROVE  WireOK(d)'
  <2>1. wire[d] \in Seq(FrameType) /\ WireOK(d) /\ wire'[d] = wire[d]
    BY <1>1, InvTypes
  <2>2. ASSUME NEW t \in SocketsAt(d)
        PROVE  Before(rxq'[t], wire'[d]) /\ Before(got'[t], wire'[d])
    <3>1. Before(rxq[t], wire[d]) /\ Before(got[t], wire[d]) /\ t \in Sockets
      BY <2>1, LinkSockets DEF WireOK
    <3>2. CASE t # s
      BY <1>10, <2>1, <3>1, <3>2
    <3>3. CASE t = s
      <4>1. /\ Before(Tail(rxq[s]), wire[d])
            /\ \A n \in DOMAIN wire[d] : f.pkttype = wire[d][n].pkttype => f.id < wire[d][n].id
        BY <1>1, <1>2, <3>1, <3>3, ShiftedBefore DEF f
      <4>2. \A n \in DOMAIN wire[d] : m.pkttype = wire[d][n].pkttype => m.id < wire[d][n].id
        BY <1>8, <4>1
      <4>3. Before(Append(got[s], m), wire[d])
        BY <1>2, <1>8, <3>1, <3>3, <4>2, PushedBefore
      <4>4. QED
        BY <1>9, <2>1, <3>3, <4>1, <4>3
    <3>4. QED
      BY <3>2, <3>3
  <2>3. /\ InOrder(wire'[d])
        /\ \A n \in DOMAIN wire'[d] : \E k \in DOMAIN wire[d] : wire'[d][n] = wire[d][k]
    BY <2>1 DEF WireOK
  <2>4. QED
    BY <1>1, <2>1, <2>2, <2>3, SameWire
<1>13. SocketOK(s)'
  <2>1. InOrder(Append(got[s], m))
    <3>1. \A n \in DOMAIN got[s] : got[s][n].pkttype = m.pkttype => got[s][n].id < m.id
      BY <1>7, <1>8
    <3>2. QED
      BY <1>2, <1>5, <1>8, <3>1, PushedInOrder
  <2>2. Before(Append(got[s], m), Tail(rxq[s]))
    <3>1. \A n \in DOMAIN Tail(rxq[s]) :
              m.pkttype = Tail(rxq[s])[n].pkttype => m.id < Tail(rxq[s])[n].id
      BY <1>6, <1>8
    <3>2. QED
      BY <1>2, <1>7, <1>8, <3>1, PushedBefore
  <2>3. ASSUME NEW n \in DOMAIN rxq'[s]
        PROVE  FrameOK(rxq[s][n])' /\ ShownTo(s, rxq[s][n])'
    <3>1. n + 1 \in DOMAIN rxq[s] /\ rxq'[s][n] = rxq[s][n + 1]
      BY <1>3, <1>9
    <3>2. PICK x \in FrameType : x = rxq[s][n + 1]
      BY <1>2, <3>1, QueuedElement
    <3>3. FrameOK(x) /\ ShownTo(s, x)
      BY <1>2, <3>1, <3>2 DEF SocketOK
    <3>4. FrameOK(x)' /\ ShownTo(s, x)'
      BY <1>1, <3>3, SameFrames
    <3>5. x = rxq'[s][n]
      BY <3>1, <3>2
    <3>6. QED
      BY <3>4, <3>5
  <2>4. ASSUME NEW n \in DOMAIN got'[s]
        PROVE  EventOK(got[s][n])' /\ ShownTo(s, got[s][n])'
    <3>1. (n \in DOMAIN got[s] /\ got'[s][n] = got[s][n]) \/ got'[s][n] = m
      BY <1>9
    <3>2. PICK x \in EventType : x = got'[s][n] /\ EventOK(x) /\ ShownTo(s, x)
      <4>1. CASE n \in DOMAIN got[s] /\ got'[s][n] = got[s][n]
        <5>1. got[s][n] \in EventType
          BY <1>2, <4>1, QueuedElement
        <5>2. EventOK(got[s][n]) /\ ShownTo(s, got[s][n])
          BY <1>2, <4>1 DEF SocketOK
        <5>3. QED
          BY <4>1, <5>1, <5>2
      <4>2. CASE got'[s][n] = m
        BY <1>8, <4>2
      <4>3. QED
        BY <3>1, <4>1, <4>2
    <3>3. EventOK(x)' /\ ShownTo(s, x)'
      BY <1>1, <3>2, SameFrames
    <3>4. QED
      BY <3>2, <3>3
  <2>5. QED
    BY <1>6, <1>9, <2>1, <2>2, <2>3, <2>4 DEF SocketOK
<1>14. ASSUME NEW t \in Sockets
       PROVE  SocketOK(t)'
  <2>1. CASE t = s
    BY <1>13, <2>1
  <2>2. CASE t # s
    BY <1>1, <1>10, <2>2, SameSocket
  <2>3. QED
    BY <2>1, <2>2
<1>15. QED
  BY <1>11, <1>12, <1>14 DEF FramesInv, Links

-----------------------------------------------------------------------------
(* The theorems.                                                           *)

LEMMA InitInv == Init => FramesInv
<1>1. SUFFICES ASSUME Init
               PROVE  FramesInv
  OBVIOUS
<1>2. /\ device \in {"ethernet", "lo"} /\ sent = <<>>
      /\ wire = [d \in {"near", "far"} |-> <<>>]
      /\ rxq = [s \in Sockets |-> <<>>] /\ got = [s \in Sockets |-> <<>>]
  BY <1>1 DEF Init
<1>3. FramesTypeOK
  BY <1>2, EmptySeq DEF FramesTypeOK
<1>4. \A s \in Sockets : rxq[s] = <<>> /\ got[s] = <<>>
  BY <1>2
<1>5. \A d \in {"near", "far"} : wire[d] = <<>>
  BY <1>2
<1>6. InOrder(<<>>) /\ \A p : Before(p, <<>>)
  BY DEF InOrder, Before
<1>7. \A s \in Sockets : SocketOK(s)
  BY <1>4, <1>6 DEF SocketOK
<1>8. \A d \in {"near", "far"} : WireOK(d)
  BY <1>5, <1>6 DEF WireOK
<1>9. QED
  BY <1>3, <1>7, <1>8 DEF FramesInv

LEMMA StepInv == FramesInv /\ [Next]_vars => FramesInv'
<1>1. SUFFICES ASSUME FramesInv, [Next]_vars
               PROVE  FramesInv'
  OBVIOUS
<1>2. ASSUME NEW s \in Sockets, NEW length \in Lengths, SendMessage(s, length)
      PROVE  FramesInv'
  BY <1>1, <1>2, SendKeeps
<1>3. ASSUME NEW s \in Sockets, ReceiveMessage(s)
      PROVE  FramesInv'
  BY <1>1, <1>3, ReceiveKeeps
<1>4. ASSUME NEW d \in {"near", "far"}, Arrives(d) \/ Lost(d)
      PROVE  FramesInv'
  BY <1>1, <1>4, ArrivesKeeps, LostKeeps DEF Links
<1>5. CASE UNCHANGED vars
  <2>1. UNCHANGED <<device, sent, wire, rxq, got>>
    BY <1>5 DEF vars
  <2>2. FramesTypeOK'
    BY <1>1, <2>1 DEF FramesInv, FramesTypeOK
  <2>3. \A s \in Sockets : SocketOK(s)'
    BY <1>1, <2>1, SameSocket
  <2>4. ASSUME NEW d \in Links
        PROVE  WireOK(d)'
    <3>1. wire[d] \in Seq(FrameType) /\ WireOK(d)
      BY <1>1, InvTypes
    <3>2. /\ InOrder(wire'[d])
          /\ \A n \in DOMAIN wire'[d] : \E k \in DOMAIN wire[d] : wire'[d][n] = wire[d][k]
          /\ \A s \in SocketsAt(d) : Before(rxq'[s], wire'[d]) /\ Before(got'[s], wire'[d])
      BY <2>1, <3>1 DEF WireOK
    <3>3. QED
      BY <2>1, <3>1, <3>2, SameWire
  <2>5. QED
    BY <2>2, <2>3, <2>4 DEF FramesInv, Links
<1>6. QED
  BY <1>1, <1>2, <1>3, <1>4, <1>5 DEF Next

\* The inductive invariant: every frame and every event is what the device makes of a message
\* that was sent, and each way to a socket keeps the order of sending.
THEOREM Invariant == Spec => []FramesInv
BY InitInv, StepInv, PTL DEF Spec

\* What the invariant says of an event.
LEMMA EventFacts ==
    ASSUME FramesInv, NEW s \in Sockets, NEW n \in DOMAIN got[s]
    PROVE  /\ got[s][n] \in EventType /\ EventOK(got[s][n]) /\ ShownTo(s, got[s][n])
           /\ got[s][n].id \in DOMAIN sent /\ sent[got[s][n].id].length \in Nat
           /\ got[s][n].pkttype \in PacketTypes
<1>1. got[s] \in Seq(EventType) /\ SocketOK(s)
  BY InvTypes
<1>2. got[s][n] \in EventType
  BY <1>1, QueuedElement
<1>3. EventOK(got[s][n]) /\ ShownTo(s, got[s][n])
  BY <1>1 DEF SocketOK
<1>4. got[s][n].id \in DOMAIN sent
  BY <1>3 DEF EventOK
<1>5. QED
  BY <1>2, <1>3, <1>4, SentLength DEF EventType

\* Messages that are neither padded nor cut arrive as long as they were sent
\* (socket.cc lines 70 and 121).
THEOREM WholeMessages == Spec => []WholeMessage
<1>1. FramesInv => WholeMessage
  <2>1. SUFFICES ASSUME FramesInv, NEW s \in Sockets, NEW n \in DOMAIN got[s],
                        sent[got[s][n].id].length \in 46 .. MAX_RECEIVE_BUFFER_SIZE
                 PROVE  got[s][n].length = sent[got[s][n].id].length
    BY DEF WholeMessage, Messages, Original
  <2>2. PICK length \in Nat : length = sent[got[s][n].id].length
    BY <2>1, EventFacts
  <2>3. got[s][n].length = Smaller(BytesSeen(got[s][n].id, got[s][n].pkttype),
                                   Header + MAX_RECEIVE_BUFFER_SIZE) - Header
    BY <2>1, EventFacts DEF EventOK
  <2>4. length >= 46 /\ length <= MAX_RECEIVE_BUFFER_SIZE
    <3>1. PICK max \in Nat : max = MAX_RECEIVE_BUFFER_SIZE
      BY DEF MAX_RECEIVE_BUFFER_SIZE
    <3>2. length \in 46 .. max
      BY <2>1, <2>2, <3>1
    <3>3. length >= 46 /\ length <= max
      BY <3>2
    <3>4. QED
      BY <3>1, <3>3
  <2>5. BytesSeen(got[s][n].id, got[s][n].pkttype) = Header + length
    BY <2>2, <2>4 DEF BytesSeen, Larger, MinFrame, Header
  <2>6. QED
    BY <2>2, <2>3, <2>4, <2>5 DEF Smaller, Header, MAX_RECEIVE_BUFFER_SIZE
<1>2. QED
  BY <1>1, Invariant, PTL

\* Only a full buffer shortens a message (wrapper.cc lines 226 to 230).
THEOREM CutOnlyByBuffer == Spec => []CutAtBufferOnly
<1>1. FramesInv => CutAtBufferOnly
  <2>1. SUFFICES ASSUME FramesInv, NEW s \in Sockets, NEW n \in DOMAIN got[s],
                        got[s][n].length < sent[got[s][n].id].length
                 PROVE  got[s][n].length = MAX_RECEIVE_BUFFER_SIZE
    BY DEF CutAtBufferOnly, Messages, Original
  <2>2. PICK length \in Nat : length = sent[got[s][n].id].length
    BY <2>1, EventFacts
  <2>3. got[s][n].length = Smaller(BytesSeen(got[s][n].id, got[s][n].pkttype),
                                   Header + MAX_RECEIVE_BUFFER_SIZE) - Header
    BY <2>1, EventFacts DEF EventOK
  <2>4. PICK bytes \in Nat : /\ bytes = BytesSeen(got[s][n].id, got[s][n].pkttype)
                             /\ bytes >= Header + length
    BY <2>2 DEF BytesSeen, Larger, MinFrame, Header
  <2>5. QED
    BY <2>1, <2>2, <2>3, <2>4 DEF Smaller, Header, MAX_RECEIVE_BUFFER_SIZE
<1>2. QED
  BY <1>1, Invariant, PTL

\* What one socket hears of another is in order and heard once on each way (socket.cc lines
\* 37 to 43 and 113).
THEOREM HeardInOrder == Spec => []OnceInOrder
<1>1. FramesInv => OnceInOrder
  <2>1. ASSUME FramesInv, NEW s \in Sockets, NEW n \in DOMAIN got[s],
               sent[got[s][n].id].from = s
        PROVE  device = "lo" /\ got[s][n].pkttype = "host"
    <3>1. ShownTo(s, got[s][n]) /\ got[s][n].pkttype \in PacketTypes
      BY <2>1, EventFacts
    <3>2. got[s][n].pkttype # "outgoing"
      BY <2>1, <3>1 DEF ShownTo
    <3>3. s \in Station(s)
      BY DEF Station, Sockets
    <3>4. QED
      BY <2>1, <3>1, <3>2, <3>3 DEF ShownTo, PacketTypes
  <2>2. ASSUME FramesInv, NEW s \in Sockets, NEW i \in DOMAIN got[s], NEW j \in DOMAIN got[s],
               i < j, sent[got[s][i].id].from = sent[got[s][j].id].from,
               device = "ethernet" \/ got[s][i].pkttype = got[s][j].pkttype
        PROVE  got[s][i].id < got[s][j].id
    <3>1. /\ ShownTo(s, got[s][i]) /\ got[s][i].pkttype \in PacketTypes
          /\ ShownTo(s, got[s][j]) /\ got[s][j].pkttype \in PacketTypes
      BY <2>2, EventFacts
    <3>2. got[s][i].pkttype = got[s][j].pkttype
      BY <2>2, <3>1 DEF ShownTo, PacketTypes
    <3>3. InOrder(got[s])
      BY <2>2, InvTypes DEF SocketOK
    <3>4. QED
      BY <2>2, <3>2, <3>3 DEF InOrder
  <2>3. QED
    BY <2>1, <2>2 DEF OnceInOrder, Messages, Original
<1>2. QED
  BY <1>1, Invariant, PTL

-----------------------------------------------------------------------------
(* The sockets implement FrameService.                                     *)

\* The events of a stream, with lengths that need not be bounded here.
StreamType == EventType \cup {EventOf(f) : f \in FrameType}

LEMMA EventsSeq ==
    ASSUME NEW q \in Seq(FrameType)
    PROVE  /\ EventsOf(q) \in Seq(StreamType)
           /\ Len(EventsOf(q)) = Len(q) /\ Len(q) \in Nat
           /\ \A n \in 1 .. Len(q) : EventsOf(q)[n] = EventOf(q[n])
<1>1. Len(q) \in Nat /\ DOMAIN q = 1 .. Len(q) /\ \A n \in 1 .. Len(q) : q[n] \in FrameType
  BY LenProperties
<1>2. EventsOf(q) \in [1 .. Len(q) -> StreamType]
  BY <1>1 DEF EventsOf, StreamType
<1>3. EventsOf(q) \in Seq(StreamType)
  BY <1>1, <1>2, FunctionIsSeq
<1>4. Len(EventsOf(q)) = Len(q)
  <2>1. DOMAIN EventsOf(q) = 1 .. Len(q)
    BY <1>2
  <2>2. Len(EventsOf(q)) \in Nat /\ DOMAIN EventsOf(q) = 1 .. Len(EventsOf(q))
    BY <1>3, LenProperties
  <2>3. QED
    BY <1>1, <2>1, <2>2
<1>5. QED
  BY <1>1, <1>3, <1>4 DEF EventsOf

\* What a stream holds: what has been heard, and the events of what is queued.
LEMMA StreamParts ==
    ASSUME NEW p \in Seq(StreamType), NEW q \in Seq(FrameType)
    PROVE  /\ p \o EventsOf(q) \in Seq(StreamType)
           /\ Len(p \o EventsOf(q)) = Len(p) + Len(q) /\ Len(p) \in Nat /\ Len(q) \in Nat
           /\ \A i \in 1 .. Len(p) : (p \o EventsOf(q))[i] = p[i]
           /\ \A n \in 1 .. Len(q) : (p \o EventsOf(q))[Len(p) + n] = EventOf(q[n])
<1>1. PICK r \in Seq(StreamType) :
          /\ r = EventsOf(q) /\ Len(r) = Len(q)
          /\ \A n \in 1 .. Len(q) : r[n] = EventOf(q[n])
  BY EventsSeq
<1>2. Len(p) \in Nat /\ Len(q) \in Nat
  BY LenProperties
<1>3. /\ p \o r \in Seq(StreamType) /\ Len(p \o r) = Len(p) + Len(r)
      /\ \A i \in 1 .. Len(p) + Len(r) :
            (p \o r)[i] = IF i <= Len(p) THEN p[i] ELSE r[i - Len(p)]
  BY ConcatProperties
<1>4. ASSUME NEW i \in 1 .. Len(p)
      PROVE  (p \o r)[i] = p[i]
  <2>1. i \in 1 .. Len(p) + Len(r) /\ i <= Len(p)
    BY <1>1, <1>2
  <2>2. QED
    BY <1>3, <2>1
<1>5. ASSUME NEW n \in 1 .. Len(q)
      PROVE  (p \o r)[Len(p) + n] = EventOf(q[n])
  <2>1. /\ Len(p) + n \in 1 .. Len(p) + Len(r) /\ ~(Len(p) + n <= Len(p))
        /\ (Len(p) + n) - Len(p) = n
    BY <1>1, <1>2
  <2>2. QED
    BY <1>1, <1>3, <2>1
<1>6. QED
  BY <1>1, <1>2, <1>3, <1>4, <1>5

\* A frame put into a queue adds its event at the end of the stream.
LEMMA EventsPushed ==
    ASSUME NEW p \in Seq(StreamType), NEW q \in Seq(FrameType), NEW f \in FrameType
    PROVE  p \o EventsOf(Append(q, f)) = Append(p \o EventsOf(q), EventOf(f))
<1>1. PICK more \in Seq(FrameType) :
          /\ more = Append(q, f) /\ Len(more) = Len(q) + 1
          /\ \A n \in 1 .. Len(q) : more[n] = q[n]
          /\ more[Len(q) + 1] = f
  BY AppendProperties
<1>2. PICK e \in StreamType : e = EventOf(f)
  BY DEF StreamType
<1>3. PICK all \in Seq(StreamType) :
          /\ all = p \o EventsOf(more)
          /\ Len(all) = Len(p) + Len(more)
          /\ \A i \in 1 .. Len(p) : all[i] = p[i]
          /\ \A n \in 1 .. Len(more) : all[Len(p) + n] = EventOf(more[n])
  BY StreamParts
<1>4. PICK old \in Seq(StreamType) :
          /\ old = p \o EventsOf(q)
          /\ Len(old) = Len(p) + Len(q) /\ Len(p) \in Nat /\ Len(q) \in Nat
          /\ \A i \in 1 .. Len(p) : old[i] = p[i]
          /\ \A n \in 1 .. Len(q) : old[Len(p) + n] = EventOf(q[n])
  BY StreamParts
<1>5. PICK new \in Seq(StreamType) :
          /\ new = Append(old, e) /\ Len(new) = Len(old) + 1
          /\ \A i \in 1 .. Len(old) : new[i] = old[i]
          /\ new[Len(old) + 1] = e
  BY AppendProperties
<1>6. ASSUME NEW i \in 1 .. Len(all)
      PROVE  all[i] = new[i]
  <2>1. CASE i <= Len(p)
    <3>1. i \in 1 .. Len(p) /\ i \in 1 .. Len(old)
      BY <1>4, <2>1
    <3>2. QED
      BY <1>3, <1>4, <1>5, <3>1
  <2>2. CASE i > Len(p) /\ i <= Len(p) + Len(q)
    <3>1. PICK n \in 1 .. Len(q) : i = Len(p) + n
      <4>1. i - Len(p) \in 1 .. Len(q) /\ i = Len(p) + (i - Len(p))
        BY <1>4, <2>2
      <4>2. QED
        BY <4>1
    <3>2. n \in 1 .. Len(q) + 1 /\ i \in 1 .. Len(old)
      BY <1>4, <2>2
    <3>3. all[i] = EventOf(q[n])
      BY <1>1, <1>3, <3>1, <3>2
    <3>4. QED
      BY <1>4, <1>5, <3>1, <3>2, <3>3
  <2>3. CASE i = Len(p) + (Len(q) + 1)
    <3>1. Len(q) + 1 \in 1 .. Len(q) + 1 /\ i = Len(old) + 1
      BY <1>4, <2>3
    <3>2. all[i] = e
      BY <1>1, <1>2, <1>3, <2>3, <3>1
    <3>3. QED
      BY <1>5, <3>1, <3>2
  <2>4. Len(p) \in Nat /\ Len(q) \in Nat /\ Len(all) = Len(p) + (Len(q) + 1)
    BY <1>1, <1>3, <1>4
  <2>5. i <= Len(p) \/ (i > Len(p) /\ i <= Len(p) + Len(q)) \/ i = Len(p) + (Len(q) + 1)
    BY <2>4
  <2>6. QED
    BY <2>1, <2>2, <2>3, <2>5
<1>7. Len(all) = Len(new)
  <2>1. /\ Len(p) \in Nat /\ Len(q) \in Nat
        /\ Len(all) = Len(p) + (Len(q) + 1)
        /\ Len(old) = Len(p) + Len(q) /\ Len(new) = Len(old) + 1
    BY <1>1, <1>3, <1>4, <1>5
  <2>2. QED
    BY <2>1
<1>8. all = new
  BY <1>6, <1>7, SeqEqual
<1>9. QED
  BY <1>1, <1>2, <1>3, <1>4, <1>5, <1>8

\* Reading a frame moves its event from the queue to the listeners: the stream stays.
LEMMA EventsShifted ==
    ASSUME NEW p \in Seq(StreamType), NEW q \in Seq(FrameType), q # <<>>
    PROVE  Append(p, EventOf(Head(q))) \o EventsOf(Tail(q)) = p \o EventsOf(q)
<1>0. Head(q) \in FrameType /\ Head(q) = q[1] /\ Len(p) \in Nat /\ Len(q) \in Nat \ {0}
  <2>1. Head(q) \in FrameType /\ Head(q) = q[1]
    BY HeadTailProperties
  <2>2. Len(p) \in Nat
    BY LenProperties
  <2>3. Len(q) \in Nat \ {0}
    BY EmptySeq
  <2>4. QED
    BY <2>1, <2>2, <2>3
<1>1. PICK rest \in Seq(FrameType) :
          /\ rest = Tail(q) /\ Len(rest) = Len(q) - 1
          /\ \A n \in 1 .. Len(rest) : rest[n] = q[n + 1]
          /\ Head(q) \in FrameType /\ Head(q) = q[1]
          /\ Len(q) \in Nat /\ Len(q) # 0 /\ Len(p) \in Nat
  BY <1>0, HeadTailProperties
<1>2. PICK e \in StreamType : e = EventOf(Head(q)) /\ e = EventOf(q[1])
  BY <1>1 DEF StreamType
<1>3. PICK front \in Seq(StreamType) :
          /\ front = Append(p, e) /\ Len(front) = Len(p) + 1
          /\ \A i \in 1 .. Len(p) : front[i] = p[i]
          /\ front[Len(p) + 1] = e
  BY AppendProperties
<1>4. PICK all \in Seq(StreamType) :
          /\ all = front \o EventsOf(rest)
          /\ Len(all) = Len(front) + Len(rest)
          /\ \A i \in 1 .. Len(front) : all[i] = front[i]
          /\ \A n \in 1 .. Len(rest) : all[Len(front) + n] = EventOf(rest[n])
  BY StreamParts
<1>5. PICK old \in Seq(StreamType) :
          /\ old = p \o EventsOf(q)
          /\ Len(old) = Len(p) + Len(q)
          /\ \A i \in 1 .. Len(p) : old[i] = p[i]
          /\ \A n \in 1 .. Len(q) : old[Len(p) + n] = EventOf(q[n])
  BY StreamParts
<1>6. Len(all) = Len(p) + Len(q)
  <2>1. /\ Len(p) \in Nat /\ Len(q) \in Nat /\ Len(rest) = Len(q) - 1
        /\ Len(front) = Len(p) + 1 /\ Len(all) = Len(front) + Len(rest)
    BY <1>1, <1>3, <1>4
  <2>2. QED
    BY <2>1
<1>7. ASSUME NEW i \in 1 .. Len(all)
      PROVE  all[i] = old[i]
  <2>1. CASE i <= Len(p)
    <3>1. i \in 1 .. Len(p) /\ i \in 1 .. Len(front)
      BY <1>1, <1>3, <2>1
    <3>2. QED
      BY <1>3, <1>4, <1>5, <3>1
  <2>2. CASE i = Len(p) + 1
    <3>1. 1 \in 1 .. Len(q) /\ i \in 1 .. Len(front) /\ i = Len(front)
      BY <1>1, <1>3, <2>2
    <3>2. QED
      BY <1>2, <1>3, <1>4, <1>5, <2>2, <3>1
  <2>3. CASE i > Len(p) + 1 /\ i <= Len(p) + Len(q)
    <3>1. PICK n \in 1 .. Len(rest) : i = Len(p) + (n + 1)
      <4>1. /\ i - (Len(p) + 1) \in 1 .. Len(rest)
            /\ i = Len(p) + ((i - (Len(p) + 1)) + 1)
        BY <1>1, <2>3
      <4>2. QED
        BY <4>1
    <3>2. n + 1 \in 1 .. Len(q) /\ i = Len(front) + n
      BY <1>1, <1>3, <3>1
    <3>3. all[i] = EventOf(q[n + 1])
      BY <1>1, <1>4, <3>1, <3>2
    <3>4. QED
      BY <1>5, <3>1, <3>2, <3>3
  <2>4. i <= Len(p) \/ i = Len(p) + 1 \/ (i > Len(p) + 1 /\ i <= Len(p) + Len(q))
    BY <1>1, <1>6
  <2>5. QED
    BY <2>1, <2>2, <2>3, <2>4
<1>8. all = old
  BY <1>5, <1>6, <1>7, SeqEqual
<1>9. QED
  BY <1>1, <1>2, <1>3, <1>4, <1>5, <1>8

\* A socket's stream before and after a step.
LEMMA StreamSteps ==
    ASSUME FramesInv, NEW s \in Sockets
    PROVE  /\ rxq[s] \in Seq(FrameType) /\ got[s] \in Seq(StreamType)
           /\ Stream[s] = got[s] \o EventsOf(rxq[s]) /\ Heard[s] = Len(got[s])
           /\ Heard[s] \in Nat /\ Len(rxq[s]) \in Nat
           /\ Len(Stream[s]) = Heard[s] + Len(rxq[s])
           /\ Stream[s] \in Seq(StreamType)
           /\ \A i \in 1 .. Heard[s] : Stream[s][i] = got[s][i]
           /\ \A k \in 1 .. Len(rxq[s]) : Stream[s][Heard[s] + k] = EventOf(rxq[s][k])
<1>1. rxq[s] \in Seq(FrameType) /\ got[s] \in Seq(EventType)
  BY InvTypes
<1>2. got[s] \in Seq(StreamType)
  BY <1>1, SeqMonotonic DEF StreamType
<1>3. Stream[s] = got[s] \o EventsOf(rxq[s]) /\ Heard[s] = Len(got[s])
  BY DEF Stream, Heard
<1>4. PICK p \in Seq(StreamType), q \in Seq(FrameType) : p = got[s] /\ q = rxq[s]
  BY <1>1, <1>2
<1>5. /\ p \o EventsOf(q) \in Seq(StreamType)
      /\ Len(p \o EventsOf(q)) = Len(p) + Len(q) /\ Len(p) \in Nat /\ Len(q) \in Nat
      /\ \A i \in 1 .. Len(p) : (p \o EventsOf(q))[i] = p[i]
      /\ \A k \in 1 .. Len(q) : (p \o EventsOf(q))[Len(p) + k] = EventOf(q[k])
  BY StreamParts
<1>6. Stream[s] = p \o EventsOf(q) /\ Heard[s] = Len(p)
  BY <1>3, <1>4
<1>7. QED
  BY <1>1, <1>2, <1>3, <1>4, <1>5, <1>6

\* What the kernel queues becomes a promise to the sockets that it queues it for.
LEMMA QueuedIsPromised ==
    ASSUME FramesInv, NEW f \in FrameType, NEW to, Enqueue(to, f), got' = got
    PROVE  Service!Promise(to, EventOf(f)) /\ Heard' = Heard
<1>1. PICK some \in SUBSET to : rxq' = Queued(some, f)
  BY DEF Enqueue
<1>2. ASSUME NEW s \in Sockets
      PROVE  Stream'[s] = IF s \in some THEN Append(Stream[s], EventOf(f)) ELSE Stream[s]
  <2>1. Stream'[s] = got[s] \o EventsOf(rxq'[s])
    BY DEF Stream
  <2>2. /\ rxq[s] \in Seq(FrameType) /\ got[s] \in Seq(StreamType)
        /\ Stream[s] = got[s] \o EventsOf(rxq[s])
    BY StreamSteps
  <2>3. CASE s \in some
    <3>1. rxq'[s] = Append(rxq[s], f)
      BY <1>1, <2>3 DEF Queued
    <3>2. QED
      BY <2>1, <2>2, <2>3, <3>1, EventsPushed
  <2>4. CASE s \notin some
    <3>1. rxq'[s] = rxq[s]
      BY <1>1, <2>4 DEF Queued
    <3>2. QED
      BY <2>1, <2>2, <2>4, <3>1
  <2>5. QED
    BY <2>3, <2>4
<1>3. Stream' = [s \in Sockets |->
                   IF s \in some THEN Append(Stream[s], EventOf(f)) ELSE Stream[s]]
  BY <1>2 DEF Stream
<1>4. Heard' = Heard
  BY DEF Heard
<1>5. QED
  BY <1>3, <1>4 DEF Service!Promise, Service!Sockets, Sockets

\* A frame as it left is read as the event that is promised for it.
LEMMA OutgoingEvent ==
    ASSUME NEW length \in Nat
    PROVE  EventOf(FrameOf(length)) = Service!Event(Len(sent) + 1, length, "outgoing")
<1>1. Service!Padded(length, "outgoing") = length
  BY DEF Service!Padded
<1>2. Received(FrameOf(length)) = IF length < 2048 THEN length ELSE 2048
  <2>1. FrameOf(length).bytes = 14 + length
    BY DEF FrameOf, Header
  <2>2. QED
    BY <2>1 DEF Received, Smaller, Header, MAX_RECEIVE_BUFFER_SIZE
<1>3. FrameOf(length).id = Len(sent) + 1 /\ FrameOf(length).pkttype = "outgoing"
  BY DEF FrameOf
<1>4. QED
  BY <1>1, <1>2, <1>3 DEF EventOf, Service!Event, Service!Longest

\* So is a frame as it arrives.
LEMMA ArrivingEvent ==
    ASSUME FramesInv, NEW f \in FrameType, FrameOK(f), f.pkttype = "host"
    PROVE  EventOf(f) = Service!Event(f.id, sent[f.id].length, "host")
<1>1. f.id \in DOMAIN sent /\ f.bytes = BytesSeen(f.id, "host")
  BY DEF FrameOK
<1>2. PICK length \in Nat : length = sent[f.id].length
  BY <1>1, SentLength
<1>3. device \in {"ethernet", "lo"}
  BY InvTypes
<1>4. PICK padded \in Nat : padded = Service!Padded(length, "host")
  BY DEF Service!Padded, Service!Shortest
<1>5. f.bytes = 14 + padded
  <2>1. CASE device = "lo"
    BY <1>1, <1>2, <1>4, <2>1 DEF BytesSeen, Service!Padded, Header
  <2>2. CASE device = "ethernet"
    <3>1. padded = IF length < 46 THEN 46 ELSE length
      BY <1>4, <2>2 DEF Service!Padded, Service!Shortest
    <3>2. f.bytes = IF 14 + length < 60 THEN 60 ELSE 14 + length
      BY <1>1, <1>2, <2>2 DEF BytesSeen, Larger, Header, MinFrame
    <3>3. QED
      BY <3>1, <3>2
  <2>3. QED
    BY <1>3, <2>1, <2>2
<1>6. Received(f) = IF padded < 2048 THEN padded ELSE 2048
  BY <1>5 DEF Received, Smaller, Header, MAX_RECEIVE_BUFFER_SIZE
<1>7. QED
  BY <1>2, <1>4, <1>6 DEF EventOf, Service!Event, Service!Longest

LEMMA RefinesSend ==
    ASSUME FramesInv, NEW s \in Sockets, NEW length \in Lengths, SendMessage(s, length)
    PROVE  Service!Send(s, length)
<1>1. length \in Nat /\ sent \in Seq(SentType)
  BY FramesAssumption, InvTypes
<1>2. [from |-> s, length |-> length] \in SentType
  BY DEF SentType
<1>3. PICK f \in FrameType : f = FrameOf(length)
  BY <1>1, <1>2, NewFrames DEF SendMessage
<1>4. Enqueue(Station(s) \ {s}, f) /\ UNCHANGED <<device, got>>
  BY <1>3 DEF SendMessage
<1>5. Service!Promise(Station(s) \ {s}, EventOf(f)) /\ Heard' = Heard
  BY <1>4, QueuedIsPromised
<1>6. EventOf(f) = Service!Event(Len(sent) + 1, length, "outgoing")
  BY <1>1, <1>3, OutgoingEvent
<1>7. Service!Beside(s) = Station(s) \ {s}
  BY DEF Service!Beside, Station
<1>8. /\ device = "lo" => s \in Near
      /\ sent' = Append(sent, [from |-> s, length |-> length])
  BY DEF SendMessage
<1>9. QED
  BY <1>4, <1>5, <1>6, <1>7, <1>8 DEF Service!Send

\* Nobody has heard yet, or will be read before, what comes after an arriving frame.
LEMMA RefinesArrives ==
    ASSUME FramesInv, NEW d \in Links, Arrives(d)
    PROVE  (\E id \in DOMAIN sent : Service!Carry(id)) \/ UNCHANGED <<device, sent, Stream, Heard>>
<1>1. PICK f \in FrameType :
          /\ f = Head(wire[d]) /\ f.pkttype = "host" /\ FrameOK(f)
          /\ \A s \in SocketsAt(d) :
               /\ ShownTo(s, f)
               /\ \A n \in DOMAIN rxq[s] : rxq[s][n].pkttype = "host" => rxq[s][n].id < f.id
               /\ \A n \in DOMAIN got[s] : got[s][n].pkttype = "host" => got[s][n].id < f.id
  BY TailWire DEF Arrives
<1>2. Enqueue(SocketsAt(d), f) /\ UNCHANGED <<device, sent, got>>
  BY <1>1 DEF Arrives
<1>3. Service!Promise(SocketsAt(d), EventOf(f)) /\ Heard' = Heard
  BY <1>2, QueuedIsPromised
<1>4. EventOf(f) = Service!Event(f.id, sent[f.id].length, "host")
  BY <1>1, ArrivingEvent
<1>5. f.id \in DOMAIN sent /\ sent[f.id].from \in Sockets /\ device \in {"ethernet", "lo"}
  BY <1>1, InvTypes, SentLength DEF FrameOK
<1>6. CASE SocketsAt(d) = {}
  <2>1. rxq' = rxq
    <3>1. rxq' = Queued({}, f)
      BY <1>2, <1>6 DEF Enqueue
    <3>2. rxq \in [Sockets -> Seq(FrameType)]
      BY InvTypes
    <3>3. QED
      BY <3>1, <3>2 DEF Queued
  <2>2. QED
    BY <1>2, <1>3, <2>1 DEF Stream
<1>7. CASE SocketsAt(d) # {}
  <2>1. Service!Opposite(sent[f.id].from) = SocketsAt(d)
    <3>1. PICK s \in SocketsAt(d) : ShownTo(s, f)
      BY <1>1, <1>7
    <3>2. Near \cap Far = {} /\ d \in {"near", "far"}
      BY FramesAssumption DEF Links
    <3>3. CASE device = "lo"
      <4>1. s \in Near
        BY <1>1, <3>1, <3>3 DEF ShownTo
      <4>2. QED
        BY <3>1, <3>2, <3>3, <4>1 DEF SocketsAt, Service!Opposite
    <3>4. CASE device = "ethernet"
      <4>1. sent[f.id].from \notin Station(s)
        BY <1>1, <3>1, <3>4 DEF ShownTo
      <4>2. QED
        BY <1>5, <3>1, <3>2, <3>4, <4>1
           DEF SocketsAt, Station, Sockets, Service!Opposite
    <3>5. QED
      BY <1>5, <3>3, <3>4
  <2>2. ASSUME NEW s \in SocketsAt(d), NEW n \in DOMAIN Stream[s], Stream[s][n].pkttype = "host"
        PROVE  Stream[s][n].id < f.id
    <3>1. s \in Sockets
      BY LinkSockets
    <3>2. PICK heard \in Nat, queued \in Nat :
              /\ heard = Heard[s] /\ queued = Len(rxq[s])
              /\ heard = Len(got[s]) /\ Len(Stream[s]) = heard + queued
      BY <3>1, StreamSteps
    <3>3. DOMAIN rxq[s] = 1 .. queued /\ DOMAIN got[s] = 1 .. heard
      BY <3>1, <3>2, StreamSteps, LenProperties
    <3>4. n \in 1 .. heard + queued
      <4>1. Stream[s] \in Seq(StreamType)
        BY <3>1, StreamSteps
      <4>2. QED
        BY <3>2, <4>1, LenProperties
    <3>5. CASE n <= heard
      <4>1. n \in 1 .. heard
        BY <3>4, <3>5
      <4>2. n \in DOMAIN got[s] /\ Stream[s][n] = got[s][n]
        BY <3>1, <3>2, <3>3, <4>1, StreamSteps
      <4>3. QED
        BY <1>1, <2>2, <4>2
    <3>6. CASE n > heard
      <4>1. PICK k \in 1 .. queued : n = heard + k
        <5>1. n - heard \in 1 .. queued /\ n = heard + (n - heard)
          BY <3>4, <3>6
        <5>2. QED
          BY <5>1
      <4>2. k \in DOMAIN rxq[s] /\ Stream[s][n] = EventOf(rxq[s][k])
        BY <3>1, <3>2, <3>3, <4>1, StreamSteps
      <4>3. Stream[s][n].id = rxq[s][k].id /\ Stream[s][n].pkttype = rxq[s][k].pkttype
        BY <4>2 DEF EventOf
      <4>4. QED
        BY <1>1, <2>2, <4>2, <4>3
    <3>7. QED
      BY <3>4, <3>5, <3>6
  <2>3. Service!Carry(f.id)
    BY <1>2, <1>3, <1>4, <2>1, <2>2 DEF Service!Carry
  <2>4. QED
    BY <1>5, <2>3
<1>8. QED
  BY <1>6, <1>7

LEMMA RefinesReceive ==
    ASSUME FramesInv, NEW s \in Sockets, ReceiveMessage(s)
    PROVE  Service!Hear(s)
<1>1. /\ rxq[s] # <<>> /\ got' = [got EXCEPT ![s] = Append(got[s], EventOf(Head(rxq[s])))]
      /\ rxq' = [rxq EXCEPT ![s] = Tail(rxq[s])]
      /\ UNCHANGED <<device, sent>>
  BY DEF ReceiveMessage
<1>2. rxq \in [Sockets -> Seq(FrameType)] /\ got \in [Sockets -> Seq(EventType)]
  BY InvTypes
<1>3. /\ rxq[s] \in Seq(FrameType) /\ got[s] \in Seq(StreamType)
      /\ Stream[s] = got[s] \o EventsOf(rxq[s]) /\ Heard[s] = Len(got[s])
      /\ Heard[s] \in Nat /\ Len(Stream[s]) = Heard[s] + Len(rxq[s])
  BY StreamSteps
<1>4. Heard[s] < Len(Stream[s])
  <2>1. Len(rxq[s]) \in Nat \ {0}
    BY <1>1, <1>3, EmptySeq
  <2>2. PICK heard \in Nat, queued \in Nat :
            heard = Heard[s] /\ queued = Len(rxq[s]) /\ Len(Stream[s]) = heard + queued
    BY <1>3, <2>1
  <2>3. QED
    BY <2>1, <2>2
<1>5. /\ got'[s] = Append(got[s], EventOf(Head(rxq[s]))) /\ rxq'[s] = Tail(rxq[s])
      /\ \A t \in Sockets : t # s => got'[t] = got[t] /\ rxq'[t] = rxq[t]
  BY <1>1, <1>2
<1>6. Stream' = Stream
  <2>1. ASSUME NEW t \in Sockets
        PROVE  got'[t] \o EventsOf(rxq'[t]) = got[t] \o EventsOf(rxq[t])
    <3>1. CASE t = s
      <4>1. Append(got[s], EventOf(Head(rxq[s]))) \o EventsOf(Tail(rxq[s]))
              = got[s] \o EventsOf(rxq[s])
        BY <1>1, <1>3, EventsShifted
      <4>2. QED
        BY <1>5, <3>1, <4>1
    <3>2. CASE t # s
      BY <1>5, <3>2
    <3>3. QED
      BY <3>1, <3>2
  <2>2. QED
    BY <2>1 DEF Stream
<1>7. Heard' = [Heard EXCEPT ![s] = Heard[s] + 1]
  <2>1. Len(got'[s]) = Len(got[s]) + 1
    <3>1. EventOf(Head(rxq[s])) \in StreamType
      BY <1>1, <1>3, HeadTailProperties DEF StreamType
    <3>2. QED
      BY <1>3, <1>5, <3>1, AppendProperties
  <2>2. ASSUME NEW t \in Sockets
        PROVE  Len(got'[t]) = IF t = s THEN Heard[s] + 1 ELSE Len(got[t])
    BY <1>3, <1>5, <2>1
  <2>3. QED
    BY <2>2 DEF Heard
<1>8. QED
  BY <1>1, <1>4, <1>6, <1>7 DEF Service!Hear

LEMMA RefinesInit == Init => Service!Init
<1>1. SUFFICES ASSUME Init
               PROVE  Service!Init
  OBVIOUS
<1>2. /\ device \in {"ethernet", "lo"} /\ sent = <<>>
      /\ \A s \in Sockets : rxq[s] = <<>> /\ got[s] = <<>>
  BY <1>1 DEF Init
<1>3. <<>> \o EventsOf(<<>>) = <<>> /\ Len(<<>>) = 0
  <2>1. <<>> \in Seq(FrameType) /\ <<>> \in Seq(StreamType) /\ Len(<<>>) = 0
    BY EmptySeq
  <2>2. PICK p \in Seq(StreamType), q \in Seq(FrameType) : p = <<>> /\ q = <<>>
    BY <2>1
  <2>3. p \o EventsOf(q) \in Seq(StreamType) /\ Len(p \o EventsOf(q)) = Len(p) + Len(q)
    BY StreamParts
  <2>4. Len(p \o EventsOf(q)) = 0
    BY <2>1, <2>2, <2>3
  <2>5. p \o EventsOf(q) = <<>>
    BY <2>3, <2>4, EmptySeq
  <2>6. QED
    BY <2>1, <2>2, <2>5
<1>4. /\ Stream = [s \in Sockets |-> <<>>]
      /\ Heard = [s \in Sockets |-> 0]
  BY <1>2, <1>3 DEF Stream, Heard
<1>5. QED
  BY <1>2, <1>4 DEF Service!Init, Service!Sockets, Sockets

LEMMA RefinesNext == FramesInv /\ [Next]_vars => [Service!Next]_Service!vars
<1>1. SUFFICES ASSUME FramesInv, [Next]_vars
               PROVE  Service!Next \/ UNCHANGED <<device, sent, Stream, Heard>>
  BY DEF Service!vars
<1>2. ASSUME NEW s \in Sockets, NEW length \in Lengths, SendMessage(s, length)
      PROVE  Service!Next
  BY <1>1, <1>2, RefinesSend DEF Service!Next, Service!Sockets, Sockets
<1>3. ASSUME NEW s \in Sockets, ReceiveMessage(s)
      PROVE  Service!Next
  BY <1>1, <1>3, RefinesReceive DEF Service!Next, Service!Sockets, Sockets
<1>4. ASSUME NEW d \in Links, Arrives(d)
      PROVE  Service!Next \/ UNCHANGED <<device, sent, Stream, Heard>>
  BY <1>1, <1>4, RefinesArrives DEF Service!Next
<1>5. ASSUME NEW d \in Links, Lost(d) \/ UNCHANGED vars
      PROVE  UNCHANGED <<device, sent, Stream, Heard>>
  BY <1>5 DEF Lost, vars, Stream, Heard
<1>6. QED
  BY <1>1, <1>2, <1>3, <1>4, <1>5 DEF Next, Links

\* What listeners hear is what FrameService promises, for any sockets, lengths and MTUs: what
\* a step of the code or the kernel does to frames and queues is one step of the promise, or
\* none (socket.cc lines 60 to 122).
THEOREM FrameRefinement == Spec => ImplementsFrameService
BY RefinesInit, RefinesNext, Invariant, PTL DEF Spec, Service!Spec, ImplementsFrameService
=============================================================================
