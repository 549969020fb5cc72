-------------------------- MODULE MembershipProofs --------------------------
(* Theorems about Membership, for any sockets and addresses.               *)
EXTENDS Membership, QueueLemmas

-----------------------------------------------------------------------------
(* What an address is read as.                                             *)

Digits == 0 .. 15

\* A part of digits is read as a whole.
LEMMA AllDigits ==
    ASSUME NEW part \in Seq(Digits), NEW l \in {1, 2}, Len(part) = l
    PROVE  HexPrefix(part) = SubSeq(part, 1, l)
<1> DEFINE P(k) == /\ NotHex \notin {part[i] : i \in 1 .. k}
                   /\ k = Len(part) \/ part[k + 1] = NotHex
           n == CHOOSE k \in 0 .. Len(part) : P(k)
<1>1. \A i \in 1 .. l : part[i] # NotHex
  <2>1. \A i \in 1 .. l : part[i] \in Digits
    BY ElementOfSeq
  <2>2. QED
    BY <2>1 DEF Digits, NotHex
<1>2. \A k \in 0 .. Len(part) : P(k) <=> k = l
  <2>1. ASSUME NEW k \in 0 .. l, k # l
        PROVE  k # Len(part) /\ part[k + 1] # NotHex
    <3>1. k + 1 \in 1 .. l
      BY <2>1
    <3>2. QED
      BY <1>1, <2>1, <3>1
  <2>2. NotHex \notin {part[i] : i \in 1 .. l}
    BY <1>1
  <2>3. QED
    BY <2>1, <2>2
<1>3. n = l
  <2>1. l \in 0 .. Len(part)
    OBVIOUS
  <2> HIDE DEF P
  <2>2. QED
    BY <1>2, <2>1
<1>4. QED
  BY <1>3 DEF HexPrefix

LEMMA WrittenPart ==
    ASSUME NEW part \in Seq(Digits), Len(part) \in {1, 2}
    PROVE  ParseByte(part) = Written(part)
<1>1. PICK l \in {1, 2} : l = Len(part)
  OBVIOUS
<1>2. PICK digits : digits = SubSeq(part, 1, l) /\ HexPrefix(part) = digits
  BY <1>1, AllDigits
<1>3. Len(digits) = l /\ \A i \in 1 .. l : digits[i] = part[i]
  <2>1. \A i \in 1 .. l : part[i] \in Digits
    BY <1>1, ElementOfSeq
  <2>2. QED
    BY <1>1, <1>2, <2>1, SubSeqProperties
<1>4. CASE l = 1
  <2>1. ParseByte(part) = digits[1]
    BY <1>2, <1>3, <1>4 DEF ParseByte
  <2>2. QED
    BY <1>1, <1>3, <1>4, <2>1 DEF Written
<1>5. CASE l = 2
  <2>1. ParseByte(part) = 16 * digits[1] + digits[2]
    BY <1>2, <1>3, <1>5 DEF ParseByte
  <2>2. digits[1] = part[1] /\ digits[2] = part[2]
    BY <1>3, <1>5
  <2>3. QED
    BY <1>1, <1>5, <2>1, <2>2 DEF Written
<1>6. QED
  BY <1>4, <1>5

\* A text is read as the bytes it spells.
LEMMA SpelledText ==
    ASSUME NEW text \in Texts
    PROVE  ParseText(text) = [n \in DOMAIN text |-> Written(text[n])]
<1>1. text \in Seq(Seq(Digits)) /\ \A n \in DOMAIN text : Len(text[n]) \in {1, 2}
  BY MembershipAssumption DEF Digits
<1>2. \A n \in DOMAIN text : text[n] \in Seq(Digits)
  BY <1>1, ElementOfSeq, LenProperties
<1>3. QED
  BY <1>1, <1>2, WrittenPart DEF ParseText

LEMMA SpelledArray ==
    ASSUME NEW numbers \in Arrays
    PROVE  NewBuffer(numbers) = numbers
<1>1. PICK b \in Seq(Bytes) : b = numbers
  BY MembershipAssumption
<1>2. \A n \in DOMAIN b : b[n] \in Bytes
  BY ElementOfSeq, LenProperties
<1>3. \A x \in Bytes : x % 256 = x
  BY DEF Bytes
<1>4. b = [n \in DOMAIN b |-> b[n]]
  BY LenProperties
<1>5. QED
  BY <1>1, <1>2, <1>3, <1>4 DEF NewBuffer

\* An address becomes the bytes it spells.
LEMMA SpelledAddress ==
    ASSUME NEW arg \in AddressArguments
    PROVE  AddressToBuffer(arg) = Spelled(arg)
<1>1. CASE arg \in [kind : {"text"}, text : Texts]
  BY <1>1, SpelledText DEF AddressToBuffer, Spelled
<1>2. CASE arg \in [kind : {"array"}, numbers : Arrays]
  BY <1>2, SpelledArray DEF AddressToBuffer, Spelled
<1>3. CASE arg \in [kind : {"buffer"}, bytes : Contents]
  BY <1>3 DEF AddressToBuffer, Spelled
<1>4. QED
  BY <1>1, <1>2, <1>3 DEF AddressArguments

\* An argument that is an address spells a sequence of bytes.
LEMMA SpelledBytes ==
    ASSUME NEW arg \in AddressArguments
    PROVE  Spelled(arg) \in Seq(Bytes)
<1>1. CASE arg \in [kind : {"text"}, text : Texts]
  <2>1. PICK text \in Texts : text = arg.text /\ arg.kind = "text"
    BY <1>1
  <2>2. text \in Seq(Seq(Digits)) /\ \A n \in DOMAIN text : Len(text[n]) \in {1, 2}
    BY MembershipAssumption DEF Digits
  <2>3. Len(text) \in Nat /\ DOMAIN text = 1 .. Len(text)
    BY <2>2, LenProperties
  <2>4. ASSUME NEW n \in DOMAIN text
        PROVE  Written(text[n]) \in Bytes
    <3>1. PICK part \in Seq(Digits) : part = text[n] /\ Len(part) \in {1, 2}
      BY <2>2, <2>3, ElementOfSeq
    <3>2. /\ part[1] \in Digits
          /\ Len(part) = 2 => part[2] \in Digits
      BY <3>1, ElementOfSeq
    <3>3. \A q, r \in Digits : q \in Bytes /\ 16 * q + r \in Bytes
      BY DEF Digits, Bytes
    <3>4. CASE Len(part) = 1
      BY <3>1, <3>2, <3>3, <3>4 DEF Written
    <3>5. CASE Len(part) = 2
      BY <3>1, <3>2, <3>3, <3>5 DEF Written
    <3>6. QED
      BY <3>1, <3>4, <3>5
  <2>5. [n \in DOMAIN text |-> Written(text[n])] \in [1 .. Len(text) -> Bytes]
    BY <2>3, <2>4
  <2>6. [n \in DOMAIN text |-> Written(text[n])] \in Seq(Bytes)
    BY <2>3, <2>5, FunctionIsSeq
  <2>7. QED
    BY <2>1, <2>6 DEF Spelled
<1>2. CASE arg \in [kind : {"array"}, numbers : Arrays]
  BY <1>2, MembershipAssumption DEF Spelled
<1>3. CASE arg \in [kind : {"buffer"}, bytes : Contents]
  BY <1>3, MembershipAssumption DEF Spelled
<1>4. QED
  BY <1>1, <1>2, <1>3 DEF AddressArguments

\* Every call that reaches setsockopt asks for the entry of what its argument names.
LEMMA AskedEntry ==
    ASSUME NEW c \in Calls, Asks(c)
    PROVE  c.named \in Memberships /\ RequestOf(c) = Entry(c.named)
<1>1. PICK arg \in Arguments : c = [named |-> Named(arg), parsed |-> Parse(arg)]
  BY DEF Calls
<1>2. c.named = Named(arg) /\ c.parsed = Parse(arg)
  BY <1>1
<1>3. c.parsed.ok /\ IsValidMembershipType(c.parsed.type)
  BY DEF Asks, Throws
<1>4. ~(c.parsed.type = MULTICAST /\ c.parsed.address = NoAddress)
  BY DEF Asks, CopiesNull
<1>5. CASE arg \in [kind : {"number"}, value : Numbers]
  <2>1. /\ arg.kind = "number"
        /\ c.parsed = [ok |-> TRUE, type |-> arg.value, address |-> NoAddress]
    BY <1>2, <1>5 DEF Parse
  <2>2. arg.value \in Exported /\ arg.value # MULTICAST
    BY <1>3, <1>4, <2>1 DEF IsValidMembershipType, Exported, PROMISCIOUS, ALL_MULTICAST, MULTICAST
  <2>3. c.named = [type |-> arg.value, group |-> NoAddress]
    BY <1>2, <2>1, <2>2 DEF Named
  <2>4. QED
    BY <2>1, <2>2, <2>3 DEF RequestOf, MembershipRequest, Entry, Memberships
<1>6. CASE arg \in AddressArguments
  <2>1. arg.kind # "number" /\ arg.kind \in {"text", "array", "buffer"}
    BY <1>6 DEF AddressArguments
  <2>2. ~NoAddressIn(arg)
    BY <1>2, <1>3, <2>1 DEF Parse, Rejected
  <2>3. PICK bytes : bytes = Spelled(arg) /\ AddressToBuffer(arg) = bytes
    BY <1>6, SpelledAddress
  <2>4. Len(bytes) >= ADDRESS_LENGTH
    <3>1. Len(bytes) \in Nat
      <4>1. Spelled(arg) \in Seq(Bytes)
        BY <1>6, SpelledBytes
      <4>2. QED
        BY <2>3, <4>1, LenProperties
    <3>2. ~(Len(bytes) < ADDRESS_LENGTH)
      BY <2>2, <2>3 DEF NoAddressIn
    <3>3. QED
      BY <3>1, <3>2 DEF ADDRESS_LENGTH
  <2>5. arg \in GroupArguments
    BY <1>6, <2>3, <2>4 DEF GroupArguments
  <2>6. PICK group \in Groups : group = SixBytes(bytes)
    BY <2>3, <2>5 DEF Groups
  <2>7. c.parsed = [ok |-> TRUE, type |-> MULTICAST, address |-> group]
    BY <1>2, <2>1, <2>2, <2>3, <2>6 DEF Parse
  <2>8. c.named = [type |-> MULTICAST, group |-> group]
    BY <1>2, <2>1, <2>3, <2>5, <2>6 DEF Named
  <2>9. MULTICAST \notin Exported
    BY DEF Exported, MULTICAST, PROMISCIOUS, ALL_MULTICAST
  <2>10. QED
    BY <2>6, <2>7, <2>8, <2>9 DEF RequestOf, MembershipRequest, Entry, Memberships
<1>7. CASE arg = [kind |-> "other"]
  BY <1>2, <1>3, <1>7 DEF Parse, NoAddressIn, Rejected
<1>8. QED
  BY <1>5, <1>6, <1>7 DEF Arguments

LEMMA NamedType ==
    ASSUME NEW c \in Calls
    PROVE  c.named \in Memberships \cup {NoMembership}
<1>1. PICK arg \in Arguments : c = [named |-> Named(arg), parsed |-> Parse(arg)]
  BY DEF Calls
<1>2. c.named = Named(arg)
  BY <1>1
<1>3. CASE arg.kind = "number" /\ arg.value \in Exported
  BY <1>2, <1>3 DEF Named, Memberships
<1>4. CASE ~(arg.kind = "number" /\ arg.value \in Exported) /\ arg \in GroupArguments
  <2>1. PICK group \in Groups : group = SixBytes(Spelled(arg))
    BY <1>4 DEF Groups
  <2>2. QED
    BY <1>2, <1>4, <2>1 DEF Named, Memberships
<1>5. CASE ~(arg.kind = "number" /\ arg.value \in Exported) /\ arg \notin GroupArguments
  BY <1>2, <1>5 DEF Named
<1>6. QED
  BY <1>3, <1>4, <1>5

\* Different memberships have different entries.
LEMMA EntryInjective ==
    ASSUME NEW m \in Memberships, NEW n \in Memberships, Entry(m) = Entry(n)
    PROVE  m = n
<1>1. m.type = n.type /\ m.group = n.group
  BY DEF Entry
<1>2. \A k \in Memberships : k = [type |-> k.type, group |-> k.group]
  BY DEF Memberships
<1>3. QED
  BY <1>1, <1>2

LEMMA EntryType ==
    ASSUME NEW m \in Memberships PROVE Entry(m) \in Requests
  BY DEF Requests

-----------------------------------------------------------------------------
(* The inductive invariant.                                                *)

\* Calls that change no entry.
Quiet ==
    \E c \in Calls :
        \/ JoinFails(c) \/ LeaveFails(c) \/ NullCall(c)
        \/ \E s \in Sockets : LeaveUnknown(s, c)

LEMMA QuietInv == ASSUME MembershipInv, Quiet PROVE MembershipInv'
<1>1. mclist' = mclist
  BY DEF Quiet, JoinFails, LeaveFails, NullCall, LeaveUnknown
<1>2. last' \in [call : {"none", "join", "leave"},
                 named : Memberships \cup {NoMembership},
                 result : {"done", "error"}]
  <2>1. PICK c \in Calls :
          \/ JoinFails(c) \/ LeaveFails(c) \/ NullCall(c)
          \/ \E s \in Sockets : LeaveUnknown(s, c)
    BY DEF Quiet
  <2>2. c.named \in Memberships \cup {NoMembership}
    BY NamedType
  <2>3. CASE NullCall(c)
    BY <2>3 DEF NullCall, MembershipInv, MembershipTypeOK
  <2>4. CASE JoinFails(c) \/ LeaveFails(c) \/ \E s \in Sockets : LeaveUnknown(s, c)
    BY <2>2, <2>4 DEF JoinFails, LeaveFails, LeaveUnknown, Ends
  <2> QED BY <2>1, <2>3, <2>4
<1>3. crashed' \in BOOLEAN
  BY DEF Quiet, JoinFails, LeaveFails, NullCall, LeaveUnknown, Ends,
         MembershipInv, MembershipTypeOK
<1>4. CanonicalEntries'
  BY <1>1 DEF MembershipInv, CanonicalEntries
<1> QED BY <1>1, <1>2, <1>3, <1>4 DEF MembershipInv, MembershipTypeOK

\* A call that changes the count of an entry.
Counted(s, c) == JoinMC(s, c) \/ LeaveMC(s, c)

LEMMA CountedStep ==
    ASSUME MembershipInv, NEW s \in Sockets, NEW c \in Calls, Counted(s, c)
    PROVE  \E m \in Memberships, n \in Nat, call \in {"join", "leave"} :
              /\ m = c.named
              /\ mclist' = [mclist EXCEPT ![s] = [mclist[s] EXCEPT ![Entry(m)] = n]]
              /\ last' = [call |-> call, named |-> m, result |-> "done"]
              /\ UNCHANGED crashed
              /\ \/ call = "join" /\ n = mclist[s][Entry(m)] + 1
                 \/ call = "leave" /\ n = mclist[s][Entry(m)] - 1 /\ mclist[s][Entry(m)] # 0
<1>1. Asks(c)
  BY DEF Counted, JoinMC, LeaveMC
<1>2. c.named \in Memberships /\ RequestOf(c) = Entry(c.named)
  BY <1>1, AskedEntry
<1>3. mclist[s][Entry(c.named)] \in Nat
  BY <1>2, EntryType DEF MembershipInv, MembershipTypeOK
<1>4. CASE JoinMC(s, c)
  <2>1. /\ mclist' = [mclist EXCEPT ![s] = [mclist[s] EXCEPT ![Entry(c.named)] =
                                                mclist[s][Entry(c.named)] + 1]]
        /\ last' = [call |-> "join", named |-> c.named, result |-> "done"]
        /\ UNCHANGED crashed
    BY <1>2, <1>4 DEF JoinMC, Ends
  <2>2. mclist[s][Entry(c.named)] + 1 \in Nat
    BY <1>3
  <2> QED BY <1>2, <2>1, <2>2
<1>5. CASE LeaveMC(s, c)
  <2>1. mclist[s][Entry(c.named)] > 0
    BY <1>2, <1>5 DEF LeaveMC
  <2>2. mclist[s][Entry(c.named)] - 1 \in Nat /\ mclist[s][Entry(c.named)] # 0
    BY <1>3, <2>1
  <2> QED BY <1>2, <1>5, <2>2 DEF LeaveMC, Ends
<1> QED BY <1>4, <1>5 DEF Counted

LEMMA CountedInv ==
    ASSUME MembershipInv, NEW s \in Sockets, NEW c \in Calls, Counted(s, c)
    PROVE  MembershipInv'
<1>1. PICK m \in Memberships, n \in Nat, call \in {"join", "leave"} :
        /\ mclist' = [mclist EXCEPT ![s] = [mclist[s] EXCEPT ![Entry(m)] = n]]
        /\ last' = [call |-> call, named |-> m, result |-> "done"]
        /\ UNCHANGED crashed
  BY CountedStep
<1>2. mclist' \in [Sockets -> [Requests -> Nat]]
  <2>1. [mclist[s] EXCEPT ![Entry(m)] = n] \in [Requests -> Nat]
    BY DEF MembershipInv, MembershipTypeOK
  <2> QED BY <1>1, <2>1 DEF MembershipInv, MembershipTypeOK
<1>3. last' \in [call : {"none", "join", "leave"},
                 named : Memberships \cup {NoMembership},
                 result : {"done", "error"}]
  BY <1>1
<1>4. CanonicalEntries'
  BY <1>1 DEF MembershipInv, MembershipTypeOK, CanonicalEntries
<1> QED BY <1>1, <1>2, <1>3, <1>4 DEF MembershipInv, MembershipTypeOK

\* MembershipInv holds for any sockets and addresses (socket.cc lines 130 to 147).
THEOREM Entries == Spec => []MembershipInv
<1>1. ASSUME Init PROVE MembershipInv
  <2>1. MembershipTypeOK
    BY <1>1 DEF Init, MembershipTypeOK
  <2>2. \A s \in Sockets, r \in Requests : mclist[s][r] = 0
    BY <1>1 DEF Init
  <2>3. CanonicalEntries
    BY <2>2 DEF CanonicalEntries
  <2> QED BY <2>1, <2>3 DEF MembershipInv
<1>2. ASSUME MembershipInv, [Next]_vars PROVE MembershipInv'
  <2>1. CASE Quiet
    BY <1>2, <2>1, QuietInv
  <2>2. CASE \E s \in Sockets, c \in Calls : Counted(s, c)
    BY <1>2, <2>2, CountedInv
  <2>3. CASE UNCHANGED vars
    BY <1>2, <2>3 DEF vars, MembershipInv, MembershipTypeOK, CanonicalEntries
  <2> QED BY <1>2, <2>1, <2>2, <2>3 DEF Next, Quiet, Counted
<1> QED BY <1>1, <1>2, PTL DEF Spec

\* The kernel's list has only entries that leaveMC can find again (socket.cc lines 135 to 142).
THEOREM EntriesCanonical == Spec => []CanonicalEntries
<1>1. MembershipInv => CanonicalEntries
  BY DEF MembershipInv
<1> QED BY <1>1, Entries, PTL

-----------------------------------------------------------------------------
(* The refinement.                                                         *)

members == [s \in Sockets |-> [m \in Memberships |-> mclist[s][Entry(m)]]]

LEMMA QuietMapped == ASSUME Quiet PROVE [Service!Next]_<<members, last>>
<1>1. members' = members
  BY DEF Quiet, JoinFails, LeaveFails, NullCall, LeaveUnknown, members
<1>2. PICK c \in Calls :
        \/ JoinFails(c) \/ LeaveFails(c) \/ NullCall(c)
        \/ \E s \in Sockets : LeaveUnknown(s, c)
  BY DEF Quiet
<1>3. c.named \in Memberships \cup {NoMembership}
  BY NamedType
<1>4. CASE NullCall(c)
  BY <1>1, <1>4 DEF NullCall
<1>5. CASE JoinFails(c)
  BY <1>1, <1>3, <1>5 DEF JoinFails, Ends, Service!Next, Service!Refuse, members
<1>6. CASE LeaveFails(c)
  BY <1>1, <1>3, <1>6 DEF LeaveFails, Ends, Service!Next, Service!Refuse, members
<1>7. CASE \E s \in Sockets : LeaveUnknown(s, c)
  <2>1. PICK s \in Sockets : LeaveUnknown(s, c)
    BY <1>7
  <2>2. c.named \in Memberships /\ mclist[s][Entry(c.named)] = 0
    BY <2>1, AskedEntry DEF LeaveUnknown
  <2>3. PICK r \in {"done", "error"} :
          last' = [call |-> "leave", named |-> c.named, result |-> r]
    BY <2>1 DEF LeaveUnknown, Ends
  <2>4. CASE r = "error"
    BY <1>1, <1>3, <2>3, <2>4 DEF Service!Next, Service!Refuse, members
  <2>5. CASE r = "done"
    <3>1. members[s][c.named] = 0
      BY <2>2 DEF members
    <3>2. Service!Leave(s, c.named)
      BY <1>1, <2>3, <2>5, <3>1 DEF Service!Leave, members
    <3> QED BY <2>2, <3>2 DEF Service!Next
  <2> QED BY <2>4, <2>5
<1> QED BY <1>2, <1>4, <1>5, <1>6, <1>7

LEMMA CountedMapped ==
    ASSUME MembershipInv, NEW s \in Sockets, NEW c \in Calls, Counted(s, c)
    PROVE  Service!Next
<1>1. PICK m \in Memberships, n \in Nat, call \in {"join", "leave"} :
        /\ mclist' = [mclist EXCEPT ![s] = [mclist[s] EXCEPT ![Entry(m)] = n]]
        /\ last' = [call |-> call, named |-> m, result |-> "done"]
        /\ \/ call = "join" /\ n = mclist[s][Entry(m)] + 1
           \/ call = "leave" /\ n = mclist[s][Entry(m)] - 1 /\ mclist[s][Entry(m)] # 0
  BY CountedStep
<1>2. \A t \in Sockets, k \in Memberships :
        mclist'[t][Entry(k)] = IF t = s /\ k = m THEN n ELSE mclist[t][Entry(k)]
  BY <1>1, EntryInjective, EntryType DEF MembershipInv, MembershipTypeOK
<1>3. members' = [members EXCEPT ![s] = [members[s] EXCEPT ![m] = n]]
  <2> DEFINE changed == [members EXCEPT ![s] = [members[s] EXCEPT ![m] = n]]
  <2>1. members' = [t \in Sockets |-> [k \in Memberships |-> mclist'[t][Entry(k)]]]
    BY DEF members, Entry
  <2>2. changed = [t \in Sockets |-> [k \in Memberships |->
                      IF t = s /\ k = m THEN n ELSE mclist[t][Entry(k)]]]
    <3>1. \A t \in Sockets : changed[t] = IF t = s THEN [members[s] EXCEPT ![m] = n]
                                                   ELSE members[t]
      BY DEF members
    <3>2. changed = [t \in Sockets |-> changed[t]]
      BY DEF members
    <3>3. ASSUME NEW t \in Sockets
          PROVE  changed[t] = [k \in Memberships |->
                      IF t = s /\ k = m THEN n ELSE mclist[t][Entry(k)]]
      BY <3>1 DEF members
    <3> HIDE DEF changed
    <3> QED BY <3>2, <3>3
  <2> QED BY <1>2, <2>1, <2>2
<1>4. members[s][m] = mclist[s][Entry(m)]
  BY DEF members
<1>5. CASE call = "join"
  <2>1. Service!Join(s, m)
    BY <1>1, <1>3, <1>4, <1>5 DEF Service!Join, members
  <2> QED BY <2>1 DEF Service!Next
<1>6. CASE call = "leave"
  <2>1. Service!Leave(s, m)
    BY <1>1, <1>3, <1>4, <1>6 DEF Service!Leave, members
  <2> QED BY <2>1 DEF Service!Next
<1> QED BY <1>5, <1>6

\* joinMC and leaveMC implement the counted memberships (socket.js lines 63 to 76).
THEOREM MembershipRefinement == Spec => ImplementsMembershipService
<1>1. Init => Service!Init
  <2> SUFFICES ASSUME Init PROVE Service!Init
    OBVIOUS
  <2>1. \A s \in Sockets, m \in Memberships : mclist[s][Entry(m)] = 0
    BY EntryType DEF Init
  <2> QED BY <2>1 DEF Init, Service!Init
<1>2. ASSUME MembershipInv, [Next]_vars PROVE [Service!Next]_<<members, last>>
  <2>1. CASE Quiet
    BY <2>1, QuietMapped
  <2>2. CASE \E s \in Sockets, c \in Calls : Counted(s, c)
    BY <1>2, <2>2, CountedMapped
  <2>3. CASE UNCHANGED vars
    BY <2>3 DEF vars, members
  <2> QED BY <1>2, <2>1, <2>2, <2>3 DEF Next, Quiet, Counted
<1>3. MembershipInv /\ [Next]_vars => [Service!Next]_<<members, last>>
  BY <1>2
<1> QED BY <1>1, <1>3, Entries, PTL
        DEF Spec, ImplementsMembershipService, Service!Spec, members
=============================================================================
