-------------------------- MODULE AddressingProofs --------------------------
(* Theorems about Addressing, for every set of sockets, objects, texts and *)
(* addresses.                                                              *)
EXTENDS Addressing, QueueLemmas, FiniteSetTheorems

-----------------------------------------------------------------------------
(* Parsing and formatting.                                                 *)

\* A set of naturals has a least element: the intervals that end in its elements are finite
\* sets, and strict inclusion among those is well-founded.
LEMMA LeastNatural ==
    ASSUME NEW T, T \subseteq Nat, T # {}
    PROVE  \E n \in T : \A m \in T : ~(m < n)
<1> DEFINE R == StrictSubsetOrdering(Nat)
           F == {1 .. k : k \in T}
<1>1. \A k \in T : 1 .. k \in FiniteSubsetsOf(Nat)
  <2>1. \A k \in T : 1 .. k \in SUBSET Nat /\ k \in Int
    OBVIOUS
  <2>2. \A k \in T : IsFiniteSet(1 .. k)
    BY <2>1, FS_Interval
  <2>3. QED
    BY <2>1, <2>2 DEF FiniteSubsetsOf
<1>2. F \subseteq FiniteSubsetsOf(Nat) /\ F # {}
  BY <1>1
<1>3. IsWellFoundedOn(R, FiniteSubsetsOf(Nat))
  BY FS_StrictSubsetOrderingWellFounded
<1>4. PICK x \in F : \A y \in F : <<y, x>> \notin R
  <2> HIDE DEF R, F
  <2>1. QED
    BY <1>2, <1>3, WFMin
<1>5. PICK n \in T : x = 1 .. n
  OBVIOUS
<1>6. ASSUME NEW m \in T, m < n
      PROVE  FALSE
  <2>1. 1 .. m \in SUBSET Nat /\ 1 .. n \in SUBSET Nat
    OBVIOUS
  <2>2. 1 .. m \subseteq 1 .. n
    BY <1>6
  <2>3. n \in 1 .. n /\ n \notin 1 .. m
    BY <1>6
  <2>4. <<1 .. m, x>> \in R
    BY <1>5, <2>1, <2>2, <2>3 DEF StrictSubsetOrdering
  <2>5. QED
    BY <1>4, <2>4
<1>7. QED
  BY <1>5, <1>6

Digits == 0 .. 15

\* The digits that parseInt reads are the longest run of digits at the part's start.
LEMMA HexPrefixDigits ==
    ASSUME NEW part \in Seq(Characters)
    PROVE  HexPrefix(part) \in Seq(Digits)
<1> DEFINE Hex(k) == NotHex \notin {part[i] : i \in 1 .. k}
           Stops(k) == k = Len(part) \/ part[k + 1] = NotHex
           T == {k \in 0 .. Len(part) : Stops(k)}
           first == CHOOSE k \in 0 .. Len(part) : Hex(k) /\ Stops(k)
<1>1. Len(part) \in Nat /\ \A i \in 1 .. Len(part) : part[i] \in Characters
  BY LenProperties, ElementOfSeq
<1>2. T \subseteq Nat /\ Len(part) \in T
  BY <1>1
<1>3. PICK k \in T : \A m \in T : ~(m < k)
  BY <1>2, LeastNatural
<1>4. ASSUME NEW i \in 1 .. k
      PROVE  part[i] # NotHex
  <2>1. i - 1 \in 0 .. Len(part) /\ i - 1 < k /\ (i - 1) + 1 = i /\ k \in 0 .. Len(part)
    BY <1>1
  <2>2. i - 1 \notin T
    BY <1>3, <2>1
  <2>3. QED
    BY <2>1, <2>2
<1>5. Hex(k) /\ Stops(k) /\ k \in 0 .. Len(part)
  BY <1>4
<1>6. first \in 0 .. Len(part) /\ Hex(first)
  <2> HIDE DEF Hex, Stops
  <2>1. QED
    BY <1>5
<1>7. PICK n \in 0 .. Len(part) : HexPrefix(part) = SubSeq(part, 1, n) /\ Hex(n)
  BY <1>6 DEF HexPrefix
<1>8. ASSUME NEW i \in 1 .. n
      PROVE  part[i] \in Digits
  <2>1. n \in Nat /\ n <= Len(part)
    BY <1>1
  <2>2. i \in 1 .. Len(part)
    BY <1>1, <2>1
  <2>3. part[i] # NotHex
    BY <1>7
  <2>4. \A c \in Characters : c # NotHex => c \in Digits
    BY DEF Characters, Digits, NotHex
  <2>5. QED
    BY <1>1, <2>2, <2>3, <2>4
<1>9. SubSeq(part, 1, n) \in Seq(Digits)
  <2>1. n \in Int /\ 1 \in Int
    BY <1>1
  <2>2. QED
    BY <1>8, <2>1, SubSeqProperties
<1>10. QED
  BY <1>7, <1>9

LEMMA ParsedByte ==
    ASSUME NEW part \in Seq(Characters)
    PROVE  ParseByte(part) \in Bytes
<1>1. PICK digits \in Seq(Digits) : digits = HexPrefix(part)
  BY HexPrefixDigits
<1>2. PICK n \in Nat : n = Len(digits)
  BY LenProperties
<1>3. \A i \in 1 .. n : digits[i] \in Digits
  BY <1>2, ElementOfSeq
<1>4. /\ n = 0 => ParseByte(part) = 0
      /\ n = 1 => ParseByte(part) = digits[1]
      /\ n # 0 /\ n # 1 => ParseByte(part) = 16 * digits[n - 1] + digits[n]
  BY <1>1, <1>2 DEF ParseByte
<1>5. /\ 0 \in Bytes
      /\ \A d \in Digits : d \in Bytes
      /\ \A c, d \in Digits : 16 * c + d \in Bytes
  BY DEF Digits, Bytes
<1>6. CASE n = 0
  BY <1>4, <1>5, <1>6
<1>7. CASE n = 1
  <2>1. digits[1] \in Digits
    BY <1>3, <1>7
  <2>2. QED
    BY <1>4, <1>5, <1>7, <2>1
<1>8. CASE n # 0 /\ n # 1
  <2>1. n - 1 \in 1 .. n /\ n \in 1 .. n
    BY <1>8
  <2>2. digits[n - 1] \in Digits /\ digits[n] \in Digits
    BY <1>3, <2>1
  <2>3. ParseByte(part) = 16 * digits[n - 1] + digits[n]
    BY <1>4, <1>8
  <2>4. QED
    BY <1>5, <2>2, <2>3
<1>9. QED
  BY <1>6, <1>7, <1>8

LEMMA ParsedText ==
    ASSUME NEW text \in Seq(Seq(Characters))
    PROVE  ParseText(text) \in Seq(Bytes)
<1>1. \A i \in DOMAIN text : text[i] \in Seq(Characters)
  BY ElementOfSeq, LenProperties
<1>2. Len(text) \in Nat /\ DOMAIN text = 1 .. Len(text)
  BY LenProperties
<1>3. ParseText(text) \in [1 .. Len(text) -> Bytes]
  BY <1>1, <1>2, ParsedByte DEF ParseText
<1>4. QED
  BY <1>2, <1>3, FunctionIsSeq

LEMMA NewBufferBytes ==
    ASSUME NEW numbers \in Seq(Bytes)
    PROVE  NewBuffer(numbers) \in Seq(Bytes)
<1>1. Len(numbers) \in Nat /\ DOMAIN numbers = 1 .. Len(numbers)
  BY LenProperties
<1>2. \A i \in DOMAIN numbers : numbers[i] \in Bytes
  BY ElementOfSeq, LenProperties
<1>3. \A b \in Bytes : b % 256 \in Bytes
  BY DEF Bytes
<1>4. NewBuffer(numbers) \in [1 .. Len(numbers) -> Bytes]
  BY <1>1, <1>2, <1>3 DEF NewBuffer
<1>5. QED
  BY <1>1, <1>4, FunctionIsSeq

\* Two digits are read as a number of base 16.
LEMMA TwoDigits ==
    ASSUME NEW part \in Seq(Digits), Len(part) = 2
    PROVE  /\ part[1] \in Digits /\ part[2] \in Digits
           /\ ParseByte(part) = 16 * part[1] + part[2]
<1> DEFINE P(k) == /\ NotHex \notin {part[i] : i \in 1 .. k}
                   /\ k = Len(part) \/ part[k + 1] = NotHex
           n == CHOOSE k \in 0 .. Len(part) : P(k)
<1>1. ASSUME NEW i \in 1 .. 2
      PROVE  part[i] \in Digits
  BY ElementOfSeq
<1>2. part[1] # NotHex /\ part[2] # NotHex
  <2>1. part[1] \in Digits /\ part[2] \in Digits
    BY <1>1
  <2>2. QED
    BY <2>1 DEF Digits, NotHex
<1>3. \A k \in 0 .. Len(part) : P(k) <=> k = 2
  <2>1. \A i \in 1 .. 2 : part[i] # NotHex
    BY <1>2
  <2>2. ASSUME NEW k \in 0 .. 2, k # 2
        PROVE  k # Len(part) /\ part[k + 1] # NotHex
    BY <2>1, <2>2
  <2>3. NotHex \notin {part[i] : i \in 1 .. 2}
    BY <2>1
  <2>4. QED
    BY <2>1, <2>2, <2>3
<1>4. n = 2
  <2> HIDE DEF P
  <2>1. QED
    BY <1>3
<1> HIDE DEF n
<1>5. /\ Len(SubSeq(part, 1, 2)) = 2
      /\ SubSeq(part, 1, 2)[1] = part[1]
      /\ SubSeq(part, 1, 2)[2] = part[2]
  BY <1>1, SubSeqProperties
<1>6. HexPrefix(part) = SubSeq(part, 1, 2)
  BY <1>4 DEF HexPrefix, n
<1>7. ParseByte(part) = 16 * part[1] + part[2]
  BY <1>5, <1>6 DEF ParseByte
<1>8. QED
  BY <1>1, <1>7

\* A byte is read back from its two digits.
LEMMA ByteRoundTrip ==
    ASSUME NEW b \in Bytes
    PROVE  ParseByte(<<b \div 16, b % 16>>) = b
<1>1. /\ b \div 16 \in 0 .. 15 /\ b % 16 \in 0 .. 15
      /\ b % 16 = b - 16 * (b \div 16)
      /\ b \in Nat
  <2>1. b \in 0 .. 255
    BY DEF Bytes
  <2>2. QED
    BY <2>1
<1>2. PICK q \in Digits, r \in Digits : q = b \div 16 /\ r = b % 16 /\ r = b - 16 * q
  BY <1>1 DEF Digits
<1>3. PICK part \in Seq(Digits) :
        part = <<q, r>> /\ Len(part) = 2 /\ part[1] = q /\ part[2] = r
  <2> DEFINE pair == <<q, r>>
  <2>1. pair \in Seq(Digits)
    OBVIOUS
  <2>2. Len(pair) = 2 /\ pair[1] = q /\ pair[2] = r
    OBVIOUS
  <2> HIDE DEF pair
  <2>3. pair = pair /\ Len(pair) = 2 /\ pair[1] = q /\ pair[2] = r
    BY <2>2
  <2>4. QED
    BY <2>1, <2>3 DEF pair
<1>4. ParseByte(part) = 16 * q + r
  BY <1>3, TwoDigits
<1>5. 16 * q + r = b
  BY <1>1, <1>2 DEF Digits
<1>6. QED
  BY <1>2, <1>3, <1>4, <1>5

\* Two digits are those of the byte they are read as.
LEMMA DigitsRoundTrip ==
    ASSUME NEW part \in [1 .. 2 -> Digits]
    PROVE  /\ ParseByte(part) \in Bytes
           /\ <<ParseByte(part) \div 16, ParseByte(part) % 16>> = part
<1>1. part \in Seq(Digits) /\ Len(part) = 2
  <2>1. PICK n \in Nat : n = 2
    OBVIOUS
  <2>2. part \in [1 .. n -> Digits]
    BY <2>1
  <2>3. part \in Seq(Digits)
    BY <2>2, FunctionIsSeq
  <2>4. DOMAIN part = 1 .. 2
    OBVIOUS
  <2>5. QED
    BY <2>3, <2>4, LenProperties
<1>2. PICK q \in Digits, r \in Digits :
        q = part[1] /\ r = part[2] /\ ParseByte(part) = 16 * q + r
  BY <1>1, TwoDigits
<1>3. PICK b \in Nat : b = 16 * q + r
  BY DEF Digits
<1>4. b \in Bytes
  BY <1>3 DEF Bytes, Digits
<1>5. b \div 16 = q /\ b % 16 = r
  <2>1. q \in 0 .. 15 /\ r \in 0 .. 15
    BY DEF Digits
  <2>2. QED
    BY <1>3, <2>1
<1>6. <<q, r>> = part
  BY <1>2
<1>7. ParseByte(part) = b
  BY <1>2, <1>3
<1>8. QED
  BY <1>4, <1>5, <1>6, <1>7

\* What a listener is shown, send reads back unchanged.
LEMMA AddressRoundTrip ==
    ASSUME NEW a \in Address
    PROVE  /\ FormatAddress(a) \in Seq(Seq(Characters))
           /\ ParseText(FormatAddress(a)) = a
<1>1. a \in [1 .. 6 -> Bytes]
  BY DEF Address, ADDRESS_LENGTH
<1>2. FormatAddress(a) = [i \in 1 .. 6 |-> <<a[i] \div 16, a[i] % 16>>]
  BY <1>1 DEF FormatAddress
<1>3. \A i \in 1 .. 6 : <<a[i] \div 16, a[i] % 16>> \in Seq(Characters)
  <2>1. \A i \in 1 .. 6 : a[i] \div 16 \in Characters /\ a[i] % 16 \in Characters
    BY <1>1 DEF Bytes, Characters, NotHex
  <2>2. QED
    BY <2>1
<1>4. FormatAddress(a) \in [1 .. 6 -> Seq(Characters)]
  BY <1>2, <1>3
<1>5. FormatAddress(a) \in Seq(Seq(Characters))
  <2>1. 6 \in Nat
    OBVIOUS
  <2>2. QED
    BY <1>4, <2>1, FunctionIsSeq
<1>6. ParseText(FormatAddress(a)) = [i \in 1 .. 6 |-> ParseByte(<<a[i] \div 16, a[i] % 16>>)]
  BY <1>2 DEF ParseText
<1>7. \A i \in 1 .. 6 : ParseByte(<<a[i] \div 16, a[i] % 16>>) = a[i]
  BY <1>1, ByteRoundTrip
<1>8. QED
  BY <1>1, <1>5, <1>6, <1>7

\* The texts of six parts with two digits each: those toString and the expression of onRecv make.
Canonical == [1 .. ADDRESS_LENGTH -> [1 .. 2 -> Digits]]

\* Addresses and the texts onRecv makes of them correspond one to one: send, joinMC and leaveMC
\* read back what a listener was shown, and every text of six parts of two digits is the one
\* that the listener is shown for the address it names.  But a text is an address whatever
\* Characters its six parts are made of: the length checks of Wrapper::Send and
\* ParseMembershipArguments never refuse one for what is written between the colons
\* (socket.js lines 10 to 13 and 25, wrapper.cc lines 158 to 161 and 269 to 273).
THEOREM AddressForms ==
    /\ \A a \in Address : FormatAddress(a) \in Canonical /\ ParseText(FormatAddress(a)) = a
    /\ \A text \in Canonical : ParseText(text) \in Address /\ FormatAddress(ParseText(text)) = text
    /\ \A text \in Seq(Seq(Characters)) : Len(text) = ADDRESS_LENGTH => ParseText(text) \in Address
<1>1. ASSUME NEW a \in Address
      PROVE  FormatAddress(a) \in Canonical /\ ParseText(FormatAddress(a)) = a
  <2>1. a \in [1 .. 6 -> Bytes]
    BY DEF Address, ADDRESS_LENGTH
  <2>2. FormatAddress(a) = [i \in 1 .. 6 |-> <<a[i] \div 16, a[i] % 16>>]
    BY <2>1 DEF FormatAddress
  <2>3. ASSUME NEW i \in 1 .. 6
        PROVE  <<a[i] \div 16, a[i] % 16>> \in [1 .. 2 -> Digits]
    <3>1. PICK q \in Digits, r \in Digits : q = a[i] \div 16 /\ r = a[i] % 16
      <4>1. PICK b \in 0 .. 255 : b = a[i]
        BY <2>1 DEF Bytes
      <4>2. b \div 16 \in Digits /\ b % 16 \in Digits
        BY DEF Digits
      <4>3. QED
        BY <4>1, <4>2
    <3>2. <<q, r>> \in [1 .. 2 -> Digits]
      OBVIOUS
    <3>3. QED
      BY <3>1, <3>2
  <2>4. QED
    BY <2>2, <2>3, AddressRoundTrip DEF Canonical, ADDRESS_LENGTH
<1>2. ASSUME NEW text \in Canonical
      PROVE  ParseText(text) \in Address /\ FormatAddress(ParseText(text)) = text
  <2>1. text \in [1 .. 6 -> [1 .. 2 -> Digits]]
    BY DEF Canonical, ADDRESS_LENGTH
  <2>2. \A i \in 1 .. 6 : /\ ParseByte(text[i]) \in Bytes
                         /\ <<ParseByte(text[i]) \div 16, ParseByte(text[i]) % 16>> = text[i]
    BY <2>1, DigitsRoundTrip
  <2>3. PICK a \in [1 .. 6 -> Bytes] :
          a = ParseText(text) /\ \A i \in 1 .. 6 : <<a[i] \div 16, a[i] % 16>> = text[i]
    <3>1. ParseText(text) = [i \in 1 .. 6 |-> ParseByte(text[i])]
      BY <2>1 DEF ParseText
    <3>2. ParseText(text) \in [1 .. 6 -> Bytes]
      BY <2>2, <3>1
    <3>3. \A i \in 1 .. 6 : ParseText(text)[i] = ParseByte(text[i])
      BY <3>1
    <3>4. \A i \in 1 .. 6 :
            <<ParseText(text)[i] \div 16, ParseText(text)[i] % 16>> = text[i]
      BY <2>2, <3>3
    <3>5. QED
      BY <3>2, <3>4
  <2>4. FormatAddress(a) = text
    BY <2>1, <2>3 DEF FormatAddress
  <2>5. QED
    BY <2>3, <2>4 DEF Address, ADDRESS_LENGTH
<1>3. ASSUME NEW text \in Seq(Seq(Characters)), Len(text) = ADDRESS_LENGTH
      PROVE  ParseText(text) \in Address
  <2>1. ParseText(text) \in Seq(Bytes)
    BY ParsedText
  <2>2. DOMAIN ParseText(text) = 1 .. ADDRESS_LENGTH
    BY <1>3, LenProperties DEF ParseText
  <2>3. \A i \in 1 .. ADDRESS_LENGTH : ParseText(text)[i] \in Bytes
    BY <2>1, <2>2, ElementOfSeq, LenProperties
  <2>4. ParseText(text) = [i \in DOMAIN text |-> ParseText(text)[i]]
    BY DEF ParseText
  <2>5. QED
    BY <1>3, <2>2, <2>3, <2>4, LenProperties DEF Address
<1>4. QED
  BY <1>1, <1>2, <1>3

-----------------------------------------------------------------------------
(* What a request holds.                                                   *)

\* The addresses that AddressToBuffer makes.
ArgumentType ==
    [kind : {"buffer"}, object : Buffers] \cup [kind : {"array"}, object : Arrays]
        \cup [kind : {"text"}, text : Seq(Seq(Characters))]

AddressType == [kind : {"own"}, bytes : Seq(Bytes)] \cup [kind : {"users"}, object : Buffers]

LEMMA ContentBytes ==
    ASSUME AddressingTypeOK, NEW o \in Objects
    PROVE  content[o] \in Contents /\ content[o] \in Seq(Bytes)
BY AddressingAssumption DEF AddressingTypeOK

LEMMA AddressToBufferType ==
    ASSUME AddressingTypeOK, NEW arg \in ArgumentType
    PROVE  /\ AddressToBuffer(arg) \in AddressType
           /\ AddressToBuffer(arg).kind = "users" =>
                arg.kind = "buffer" /\ AddressToBuffer(arg).object = arg.object
           /\ arg.kind = "buffer" => arg.object \in Buffers
           /\ arg.kind = "text" =>
                AddressToBuffer(arg) = [kind |-> "own", bytes |-> ParseText(arg.text)]
<1>1. CASE arg \in [kind : {"buffer"}, object : Buffers]
  BY <1>1 DEF AddressToBuffer, AddressType
<1>2. CASE arg \in [kind : {"array"}, object : Arrays]
  <2>1. arg.object \in Objects /\ arg.kind = "array"
    BY <1>2 DEF Objects
  <2>2. NewBuffer(content[arg.object]) \in Seq(Bytes)
    BY <2>1, ContentBytes, NewBufferBytes
  <2>3. AddressToBuffer(arg) = [kind |-> "own", bytes |-> NewBuffer(content[arg.object])]
    BY <2>1 DEF AddressToBuffer
  <2>4. QED
    BY <2>1, <2>2, <2>3 DEF AddressType
<1>3. CASE arg \in [kind : {"text"}, text : Seq(Seq(Characters))]
  <2>1. arg.text \in Seq(Seq(Characters)) /\ arg.kind = "text"
    BY <1>3
  <2>2. ParseText(arg.text) \in Seq(Bytes)
    BY <2>1, ParsedText
  <2>3. AddressToBuffer(arg) = [kind |-> "own", bytes |-> ParseText(arg.text)]
    BY <2>1 DEF AddressToBuffer
  <2>4. QED
    BY <2>1, <2>2, <2>3 DEF AddressType
<1>4. QED
  BY <1>1, <1>2, <1>3 DEF ArgumentType

LEMMA NowBytes ==
    ASSUME AddressingTypeOK, NEW address \in AddressType
    PROVE  Now(address) \in Seq(Bytes)
<1>1. CASE address \in [kind : {"own"}, bytes : Seq(Bytes)]
  BY <1>1 DEF Now
<1>2. CASE address \in [kind : {"users"}, object : Buffers]
  <2>1. address.object \in Objects /\ Now(address) = content[address.object]
    BY <1>2 DEF Now, Objects
  <2>2. QED
    BY <2>1, ContentBytes
<1>3. QED
  BY <1>1, <1>2 DEF AddressType

\* Six bytes are an address.
LEMMA SixBytes ==
    ASSUME NEW bytes \in Seq(Bytes), Len(bytes) = ADDRESS_LENGTH
    PROVE  bytes \in Address
BY LenProperties DEF Address

-----------------------------------------------------------------------------
(* Send and Answer: the request put into the queue is in order.            *)

LEMMA EnqueueKeeps ==
    ASSUME AddressingInv, NEW s \in Sockets, NEW b \in Buffers, NEW arg \in ArgumentType,
           NEW to \in Sockets \cup {Nobody}, Enqueue(s, b, arg, to),
           to # Nobody => arg = [kind |-> "text", text |-> FormatAddress(hardware_address[to])]
    PROVE  AddressingInv'
<1> DEFINE address == AddressToBuffer(arg)
           req == [buffer |-> b, address |-> address, message |-> content[b],
                   given |-> Now(address),
                   refers |-> {b} \cup (IF arg.kind = "buffer" THEN {arg.object} ELSE {}),
                   written |-> {}, to |-> to]
<1>1. AddressingTypeOK
  BY DEF AddressingInv
<1>2. /\ requests' = [requests EXCEPT ![s] = Append(requests[s], req)]
      /\ outcome' = "done"
      /\ UNCHANGED <<hwaddr, hardware_address, content, link, heard>>
  BY DEF Enqueue
<1>3. /\ address \in AddressType
      /\ address.kind = "users" => arg.kind = "buffer" /\ address.object = arg.object
      /\ arg.kind = "buffer" => arg.object \in Buffers
      /\ arg.kind = "text" => address = [kind |-> "own", bytes |-> ParseText(arg.text)]
  BY <1>1, AddressToBufferType
<1>4. Now(address) \in Seq(Bytes)
  BY <1>1, <1>3, NowBytes
<1>5. content[b] \in Contents
  BY <1>1, ContentBytes DEF Objects
<1>6. to # Nobody => address = [kind |-> "own", bytes |-> hardware_address[to]]
  <2>1. SUFFICES ASSUME to # Nobody
                 PROVE  address = [kind |-> "own", bytes |-> hardware_address[to]]
    OBVIOUS
  <2>2. hardware_address[to] \in Address
    BY <1>1, <2>1, AddressingAssumption DEF AddressingTypeOK
  <2>3. arg.kind = "text" /\ arg.text = FormatAddress(hardware_address[to])
    BY <2>1
  <2>4. QED
    BY <1>3, <2>2, <2>3, AddressRoundTrip
<1> HIDE DEF address
<1>7. req \in RequestType
  BY <1>3, <1>4, <1>5 DEF RequestType, AddressType
<1>8. /\ req.buffer \in req.refers
      /\ req.address.kind = "users" => req.address.object \in req.refers
      /\ Now(req.address) = req.given /\ content[req.buffer] = req.message
      /\ req.to # Nobody => req.address = [kind |-> "own", bytes |-> hardware_address[req.to]]
  BY <1>3, <1>6
<1>9. RequestOK(req)
  BY <1>8 DEF RequestOK
<1> HIDE DEF req
<1>10. requests[s] \in Seq(RequestType) /\ requests \in [Sockets -> Seq(RequestType)]
  BY <1>1 DEF AddressingTypeOK
<1>11. /\ Append(requests[s], req) \in Seq(RequestType)
       /\ \A n \in DOMAIN Append(requests[s], req) :
            \/ n \in DOMAIN requests[s] /\ Append(requests[s], req)[n] = requests[s][n]
            \/ Append(requests[s], req)[n] = req
  BY <1>7, <1>10, PushedElements
<1>12. AddressingTypeOK'
  <2>1. requests' \in [Sockets -> Seq(RequestType)]
    BY <1>2, <1>10, <1>11
  <2>2. QED
    BY <1>1, <1>2, <2>1 DEF AddressingTypeOK
<1>13. QueuesOK'
  <2>1. SUFFICES ASSUME NEW t \in Sockets, NEW n \in DOMAIN requests'[t]
                 PROVE  RequestOK(requests[t][n])'
    BY DEF QueuesOK
  <2>2. \/ n \in DOMAIN requests[t] /\ requests'[t][n] = requests[t][n]
        \/ requests'[t][n] = req
    <3>1. CASE t = s
      BY <1>2, <1>10, <1>11, <3>1
    <3>2. CASE t # s
      BY <1>2, <1>10, <3>2
    <3>3. QED
      BY <3>1, <3>2
  <2>3. RequestOK(requests'[t][n])
    BY <1>9, <2>2 DEF AddressingInv, QueuesOK
  <2>4. QED
    BY <1>2, <2>3 DEF RequestOK, Now
<1>14. DistinctAddresses' /\ SourcesOK' /\ HeardOK' /\ SentAsGiven' /\ AnswersReturn'
  BY <1>2 DEF AddressingInv, DistinctAddresses, SourcesOK, HeardOK, SentAsGiven, AnswersReturn
<1>15. QED
  BY <1>12, <1>13, <1>14 DEF AddressingInv

-----------------------------------------------------------------------------
(* onSend: the first request leaves its queue.                             *)

\* Taking the first request out of a queue leaves the others as they are.
LEMMA ShiftKeeps ==
    ASSUME AddressingInv, NEW s \in Sockets, requests[s] # <<>>, Shift(s),
           UNCHANGED <<hwaddr, hardware_address, content, heard>>
    PROVE  /\ Head(requests[s]) \in RequestType /\ RequestOK(Head(requests[s]))
           /\ requests' \in [Sockets -> Seq(RequestType)]
           /\ QueuesOK' /\ DistinctAddresses' /\ HeardOK'
<1>1. requests[s] \in Seq(RequestType) /\ requests \in [Sockets -> Seq(RequestType)]
  BY DEF AddressingInv, AddressingTypeOK
<1>2. /\ 1 \in DOMAIN requests[s] /\ Head(requests[s]) = requests[s][1]
      /\ Head(requests[s]) \in RequestType
      /\ Tail(requests[s]) \in Seq(RequestType)
      /\ \A n \in DOMAIN Tail(requests[s]) :
            n + 1 \in DOMAIN requests[s] /\ Tail(requests[s])[n] = requests[s][n + 1]
  BY <1>1, ShiftedElements
<1>3. RequestOK(Head(requests[s]))
  BY <1>2 DEF AddressingInv, QueuesOK
<1>4. requests' = [requests EXCEPT ![s] = Tail(requests[s])]
  BY DEF Shift
<1>5. requests' \in [Sockets -> Seq(RequestType)]
  BY <1>1, <1>2, <1>4
<1>6. QueuesOK'
  <2>1. SUFFICES ASSUME NEW t \in Sockets, NEW n \in DOMAIN requests'[t]
                 PROVE  RequestOK(requests[t][n])'
    BY DEF QueuesOK
  <2>2. RequestOK(requests'[t][n])
    <3>1. CASE t = s
      <4>1. n \in DOMAIN Tail(requests[s]) /\ requests'[t][n] = Tail(requests[s])[n]
        BY <1>1, <1>4, <3>1
      <4>2. n + 1 \in DOMAIN requests[s] /\ requests'[t][n] = requests[s][n + 1]
        BY <1>2, <4>1
      <4>3. QED
        BY <4>2 DEF AddressingInv, QueuesOK
    <3>2. CASE t # s
      <4>1. requests'[t] = requests[t]
        BY <1>1, <1>4, <3>2
      <4>2. QED
        BY <4>1 DEF AddressingInv, QueuesOK
    <3>3. QED
      BY <3>1, <3>2
  <2>3. QED
    BY <2>2 DEF RequestOK, Now
<1>7. DistinctAddresses' /\ HeardOK'
  BY DEF AddressingInv, DistinctAddresses, HeardOK
<1>8. QED
  BY <1>2, <1>3, <1>5, <1>6, <1>7

LEMMA OnSendKeeps ==
    ASSUME AddressingInv, NEW s \in Sockets, OnSend(s)
    PROVE  AddressingInv'
<1> DEFINE req == Head(requests[s])
           frame == FrameOf(s, req)
<1>1. AddressingTypeOK
  BY DEF AddressingInv
<1>2. /\ requests[s] # <<>> /\ Shift(s)
      /\ Len(Now(req.address)) = ADDRESS_LENGTH
      /\ link' = link \cup {frame}
      /\ outcome' = "done"
      /\ UNCHANGED <<hwaddr, hardware_address, content, heard>>
  BY DEF OnSend
<1>3. /\ req \in RequestType /\ RequestOK(req)
      /\ requests' \in [Sockets -> Seq(RequestType)]
      /\ QueuesOK' /\ DistinctAddresses' /\ HeardOK'
  BY <1>2, ShiftKeeps
<1> HIDE DEF req
<1>4. /\ req.address \in AddressType /\ req.buffer \in Buffers
      /\ req.message \in Contents /\ req.given \in Seq(Bytes)
      /\ req.written \in SUBSET Buffers /\ req.to \in Sockets \cup {Nobody}
  BY <1>3 DEF RequestType, AddressType
<1>5. Now(req.address) \in Address
  <2>1. Now(req.address) \in Seq(Bytes)
    BY <1>1, <1>4, NowBytes
  <2>2. QED
    BY <1>2, <2>1, SixBytes
<1>6. content[req.buffer] \in Contents /\ hardware_address[s] \in HwAddresses
  <2>1. req.buffer \in Objects
    BY <1>4 DEF Objects
  <2>2. QED
    BY <1>1, <2>1, ContentBytes DEF AddressingTypeOK
<1>7. /\ frame.from = s /\ frame.source = hardware_address[s]
      /\ frame.destination = Now(req.address) /\ frame.payload = content[req.buffer]
      /\ frame.message = req.message /\ frame.given = req.given
      /\ frame.written = req.written /\ frame.to = req.to
  BY DEF FrameOf
<1>8. frame \in FrameType
  BY <1>4, <1>5, <1>6 DEF FrameOf, FrameType
<1> HIDE DEF frame
<1>9. AddressingTypeOK'
  <2>1. link' \subseteq FrameType
    BY <1>1, <1>2, <1>8 DEF AddressingTypeOK
  <2>2. QED
    BY <1>1, <1>2, <1>3, <2>1 DEF AddressingTypeOK
<1>10. SourcesOK'
  BY <1>2, <1>7 DEF AddressingInv, SourcesOK
<1>11. SentAsGiven'
  <2>1. frame.written = {} => frame.destination = frame.given /\ frame.payload = frame.message
    BY <1>3, <1>7 DEF RequestOK
  <2>2. QED
    BY <1>2, <2>1 DEF AddressingInv, SentAsGiven
<1>12. AnswersReturn'
  <2>1. frame.to # Nobody => frame.destination = hardware_address[frame.to]
    BY <1>3, <1>7 DEF RequestOK, Now
  <2>2. QED
    BY <1>2, <2>1 DEF AddressingInv, AnswersReturn
<1>13. QED
  BY <1>3, <1>9, <1>10, <1>11, <1>12 DEF AddressingInv

LEMMA OnSendRefusedKeeps ==
    ASSUME AddressingInv, NEW s \in Sockets, OnSendRefused(s)
    PROVE  AddressingInv'
<1>1. /\ requests[s] # <<>> /\ Shift(s)
      /\ outcome' = "error"
      /\ UNCHANGED <<hwaddr, hardware_address, content, link, heard>>
  BY DEF OnSendRefused
<1>2. /\ requests' \in [Sockets -> Seq(RequestType)]
      /\ QueuesOK' /\ DistinctAddresses' /\ HeardOK'
  BY <1>1, ShiftKeeps
<1>3. AddressingTypeOK'
  BY <1>1, <1>2 DEF AddressingInv, AddressingTypeOK
<1>4. SourcesOK' /\ SentAsGiven' /\ AnswersReturn'
  BY <1>1 DEF AddressingInv, SourcesOK, SentAsGiven, AnswersReturn
<1>5. QED
  BY <1>2, <1>3, <1>4 DEF AddressingInv

-----------------------------------------------------------------------------
(* The other steps.                                                        *)

\* What the user writes to is noted in the requests that refer to it.
LEMMA UserWritesKeeps ==
    ASSUME AddressingInv, NEW o \in Objects, UserWrites(o)
    PROVE  AddressingInv'
<1> DEFINE Noted(req) == [req EXCEPT !.written = req.written \cup (req.refers \cap {o})]
<1>1. AddressingTypeOK
  BY DEF AddressingInv
<1>2. PICK c \in Contents : content' = [content EXCEPT ![o] = c]
  BY DEF UserWrites
<1>3. /\ requests' = [s \in Sockets |-> [n \in DOMAIN requests[s] |-> Noted(requests[s][n])]]
      /\ UNCHANGED <<hwaddr, hardware_address, link, heard, outcome>>
  BY DEF UserWrites
<1>4. content \in [Objects -> Contents] /\ content' \in [Objects -> Contents]
  BY <1>1, <1>2 DEF AddressingTypeOK
<1>5. ASSUME NEW req \in RequestType
      PROVE  /\ Noted(req) \in RequestType
             /\ Noted(req).buffer = req.buffer /\ Noted(req).address = req.address
             /\ Noted(req).message = req.message /\ Noted(req).given = req.given
             /\ Noted(req).refers = req.refers /\ Noted(req).to = req.to
             /\ Noted(req).written = req.written \cup (req.refers \cap {o})
  BY DEF RequestType
<1>6. ASSUME NEW s \in Sockets
      PROVE  /\ requests[s] \in Seq(RequestType)
             /\ \A n \in DOMAIN requests[s] : requests[s][n] \in RequestType
             /\ requests'[s] = [n \in DOMAIN requests[s] |-> Noted(requests[s][n])]
  <2>1. requests[s] \in Seq(RequestType)
    BY <1>1 DEF AddressingTypeOK
  <2>2. QED
    BY <1>3, <2>1, QueuedElement
<1> HIDE DEF Noted
<1>7. requests' \in [Sockets -> Seq(RequestType)]
  <2>1. ASSUME NEW s \in Sockets
        PROVE  requests'[s] \in Seq(RequestType)
    <3>1. Len(requests[s]) \in Nat /\ DOMAIN requests[s] = 1 .. Len(requests[s])
      BY <1>6, LenProperties
    <3>2. requests'[s] \in [1 .. Len(requests[s]) -> RequestType]
      BY <1>5, <1>6, <3>1
    <3>3. QED
      BY <3>1, <3>2, FunctionIsSeq
  <2>2. QED
    BY <1>3, <2>1
<1>8. AddressingTypeOK'
  BY <1>1, <1>3, <1>4, <1>7 DEF AddressingTypeOK
<1>9. QueuesOK'
  <2>1. SUFFICES ASSUME NEW s \in Sockets, NEW n \in DOMAIN requests'[s]
                 PROVE  RequestOK(requests[s][n])'
    BY DEF QueuesOK
  <2>2. n \in DOMAIN requests[s]
    BY <1>6
  <2>3. requests[s][n] \in RequestType /\ requests'[s][n] = Noted(requests[s][n])
    BY <1>6, <2>2
  <2>4. PICK req \in RequestType : req = requests[s][n] /\ requests'[s][n] = Noted(req)
    BY <2>3
  <2>5. RequestOK(req)
    BY <2>2, <2>4 DEF AddressingInv, QueuesOK
  <2>6. /\ req.buffer \in req.refers
        /\ req.address.kind = "users" => req.address.object \in req.refers
        /\ req.written = {} => Now(req.address) = req.given /\ content[req.buffer] = req.message
        /\ req.to # Nobody => req.address = [kind |-> "own", bytes |-> hardware_address[req.to]]
    BY <2>5 DEF RequestOK
  <2>7. CASE o \in req.refers
    <3>1. Noted(req).written # {}
      BY <1>5, <2>7
    <3>2. QED
      BY <1>3, <1>5, <2>4, <2>6, <3>1 DEF RequestOK
  <2>8. CASE o \notin req.refers
    <3>1. content'[req.buffer] = content[req.buffer] /\ Noted(req).written = req.written
      <4>1. req.buffer # o /\ req.buffer \in Objects
        BY <2>6, <2>8 DEF RequestType, Objects
      <4>2. content'[req.buffer] = content[req.buffer]
        BY <1>2, <1>4, <4>1
      <4>3. req.refers \cap {o} = {}
        BY <2>8
      <4>4. QED
        BY <1>5, <4>2, <4>3
    <3>2. Now(req.address)' = Now(req.address)
      <4>1. req.address \in AddressType
        BY DEF RequestType, AddressType
      <4>2. CASE req.address.kind = "own"
        BY <4>2 DEF Now
      <4>3. CASE req.address.kind # "own"
        <5>1. req.address.kind = "users" /\ req.address.object \in Objects
          BY <4>1, <4>3 DEF AddressType, Objects
        <5>2. req.address.object # o
          BY <2>6, <2>8, <5>1
        <5>3. QED
          BY <1>2, <1>4, <4>3, <5>1, <5>2 DEF Now
      <4>4. QED
        BY <4>2, <4>3
    <3>3. PICK noted \in RequestType : noted = Noted(req)
      BY <1>5
    <3>4. /\ noted.buffer \in noted.refers
          /\ noted.address.kind = "users" => noted.address.object \in noted.refers
          /\ noted.to # Nobody =>
               noted.address = [kind |-> "own", bytes |-> hardware_address[noted.to]]
      BY <1>5, <2>6, <3>3
    <3>5. noted.written = {} => req.written = {}
      BY <3>1, <3>3
    <3>6. noted.address = req.address /\ noted.given = req.given
          /\ noted.buffer = req.buffer /\ noted.message = req.message
      BY <1>5, <3>3
    <3>7. noted.written = {} =>
            Now(noted.address)' = noted.given /\ content'[noted.buffer] = noted.message
      BY <2>6, <3>1, <3>2, <3>5, <3>6
    <3>8. QED
      BY <1>3, <2>4, <3>3, <3>4, <3>7 DEF RequestOK
  <2>9. QED
    BY <2>7, <2>8
<1>10. DistinctAddresses' /\ SourcesOK' /\ HeardOK' /\ SentAsGiven' /\ AnswersReturn'
  BY <1>3 DEF AddressingInv, DistinctAddresses, SourcesOK, HeardOK, SentAsGiven, AnswersReturn
<1>11. QED
  BY <1>8, <1>9, <1>10 DEF AddressingInv

LEMMA AddressChangesKeeps ==
    ASSUME AddressingInv, NEW s \in Sockets, AddressChanges(s)
    PROVE  AddressingInv'
<1>1. PICK a \in HwAddresses \ {hwaddr[t] : t \in Sockets} : hwaddr' = [hwaddr EXCEPT ![s] = a]
  BY DEF AddressChanges
<1>2. UNCHANGED <<hardware_address, content, requests, link, heard, outcome>>
  BY DEF AddressChanges
<1>3. hwaddr \in [Sockets -> HwAddresses]
  BY DEF AddressingInv, AddressingTypeOK
<1>4. AddressingTypeOK'
  BY <1>1, <1>2, <1>3 DEF AddressingInv, AddressingTypeOK
<1>5. DistinctAddresses'
  BY <1>1, <1>3 DEF AddressingInv, DistinctAddresses
<1>6. SourcesOK' /\ HeardOK' /\ SentAsGiven' /\ AnswersReturn'
  BY <1>2 DEF AddressingInv, SourcesOK, HeardOK, SentAsGiven, AnswersReturn
<1>7. QueuesOK'
  BY <1>2 DEF AddressingInv, QueuesOK, RequestOK, Now
<1>8. QED
  BY <1>4, <1>5, <1>6, <1>7 DEF AddressingInv

LEMMA OnRecvKeeps ==
    ASSUME AddressingInv, NEW s \in Sockets, NEW f \in link, OnRecv(s, f)
    PROVE  AddressingInv'
<1> DEFINE event == [from |-> f.from, text |-> FormatAddress(f.source)]
<1>1. /\ heard' = [heard EXCEPT ![s] = event]
      /\ link' = link \ {f}
      /\ UNCHANGED <<hwaddr, hardware_address, content, requests, outcome>>
  BY DEF OnRecv
<1>2. f \in FrameType
  BY DEF AddressingInv, AddressingTypeOK
<1>3. f.from \in Sockets /\ f.source = hardware_address[f.from] /\ f.source \in Address
  BY <1>2, AddressingAssumption DEF AddressingInv, SourcesOK, FrameType
<1>4. event \in [from : Sockets \cup {Nobody}, text : Seq(Seq(Characters))]
  BY <1>3, AddressRoundTrip
<1>5. heard \in [Sockets -> [from : Sockets \cup {Nobody}, text : Seq(Seq(Characters))]]
  BY DEF AddressingInv, AddressingTypeOK
<1>6. heard' \in [Sockets -> [from : Sockets \cup {Nobody}, text : Seq(Seq(Characters))]]
  BY <1>1, <1>4, <1>5
<1>7. AddressingTypeOK'
  BY <1>1, <1>6 DEF AddressingInv, AddressingTypeOK
<1>8. HeardOK'
  <2>1. SUFFICES ASSUME NEW t \in Sockets, heard'[t].from # Nobody
                 PROVE  heard'[t].text = FormatAddress(hardware_address[heard'[t].from])
    BY <1>1 DEF HeardOK
  <2>2. CASE t = s
    <3>1. heard'[t] = event
      BY <1>1, <1>5, <2>2
    <3>2. QED
      BY <1>3, <3>1
  <2>3. CASE t # s
    <3>1. heard'[t] = heard[t]
      BY <1>1, <1>5, <2>3
    <3>2. QED
      BY <2>1, <3>1 DEF AddressingInv, HeardOK
  <2>4. QED
    BY <2>2, <2>3
<1>9. DistinctAddresses' /\ SourcesOK' /\ SentAsGiven' /\ AnswersReturn'
  BY <1>1 DEF AddressingInv, DistinctAddresses, SourcesOK, SentAsGiven, AnswersReturn
<1>10. QueuesOK'
  BY <1>1 DEF AddressingInv, QueuesOK, RequestOK, Now
<1>11. QED
  BY <1>7, <1>8, <1>9, <1>10 DEF AddressingInv

-----------------------------------------------------------------------------
(* The theorems.                                                           *)

LEMMA InitInv == Init => AddressingInv
<1>1. SUFFICES ASSUME Init
               PROVE  AddressingInv
  OBVIOUS
<1>2. PICK c \in Contents : content = [o \in Objects |-> c]
  BY <1>1 DEF Init
<1>3. /\ requests = [s \in Sockets |-> <<>>] /\ link = {}
      /\ heard = [s \in Sockets |-> [from |-> Nobody, text |-> <<>>]]
      /\ hwaddr \in [Sockets -> HwAddresses] /\ hardware_address = hwaddr
      /\ outcome = "done"
  BY <1>1 DEF Init
<1>4. <<>> \in Seq(RequestType) /\ <<>> \in Seq(Seq(Characters))
  BY EmptySeq
<1>5. heard \in [Sockets -> [from : Sockets \cup {Nobody}, text : Seq(Seq(Characters))]]
  BY <1>3, <1>4
<1>6. requests \in [Sockets -> Seq(RequestType)]
  BY <1>3, <1>4
<1>7. AddressingTypeOK
  BY <1>2, <1>3, <1>5, <1>6 DEF AddressingTypeOK
<1>8. DistinctAddresses
  BY <1>1 DEF Init, DistinctAddresses
<1>9. QueuesOK
  BY <1>3 DEF QueuesOK
<1>10. SourcesOK /\ SentAsGiven /\ AnswersReturn /\ HeardOK
  BY <1>3 DEF SourcesOK, SentAsGiven, AnswersReturn, HeardOK
<1>11. QED
  BY <1>7, <1>8, <1>9, <1>10 DEF AddressingInv

LEMMA StepInv == AddressingInv /\ [Next]_vars => AddressingInv'
<1>1. SUFFICES ASSUME AddressingInv, [Next]_vars
               PROVE  AddressingInv'
  OBVIOUS
<1>2. Arguments \subseteq ArgumentType
  BY AddressingAssumption DEF Arguments, ArgumentType
<1>3. CASE \E o \in Objects : UserWrites(o)
  BY <1>1, <1>3, UserWritesKeeps
<1>4. CASE \E f \in link : Lost(f)
  <2>1. PICK f \in link : Lost(f)
    BY <1>4
  <2>2. /\ link' \subseteq link
        /\ UNCHANGED <<hwaddr, hardware_address, content, requests, heard, outcome>>
    BY <2>1 DEF Lost
  <2>3. AddressingTypeOK'
    BY <1>1, <2>2 DEF AddressingInv, AddressingTypeOK
  <2>4. DistinctAddresses' /\ SourcesOK' /\ HeardOK' /\ SentAsGiven' /\ AnswersReturn'
    BY <1>1, <2>2 DEF AddressingInv, DistinctAddresses, SourcesOK, HeardOK, SentAsGiven,
           AnswersReturn
  <2>5. QueuesOK'
    BY <1>1, <2>2 DEF AddressingInv, QueuesOK, RequestOK, Now
  <2>6. QED
    BY <2>3, <2>4, <2>5 DEF AddressingInv
<1>5. CASE \E arg \in Arguments : SendThrows(arg)
  <2>1. outcome' = "threw" /\ UNCHANGED <<hwaddr, hardware_address, content, requests, link, heard>>
    BY <1>5 DEF SendThrows
  <2>2. AddressingTypeOK'
    BY <1>1, <2>1 DEF AddressingInv, AddressingTypeOK
  <2>3. DistinctAddresses' /\ SourcesOK' /\ HeardOK' /\ SentAsGiven' /\ AnswersReturn'
    BY <1>1, <2>1 DEF AddressingInv, DistinctAddresses, SourcesOK, HeardOK, SentAsGiven,
           AnswersReturn
  <2>4. QueuesOK'
    BY <1>1, <2>1 DEF AddressingInv, QueuesOK, RequestOK, Now
  <2>5. QED
    BY <2>2, <2>3, <2>4 DEF AddressingInv
<1>6. ASSUME NEW s \in Sockets, AddressChanges(s) \/ OnSend(s) \/ OnSendRefused(s)
      PROVE  AddressingInv'
  BY <1>1, <1>6, AddressChangesKeeps, OnSendKeeps, OnSendRefusedKeeps
<1>7. ASSUME NEW s \in Sockets, NEW f \in link, OnRecv(s, f)
      PROVE  AddressingInv'
  BY <1>1, <1>7, OnRecvKeeps
<1>8. ASSUME NEW s \in Sockets, NEW b \in Buffers, Answer(s, b)
      PROVE  AddressingInv'
  <2>1. heard[s] \in [from : Sockets \cup {Nobody}, text : Seq(Seq(Characters))]
    BY <1>1 DEF AddressingInv, AddressingTypeOK
  <2>2. heard[s].from \in Sockets \cup {Nobody} /\ heard[s].text \in Seq(Seq(Characters))
    BY <2>1
  <2>3. heard[s].from # Nobody /\ heard[s].text = FormatAddress(hardware_address[heard[s].from])
    BY <1>1, <1>8 DEF Answer, AddressingInv, HeardOK
  <2>4. [kind |-> "text", text |-> heard[s].text] \in ArgumentType
    BY <2>2 DEF ArgumentType
  <2>5. Enqueue(s, b, [kind |-> "text", text |-> heard[s].text], heard[s].from)
    BY <1>8 DEF Answer
  <2>6. QED
    BY <1>1, <2>2, <2>3, <2>4, <2>5, EnqueueKeeps
<1>9. ASSUME NEW s \in Sockets, NEW b \in Buffers, NEW arg \in Arguments, Send(s, b, arg)
      PROVE  AddressingInv'
  <2>1. Enqueue(s, b, arg, Nobody) /\ arg \in ArgumentType
    BY <1>2, <1>9 DEF Send
  <2>2. QED
    BY <1>1, <2>1, EnqueueKeeps
<1>10. CASE UNCHANGED vars
  <2>1. UNCHANGED <<hwaddr, hardware_address, content, requests, link, heard, outcome>>
    BY <1>10 DEF vars
  <2>2. AddressingTypeOK'
    BY <1>1, <2>1 DEF AddressingInv, AddressingTypeOK
  <2>3. DistinctAddresses' /\ SourcesOK' /\ HeardOK' /\ SentAsGiven' /\ AnswersReturn'
    BY <1>1, <2>1 DEF AddressingInv, DistinctAddresses, SourcesOK, HeardOK, SentAsGiven,
           AnswersReturn
  <2>4. QueuesOK'
    BY <1>1, <2>1 DEF AddressingInv, QueuesOK, RequestOK, Now
  <2>5. QED
    BY <2>2, <2>3, <2>4 DEF AddressingInv
<1>11. QED
  BY <1>1, <1>3, <1>4, <1>5, <1>6, <1>7, <1>8, <1>9, <1>10 DEF Next

\* The inductive invariant: what is queued still means what it meant in the call of send, and
\* every text a listener has seen is the address its sender's socket was opened with.
THEOREM Invariant == Spec => []AddressingInv
BY InitInv, StepInv, PTL DEF Spec

\* What the user left alone goes out as it was given to send (socket.js lines 7 to 13 and 38).
THEOREM GivenIsSent == Spec => []SentAsGiven
<1>1. AddressingInv => SentAsGiven
  BY DEF AddressingInv
<1>2. QED
  BY <1>1, Invariant, PTL

\* An answer to the text of a "message" event goes to its sender (socket.js lines 12 and 25).
THEOREM AnswersGoBack == Spec => []AnswersReturn
<1>1. AddressingInv => AnswersReturn
  BY DEF AddressingInv
<1>2. QED
  BY <1>1, Invariant, PTL

\* Two senders never show the same text as long as the interfaces keep their addresses.
THEOREM TellsSendersApart == Spec => []SendersToldApart
<1>1. AddressingInv => SendersToldApart
  <2>1. SUFFICES ASSUME AddressingInv, hwaddr = hardware_address,
                        NEW s \in Sockets, heard[s].from # Nobody, NEW t \in Sockets
                 PROVE  ParseText(heard[s].text) = hwaddr[t] <=> t = heard[s].from
    BY DEF SendersToldApart
  <2>2. heard[s].from \in Sockets
    <3>1. heard[s] \in [from : Sockets \cup {Nobody}, text : Seq(Seq(Characters))]
      BY <2>1 DEF AddressingInv, AddressingTypeOK
    <3>2. QED
      BY <2>1, <3>1
  <2>3. hwaddr[heard[s].from] \in Address
    BY <2>1, <2>2, AddressingAssumption DEF AddressingInv, AddressingTypeOK
  <2>4. heard[s].text = FormatAddress(hwaddr[heard[s].from])
    BY <2>1 DEF AddressingInv, HeardOK
  <2>5. ParseText(heard[s].text) = hwaddr[heard[s].from]
    BY <2>3, <2>4, AddressRoundTrip
  <2>6. QED
    BY <2>1, <2>2, <2>5 DEF AddressingInv, DistinctAddresses
<1>2. QED
  BY <1>1, Invariant, PTL
=============================================================================
