----------------------------- MODULE Membership -----------------------------
(***************************************************************************)
(* Memberships: joinMC and leaveMC from their argument (src/socket.js)     *)
(* through Wrapper::ParseMembershipArguments and Socket::manage_membership *)
(* to the list of counted entries the kernel keeps for each AF_PACKET      *)
(* socket.  A call runs to its end on the JavaScript thread.               *)
(*                                                                         *)
(* An address is given as text, as an array or as a Buffer; what a text    *)
(* with other parts than one or two digits is read as is the matter of     *)
(* Addressing.  A number stands for all that Nan::To<int> turns into it.   *)
(* close() appears nowhere: it leaves the descriptor, with its             *)
(* memberships, open.                                                      *)
(***************************************************************************)
EXTENDS Addresses

CONSTANTS
    Sockets,
    Texts, Arrays, Contents,    \* addresses as text, in an array, in a Buffer
    NoAddress,      \* NULL, and the zeroes of a memset structure
    NoMembership,
    MaxCount        \* bound: how often one membership is joined

\* Socket::MembershipType.  MULTICAST is not exported by socket.js, the others are.
MULTICAST == 0
PROMISCIOUS == 1
ALL_MULTICAST == 2
Exported == {PROMISCIOUS, ALL_MULTICAST}

Numbers == 0 .. 3

\* What a caller may pass.  "other" is no address at all: undefined, an object.
AddressArguments ==
    [kind : {"text"}, text : Texts] \cup [kind : {"array"}, numbers : Arrays]
        \cup [kind : {"buffer"}, bytes : Contents]

Arguments ==
    [kind : {"number"}, value : Numbers] \cup AddressArguments \cup {[kind |-> "other"]}

-----------------------------------------------------------------------------
(* What an argument names, by README.md lines 29 to 40: a mode, or a group *)
(* by its six bytes.  Of a longer address these are the first six.         *)

\* One or two hexadecimal digits.
Written(part) == IF Len(part) = 1 THEN part[1] ELSE 16 * part[1] + part[2]

Spelled(arg) ==
    CASE arg.kind = "text" -> [n \in DOMAIN arg.text |-> Written(arg.text[n])]
      [] arg.kind = "array" -> arg.numbers
      [] arg.kind = "buffer" -> arg.bytes

SixBytes(bytes) == SubSeq(bytes, 1, ADDRESS_LENGTH)

GroupArguments == {arg \in AddressArguments : Len(Spelled(arg)) >= ADDRESS_LENGTH}
Groups == {SixBytes(Spelled(arg)) : arg \in GroupArguments}

Memberships ==
    [type : Exported, group : {NoAddress}] \cup [type : {MULTICAST}, group : Groups]

Named(arg) ==
    IF arg.kind = "number" /\ arg.value \in Exported
    THEN [type |-> arg.value, group |-> NoAddress]
    ELSE IF arg \in GroupArguments
    THEN [type |-> MULTICAST, group |-> SixBytes(Spelled(arg))]
    ELSE NoMembership

ASSUME MembershipAssumption ==
    /\ Texts \subseteq Seq(Seq(0 .. 15))
    /\ \A text \in Texts : \A n \in DOMAIN text : Len(text[n]) \in {1, 2}
    /\ Arrays \subseteq Seq(Bytes) /\ Contents \subseteq Seq(Bytes)
    /\ NoAddress \notin Groups
    /\ NoMembership \notin Memberships
    /\ MaxCount \in Nat

VARIABLES
    mclist,     \* the kernel's list: per socket, the count of each request
    last,       \* the last call: what it was, what its argument named, how it ended
    crashed     \* the process has died

vars == <<mclist, last, crashed>>

-----------------------------------------------------------------------------
(* The way of an argument.                                                 *)

\* addressToBuffer, of all that is not a number.
AddressToBuffer(arg) ==
    CASE arg.kind = "text" -> ParseText(arg.text)
      [] arg.kind = "array" -> NewBuffer(arg.numbers)
      [] arg.kind = "buffer" -> arg.bytes

\* There is no map method, or Length < ADDRESS_LENGHT.
NoAddressIn(arg) ==
    \/ arg.kind = "other"
    \/ arg.kind = "text" /\ ~HasColon(arg.text)
    \/ Len(AddressToBuffer(arg)) < ADDRESS_LENGTH

Rejected == [ok |-> FALSE, type |-> MULTICAST, address |-> NoAddress]

\* Faulty variant: the length of an address is not looked at, and what is behind it in
\* memory is taken for the rest.
ParseAnyLength(arg) ==
    IF arg.kind = "number" THEN [ok |-> TRUE, type |-> arg.value, address |-> NoAddress]
    ELSE IF arg.kind = "other" THEN Rejected
    ELSE LET bytes == AddressToBuffer(arg) \o <<0, 0, 0, 0, 0, 0>>
         IN  [ok |-> TRUE, type |-> MULTICAST, address |-> SixBytes(bytes)]

\* addressToBuffer and ParseMembershipArguments, which throw for what is not ok.  Of a
\* longer address the first six bytes are used.
Parse(arg) ==
    IF arg.kind = "number" THEN [ok |-> TRUE, type |-> arg.value, address |-> NoAddress]
    ELSE IF NoAddressIn(arg) THEN Rejected
    ELSE [ok |-> TRUE, type |-> MULTICAST, address |-> SixBytes(AddressToBuffer(arg))]

IsValidMembershipType(type) == type \in {MULTICAST} \cup Exported

\* The structure manage_membership passes to setsockopt, zeroed first.
MembershipRequest(p) ==
    [mr_type |-> p.type,
     mr_alen |-> IF p.type = MULTICAST THEN 6 ELSE 0,
     mr_address |-> IF p.type = MULTICAST THEN p.address ELSE NoAddress]

\* The calls: what an argument names, and what it is parsed into.
Calls == {[named |-> Named(arg), parsed |-> Parse(arg)] : arg \in Arguments}

\* An exception before setsockopt.
Throws(c) == ~(c.parsed.ok /\ IsValidMembershipType(c.parsed.type))

\* memcpy from NULL: the number of MULTICAST came with no address.
CopiesNull(c) == ~Throws(c) /\ c.parsed.type = MULTICAST /\ c.parsed.address = NoAddress

\* The call gets as far as setsockopt, and this is what it asks for.
Asks(c) == ~Throws(c) /\ ~CopiesNull(c)
RequestOf(c) == MembershipRequest(c.parsed)

\* The one form in which each membership may be in the kernel's list.
Entry(m) ==
    [mr_type |-> m.type,
     mr_alen |-> IF m.type \in Exported THEN 0 ELSE 6,
     mr_address |-> m.group]

\* The entries that some call asks for, and those the memberships should have.
Requests == {RequestOf(c) : c \in {k \in Calls : Asks(k)}} \cup {Entry(m) : m \in Memberships}

MembershipTypeOK ==
    /\ mclist \in [Sockets -> [Requests -> Nat]]
    /\ last \in [call : {"none", "join", "leave"},
                named : Memberships \cup {NoMembership},
                result : {"done", "error"}]
    /\ crashed \in BOOLEAN

Init ==
    /\ mclist = [s \in Sockets |-> [r \in Requests |-> 0]]
    /\ last = [call |-> "none", named |-> NoMembership, result |-> "done"]
    /\ crashed = FALSE

-----------------------------------------------------------------------------
(* joinMC and leaveMC.                                                     *)

Ends(call, c, result) ==
    /\ last' = [call |-> call, named |-> c.named, result |-> result]
    /\ UNCHANGED crashed

\* An exception is caught and becomes an "error" event: the argument is no good, or the
\* kernel refuses to add an entry (no memory, no such device any more).
JoinFails(c) ==
    /\ ~crashed
    /\ Throws(c) \/ Asks(c)
    /\ Ends("join", c, "error")
    /\ UNCHANGED mclist

\* PACKET_ADD_MEMBERSHIP: a new entry, or one more on the count of an equal one.
JoinMC(s, c) ==
    /\ ~crashed /\ Asks(c)
    /\ mclist[s][RequestOf(c)] < MaxCount
    /\ mclist' = [mclist EXCEPT ![s][RequestOf(c)] = @ + 1]
    /\ Ends("join", c, "done")

LeaveFails(c) ==
    /\ ~crashed /\ Throws(c)
    /\ Ends("leave", c, "error")
    /\ UNCHANGED mclist

\* PACKET_DROP_MEMBERSHIP of an entry: it goes when its count is 0.
LeaveMC(s, c) ==
    /\ ~crashed /\ Asks(c)
    /\ mclist[s][RequestOf(c)] > 0
    /\ mclist' = [mclist EXCEPT ![s][RequestOf(c)] = @ - 1]
    /\ Ends("leave", c, "done")

\* There is no such entry: older kernels fail (EADDRNOTAVAIL), newer ones do not.
LeaveUnknown(s, c) ==
    /\ ~crashed /\ Asks(c)
    /\ mclist[s][RequestOf(c)] = 0
    /\ \E result \in {"done", "error"} : Ends("leave", c, result)
    /\ UNCHANGED mclist

\* Undefined behaviour with one outcome: the program ends.
NullCall(c) ==
    /\ ~crashed /\ CopiesNull(c)
    /\ crashed' = TRUE
    /\ UNCHANGED <<mclist, last>>

Next ==
    \E c \in Calls :
        \/ JoinFails(c) \/ LeaveFails(c) \/ NullCall(c)
        \/ \E s \in Sockets : JoinMC(s, c) \/ LeaveMC(s, c) \/ LeaveUnknown(s, c)

Spec == Init /\ [][Next]_vars

-----------------------------------------------------------------------------
(* Properties.                                                             *)

Service == INSTANCE MembershipService WITH
    members <- [s \in Sockets |-> [m \in Memberships |-> mclist[s][Entry(m)]]]

\* A call that fails, for whatever reason, changes no membership; one that succeeds
\* changes the one its argument names, of its own socket, by one (socket.js lines 63 to 76,
\* wrapper.cc lines 147 to 195, socket.cc lines 130 to 147).
ImplementsMembershipService == Service!Spec

\* However a group is spelled, as text with one or two digits to a byte, as an array or as a
\* Buffer, with or without more bytes behind the six, it is the same entry, so that leaveMC
\* finds what joinMC made: the kernel's list has nothing but the one entry of each
\* documented membership (socket.js lines 6 to 14, wrapper.cc lines 158 to 163, socket.cc
\* lines 135 to 142).
CanonicalEntries ==
    \A s \in Sockets, r \in Requests :
        mclist[s][r] > 0 => \E m \in Memberships : r = Entry(m)

\* README.md line 57: the error event is emitted in case of any error.  A call with an
\* argument that names no membership does not end the program.
BadArgumentIsError == ~crashed

\* The inductive invariant.
MembershipInv == MembershipTypeOK /\ CanonicalEntries
=============================================================================
