----------------------------- MODULE Addresses -----------------------------
(***************************************************************************)
(* The forms of an address: six bytes on the wire and in a Buffer, an      *)
(* array of numbers, and text as "message" listeners get it and send,      *)
(* joinMC and leaveMC take it.                                             *)
(*                                                                         *)
(* A text is the sequence of its parts between colons, a part the sequence *)
(* of its characters: the value of a hexadecimal digit, or NotHex.         *)
(*                                                                         *)
(* NotHex is a character at which parseInt(v, 16) stops: none of those it  *)
(* reads otherwise, which are white space and a sign at the beginning and  *)
(* the x of a leading 0x.  Texts with these are not modelled, nor parts of *)
(* more than MaxDigits characters, whose low bits parseInt may round away. *)
(***************************************************************************)
EXTENDS Naturals, Sequences

NotHex == 16
ADDRESS_LENGTH == 6
MaxDigits == 13      \* 52 bits; a number of JavaScript is exact to 53

Characters == 0 .. NotHex
Bytes == 0 .. 255
Address == [1 .. ADDRESS_LENGTH -> Bytes]

\* Faulty variant: the regular expression consumes the text from its end.
FormatReversed(bytes) ==
    [n \in DOMAIN bytes |-> LET b == bytes[Len(bytes) + 1 - n] IN <<b \div 16, b % 16>>]

\* toString('hex') and the regular expression of onRecv: two digits for each byte, with a
\* colon after each pair that is followed by another one.
FormatAddress(bytes) == [n \in DOMAIN bytes |-> <<bytes[n] \div 16, bytes[n] % 16>>]

\* parseInt(v, 16), of a part as described above, reads the digits up to the first other
\* character.  Without any it is NaN, which a Buffer stores as 0.
HexPrefix(part) ==
    LET n == CHOOSE k \in 0 .. Len(part) :
                /\ NotHex \notin {part[i] : i \in 1 .. k}
                /\ k = Len(part) \/ part[k + 1] = NotHex
    IN  SubSeq(part, 1, n)

\* Faulty variant: the digits are read as decimal ones.
ParseDecimal(part) ==
    LET digits == HexPrefix(part)
        n == Len(digits)
    IN  CASE n = 0 -> 0
          [] n = 1 -> digits[1]
          [] OTHER -> 10 * digits[n - 1] + digits[n]

\* A Buffer stores the low eight bits of the number: its last two digits.
ParseByte(part) ==
    LET digits == HexPrefix(part)
        n == Len(digits)
    IN  CASE n = 0 -> 0
          [] n = 1 -> digits[1]
          [] OTHER -> 16 * digits[n - 1] + digits[n]

ParseText(text) == [n \in DOMAIN text |-> ParseByte(text[n])]

\* new Buffer(array): the low eight bits of each number.
NewBuffer(numbers) == [n \in DOMAIN numbers |-> numbers[n] % 256]

\* A text without a colon has no map method: TypeError.
HasColon(text) == Len(text) > 1
=============================================================================
