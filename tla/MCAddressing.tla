---------------------------- MODULE MCAddressing ----------------------------
(* Addressing for TLC: bytes of one and two digits, with and without       *)
(* letters.                                                                *)
EXTENDS Addressing, TLC

MCHwAddresses == {<<0, 9, 10, 16, 171, 255>>, <<255, 171, 16, 10, 9, 0>>, <<0, 9, 10, 16, 171, 0>>}

\* An address, and one with a byte more.
MCContents == {<<0, 9, 10, 16, 171, 255>>, <<0, 9, 10, 16, 171, 255, 1>>}

\* 0:9:A:10:AB:FF, five parts, and no colon.
MCTexts == {<<<<0>>, <<9>>, <<10>>, <<1, 0>>, <<10, 11>>, <<15, 15>>>>,
            <<<<0>>, <<NotHex>>, <<10, NotHex>>, <<1, 10, 11>>, <<>>>>,
            <<<<0, 0>>>>}

AddressingSymmetry == Permutations(Sockets)
=============================================================================
