---------------------------- MODULE MCMembership ----------------------------
(* Membership for TLC.  Sockets have no order; two groups are spelled in   *)
(* every way, one as text of one digit or two and with a part too many.    *)
EXTENDS Membership, TLC

\* 1:0:5E:A:10:FB, 01:00:5e:0a:10:fb:07, five parts, and no colon.
MCTexts == {<<<<1>>, <<0>>, <<5, 14>>, <<10>>, <<1, 0>>, <<15, 11>>>>,
            <<<<0, 1>>, <<0, 0>>, <<5, 14>>, <<0, 10>>, <<1, 0>>, <<15, 11>>, <<0, 7>>>>,
            <<<<1>>, <<0>>, <<5, 14>>, <<10>>, <<1, 0>>>>,
            <<<<0, 1>>>>}

MCArrays == {<<1, 0, 94, 10, 16, 251>>, <<51, 51, 0, 0, 0, 1>>, <<1, 0, 94, 10, 16>>}

MCContents == {<<1, 0, 94, 10, 16, 251, 7>>, <<51, 51, 0, 0, 0, 1>>, <<>>}

MembershipSymmetry == Permutations(Sockets)
=============================================================================
