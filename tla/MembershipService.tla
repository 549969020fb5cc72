-------------------------- MODULE MembershipService --------------------------
(***************************************************************************)
(* What joinMC and leaveMC promise: each socket has counted memberships; a *)
(* call either changes the one its argument names by one, and succeeds, or *)
(* changes none and fails, as one whose argument names none must.          *)
(***************************************************************************)
EXTENDS Naturals

CONSTANTS Sockets, Memberships, NoMembership

VARIABLES
    members,    \* per socket, how often it has each membership
    last        \* the last call: what it was, what its argument named, how it ended

Init ==
    /\ members = [s \in Sockets |-> [m \in Memberships |-> 0]]
    /\ last = [call |-> "none", named |-> NoMembership, result |-> "done"]

Join(s, m) ==
    /\ members' = [members EXCEPT ![s][m] = @ + 1]
    /\ last' = [call |-> "join", named |-> m, result |-> "done"]

\* Leaving what one has not joined may pass without a word.
Leave(s, m) ==
    /\ members' = IF members[s][m] = 0 THEN members ELSE [members EXCEPT ![s][m] = @ - 1]
    /\ last' = [call |-> "leave", named |-> m, result |-> "done"]

Refuse(call, m) ==
    /\ last' = [call |-> call, named |-> m, result |-> "error"]
    /\ UNCHANGED members

Next ==
    \/ \E s \in Sockets, m \in Memberships : Join(s, m) \/ Leave(s, m)
    \/ \E call \in {"join", "leave"}, m \in Memberships \cup {NoMembership} :
          Refuse(call, m)

Spec == Init /\ [][Next]_<<members, last>>
=============================================================================
