---------------------------- MODULE SendService -----------------------------
(***************************************************************************)
(* What Socket.prototype.send of src/socket.js promises, with no poller,   *)
(* no event loop and no callbacks: requests are attempted one by one in    *)
(* the order of submission, each at most once, and each attempt fixes one  *)
(* outcome, which stays until nobody asks for it any more.  Closing ends   *)
(* the service, except that the attempt under way when close is called may *)
(* still be carried out.                                                   *)
(***************************************************************************)
EXTENDS Sequences

CONSTANT Requests

VARIABLES
    pending,    \* submitted and not attempted, in order of submission
    outcome,    \* what became of each request
    open,       \* close has not been called
    straggled   \* a request has been attempted after close

vars == <<pending, outcome, open, straggled>>

Init ==
    /\ pending = <<>>
    /\ outcome = [r \in Requests |-> "none"]
    /\ open = TRUE
    /\ straggled = FALSE

Submit(r) ==
    /\ outcome[r] = "none"
    /\ pending' = Append(pending, r)
    /\ outcome' = [outcome EXCEPT ![r] = "pending"]
    /\ UNCHANGED <<open, straggled>>

Attempt(verdict) ==
    /\ pending # <<>>
    /\ ~straggled
    /\ outcome[Head(pending)] = "pending"
    /\ pending' = Tail(pending)
    /\ outcome' = [outcome EXCEPT ![Head(pending)] = verdict]
    /\ straggled' = ~open
    /\ UNCHANGED open

Close ==
    /\ open
    /\ open' = FALSE
    /\ UNCHANGED <<pending, outcome, straggled>>

\* The outcome is of no more interest, and the name is free for another request.
Forget(r) ==
    /\ outcome[r] \in {"transmitted", "failed"}
    /\ outcome' = [outcome EXCEPT ![r] = "none"]
    /\ UNCHANGED <<pending, open, straggled>>

Next ==
    \/ \E r \in Requests : Submit(r) \/ Forget(r)
    \/ \E verdict \in {"transmitted", "failed"} : Attempt(verdict)
    \/ Close

Spec == Init /\ [][Next]_vars
=============================================================================
