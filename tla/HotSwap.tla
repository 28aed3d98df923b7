------------------------------ MODULE HotSwap ------------------------------
(***************************************************************************)
(* What a hot-swappable backend promises to the HTTP requests that use it: *)
(* a request keeps the backend it was given from its first step to its     *)
(* last, new requests are admitted only while the door is open, and the    *)
(* backend is replaced or retired only behind a closed door and when no    *)
(* request holds it.                                                       *)
(***************************************************************************)
CONSTANTS Requests, Instances, None

VARIABLES live,   (* the installed backend, or None                        *)
          open,   (* new requests are admitted                             *)
          users   (* the backend each request holds, or None               *)

vars == <<live, open, users>>

Init ==
    /\ live = None
    /\ open = FALSE
    /\ users = [r \in Requests |-> None]

Unused == \A r \in Requests : users[r] = None

Begin(r) ==
    /\ open /\ users[r] = None
    /\ users' = [users EXCEPT ![r] = live]
    /\ UNCHANGED <<live, open>>

End(r) ==
    /\ users' = [users EXCEPT ![r] = None]
    /\ UNCHANGED <<live, open>>

Close == open /\ open' = FALSE /\ UNCHANGED <<live, users>>

Reopen == ~open /\ live # None /\ open' = TRUE /\ UNCHANGED <<live, users>>

Install(b) ==
    /\ ~open /\ Unused
    /\ live' = b /\ open' = TRUE
    /\ UNCHANGED users

Retire == ~open /\ Unused /\ live' = None /\ UNCHANGED <<open, users>>

Next ==
    \/ \E r \in Requests : Begin(r) \/ End(r)
    \/ Close \/ Reopen \/ Retire
    \/ \E b \in Instances : Install(b)

Spec == Init /\ [][Next]_vars
=============================================================================
