--------------------------- MODULE ChannelAdmission ---------------------------
(***************************************************************************)
(* What bridge channel admission promises, without frames, clocks or       *)
(* failures: a connect authorises at most one session, a session is        *)
(* admitted for at most one connect and only one that authorised it at the *)
(* session's own endpoint, and a connect regards itself as admitted only   *)
(* when the session it authorised is.                                      *)
(***************************************************************************)

CONSTANTS Connects, Sessions, Endpoints, EndpointOf, NoValue

VARIABLES
    target,      \* the endpoint each connect was started for
    authorised,  \* the session a connect put its signature to
    admitted,    \* the connect a session was admitted for
    confirmed    \* the connects that know they were admitted

vars == <<target, authorised, admitted, confirmed>>

Init ==
    /\ target \in [Connects -> Endpoints]
    /\ authorised = [c \in Connects |-> NoValue]
    /\ admitted = [s \in Sessions |-> NoValue]
    /\ confirmed = {}

Authorise(c, s) ==
    /\ authorised[c] = NoValue
    /\ authorised' = [authorised EXCEPT ![c] = s]
    /\ UNCHANGED <<target, admitted, confirmed>>

Admit(c, s) ==
    /\ authorised[c] = s
    /\ admitted[s] = NoValue
    /\ EndpointOf[s] = target[c]
    /\ admitted' = [admitted EXCEPT ![s] = c]
    /\ UNCHANGED <<target, authorised, confirmed>>

Confirm(c, s) ==
    /\ authorised[c] = s
    /\ admitted[s] = c
    /\ confirmed' = confirmed \cup {c}
    /\ UNCHANGED <<target, authorised, admitted>>

(* The connection may be lost at any time, confirmed or not.               *)
Lose(c) ==
    /\ confirmed' = confirmed \ {c}
    /\ UNCHANGED <<target, authorised, admitted>>

Next ==
    \E c \in Connects :
        \/ \E s \in Sessions : Authorise(c, s) \/ Admit(c, s) \/ Confirm(c, s)
        \/ Lose(c)

Spec == Init /\ [][Next]_vars
=============================================================================
