--------------------------- MODULE SessionRegister ---------------------------
(***************************************************************************)
(* What user-service promises about the refresh sessions of a user: each   *)
(* device has one token at most; a client gets a successor of a token only *)
(* if the token was its device's when the service looked; and a token that *)
(* was replaced, revoked or left to expire is spent for good.              *)
(***************************************************************************)
CONSTANTS Clients, Devices, Tokens, None

VARIABLES current,  \* the token of each device, or None
          spent,    \* tokens that no device will have again
          granted   \* successors that were granted and are not out yet

vars == <<current, spent, granted>>

New(t) == t \in Tokens \ spent /\ \A k \in Devices : current[k] # t

Init ==
    /\ current = [k \in Devices |-> None]
    /\ spent = {} /\ granted = {}

\* A token that cannot be stored is spent at once.
HandOut(k, t) ==
    /\ New(t)
    /\ \/ /\ current' = [current EXCEPT ![k] = t]
          /\ spent' = spent \cup ({current[k]} \ {None})
       \/ spent' = spent \cup {t} /\ UNCHANGED current

Login(k, t) == HandOut(k, t) /\ UNCHANGED granted

Grant(c, k) ==
    /\ current[k] # None /\ \A g \in granted : g.client # c
    /\ granted' = granted \cup {[client |-> c, device |-> k, token |-> current[k]]}
    /\ UNCHANGED <<current, spent>>

Succeed(g, t) ==
    /\ g \in granted /\ granted' = granted \ {g}
    /\ HandOut(g.device, t)

End(k) ==
    /\ current[k] # None
    /\ current' = [current EXCEPT ![k] = None] /\ spent' = spent \cup {current[k]}
    /\ UNCHANGED granted

Next ==
    \/ \E k \in Devices : End(k) \/ \E t \in Tokens : Login(k, t)
    \/ \E c \in Clients, k \in Devices : Grant(c, k)
    \/ \E g \in granted, t \in Tokens : Succeed(g, t)

Spec == Init /\ [][Next]_vars
=============================================================================
