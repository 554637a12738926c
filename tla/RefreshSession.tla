--------------------------- MODULE RefreshSession ---------------------------
(***************************************************************************)
(* Refresh sessions of one user: Login, VerifyGoogleIDToken and            *)
(* RotateRefreshToken in user-service/server/internal/handler.go, which    *)
(* keep one jti per device fingerprint in Redis and hand out JWTs.         *)
(*                                                                         *)
(* A token stands for its jti.  A step is one call to Redis; results of    *)
(* SET and DEL are not looked at by the code.                              *)
(***************************************************************************)
EXTENDS Integers, FiniteSets

CONSTANTS Procs,    \* rotations that can run at once
          Devices,  \* fingerprints (meta.go): user agent, IP and accept header
          Tokens,   \* jtis uuid.New can return (bound)
          Roaming,  \* TRUE: a client's fingerprint may change
          Faults,   \* "get", "set", "del": that call fails
          None

ASSUME SessionConstants ==
    /\ IsFiniteSet(Procs)
    /\ Roaming \in BOOLEAN
    /\ Faults \subseteq {"get", "set", "del"}
    /\ None \notin Tokens \cup Devices

VARIABLES current,   \* refresh:<device>:<user>, None when Redis has no key
          home,      \* the device a token was issued to
          valid,     \* tokens whose JWT has not expired
          retired,   \* tokens that are current no longer, or were never stored
          redeemed,  \* successors stored for a token
          pc,        \* "idle", "read", "store", "revoke"
          tok,       \* the token a rotation presents
          key        \* the device it comes from

tokens == <<home, valid, retired, redeemed>>
local  == <<pc, tok, key>>
vars   == <<current, tokens, local>>

May(f)  == f \in Faults
Issued  == {t \in Tokens : home[t] # None}
Held(k) == {current[k]} \ {None}

Return(p) == /\ pc'  = [pc EXCEPT ![p] = "idle"]
             /\ tok' = [tok EXCEPT ![p] = None]
             /\ key' = [key EXCEPT ![p] = None]

Init ==
    /\ current = [k \in Devices |-> None]
    /\ home = [t \in Tokens |-> None]
    /\ valid = {} /\ retired = {}
    /\ redeemed = [t \in Tokens |-> 0]
    /\ pc = [p \in Procs |-> "idle"]
    /\ tok = [p \in Procs |-> None] /\ key = [p \in Procs |-> None]

\* GenerateRefreshToken and the SET that makes the new token current.
IssueBesides(k, t) ==
    /\ t \in Tokens \ Issued
    /\ home' = [home EXCEPT ![t] = k]
    /\ valid' = valid \cup {t}
    /\ current' = IF current[k] = None THEN [current EXCEPT ![k] = t] ELSE current
    /\ UNCHANGED retired

Issue(k, t) ==
    /\ t \in Tokens \ Issued
    /\ home' = [home EXCEPT ![t] = k]
    /\ valid' = valid \cup {t}
    /\ \/ /\ current' = [current EXCEPT ![k] = t]
          /\ retired' = retired \cup Held(k)
       \/ May("set") /\ retired' = retired \cup {t} /\ UNCHANGED current

\* DEL, or the TTL of the key.
Drop(k) ==
    /\ current' = [current EXCEPT ![k] = None]
    /\ retired' = retired \cup Held(k)

\* handleLogin, handleVerifyGoogleIDToken: the end of both.
Login(k, t) ==
    /\ Issue(k, t)
    /\ UNCHANGED <<redeemed, local>>

\* auth.VerifyRefreshToken accepts the token.
RotateStart(p, k, t) ==
    /\ pc[p] = "idle"
    /\ t \in Issued \cap valid
    /\ k = home[t] \/ Roaming
    /\ pc'  = [pc EXCEPT ![p] = "read"]
    /\ tok' = [tok EXCEPT ![p] = t]
    /\ key' = [key EXCEPT ![p] = k]
    /\ UNCHANGED <<current, tokens>>

\* storedJTI, read as "" when GET fails.
RotateReadNoMatch(p) ==
    /\ pc[p] = "read"
    /\ current[key[p]] # None
    /\ pc' = [pc EXCEPT ![p] = "store"]
    /\ UNCHANGED <<current, tokens, tok, key>>

RotateRead(p) ==
    /\ pc[p] = "read"
    /\ \/ /\ current[key[p]] = None \/ May("get")
          /\ Return(p)
       \/ /\ current[key[p]] # None
          /\ pc' = [pc EXCEPT ![p] = IF current[key[p]] = tok[p] THEN "store" ELSE "revoke"]
          /\ UNCHANGED <<tok, key>>
    /\ UNCHANGED <<current, tokens>>

RotateRevoke(p) ==
    /\ pc[p] = "revoke"
    /\ \/ Drop(key[p])
       \/ May("del") /\ UNCHANGED <<current, retired>>
    /\ Return(p)
    /\ UNCHANGED <<home, valid, redeemed>>

RotateStoreForgets(p, t) ==
    /\ pc[p] = "store" /\ t \in Tokens \ Issued
    /\ home' = [home EXCEPT ![t] = key[p]]
    /\ valid' = valid \cup {t}
    /\ Return(p)
    /\ UNCHANGED <<current, retired, redeemed>>

RotateStore(p, t) ==
    /\ pc[p] = "store"
    /\ Issue(key[p], t)
    /\ redeemed' = [redeemed EXCEPT ![tok[p]] = @ + IF t \in retired' THEN 0 ELSE 1]
    /\ Return(p)

\* The JWT expires, no later than the key that was set after it was signed.
TokenExpire(t) ==
    /\ t \in valid
    /\ valid' = valid \ {t}
    /\ UNCHANGED <<current, home, retired, redeemed, local>>

KeyExpire(k) ==
    /\ current[k] # None /\ current[k] \notin valid
    /\ Drop(k)
    /\ UNCHANGED <<home, valid, redeemed, local>>

\* A server without requests rests; nothing goes on past the bound on tokens.
Rest == ((\A p \in Procs : pc[p] = "idle") \/ Tokens = Issued) /\ UNCHANGED vars

Next ==
    \/ \E k \in Devices, t \in Tokens : Login(k, t)
    \/ \E p \in Procs, k \in Devices, t \in Tokens : RotateStart(p, k, t)
    \/ \E p \in Procs : RotateRead(p) \/ RotateRevoke(p)
    \/ \E p \in Procs, t \in Tokens : RotateStore(p, t)
    \/ \E t \in Tokens : TokenExpire(t)
    \/ \E k \in Devices : KeyExpire(k)
    \/ Rest

Spec == Init /\ [][Next]_vars

-----------------------------------------------------------------------------
(* Properties *)

\* Every variable holds a value of its type; what Redis holds was issued to
\* that device, and a rotation about to store presents a token of its device.
TypeOK ==
    /\ current \in [Devices -> Tokens \cup {None}]
    /\ home \in [Tokens -> Devices \cup {None}]
    /\ valid \subseteq Issued /\ retired \subseteq Issued
    /\ redeemed \in [Tokens -> Nat]
    /\ pc \in [Procs -> {"idle", "read", "store", "revoke"}]
    /\ tok \in [Procs -> Tokens \cup {None}] /\ key \in [Procs -> Devices \cup {None}]
    /\ \A k \in Devices : current[k] # None => home[current[k]] = k
    /\ \A p \in Procs : pc[p] # "idle" => tok[p] \in Issued /\ key[p] \in Devices
    /\ \A p \in Procs : pc[p] = "store" => home[tok[p]] = key[p]

\* A stored token that was not replaced, revoked or left to expire is the one
\* Redis knows: its holder is turned away only when the GET fails
\* (handler.go:241-249).  A token whose SET failed was never stored.
FreshTokensWork ==
    \A t \in valid : t \notin retired => current[home[t]] = t

\* A session is revoked over a token that is no longer current (also one never
\* used but superseded by a login), one that was never stored, or one that
\* belongs to another device (handler.go:245-249).
OnlyStaleRevokes ==
    \A p \in Procs : pc[p] = "revoke" => tok[p] \in retired \/ home[tok[p]] # key[p]

\* A token is replaced at most once per rotation that can be in flight: it is
\* not accepted again once a successor is stored (handler.go:241-258).
RedeemedBounded == \A t \in Tokens : redeemed[t] <= Cardinality(Procs)

\* A token that was replaced, revoked or left to expire never becomes current
\* again, also not by a rotation that read it before (handler.go:241-258).
SpentStaySpent == \A k \in Devices : current[k] \notin retired

Granted == {[client |-> p, device |-> key[p], token |-> tok[p]] :
               p \in {q \in Procs : pc[q] = "store"}}

Register == INSTANCE SessionRegister
    WITH Clients <- Procs, spent <- retired, granted <- Granted

\* Rotations that read and store in two calls, among logins, revocations and
\* calls that fail, are still those of a register: one token per device, and
\* successors only of tokens that were current when they were read.
ImplementsRegister == Register!Spec

\* "rejects a reused token" (user-service/README.md:31).
ReusedIsRejected == \A t \in Tokens : redeemed[t] <= 1
=============================================================================
