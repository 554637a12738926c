------------------------ MODULE RefreshSessionProofs ------------------------
(* Theorems about RefreshSession, for any number of rotations and devices. *)
EXTENDS RefreshSession, FiniteSetTheorems, TLAPS

\* A token that was stored and is not retired is the one Redis holds, whether
\* or not its JWT has expired.
FreshInv == \A t \in Issued : t \notin retired => current[home[t]] = t

\* Rotations that read the token as current and have not stored a successor.
Pending(t) == {p \in Procs : pc[p] = "store" /\ tok[p] = t}

\* What was stored in place of a token and what is about to be; a token that is
\* current, or not issued yet, has not been replaced.
BoundInv ==
    /\ \A t \in Tokens : redeemed[t] + Cardinality(Pending(t)) <= Cardinality(Procs)
    /\ \A k \in Devices : current[k] # None => redeemed[current[k]] = 0
    /\ \A t \in Tokens \ Issued : redeemed[t] = 0

-----------------------------------------------------------------------------
(* Types *)

\* The initial state is well typed.
LEMMA TypeInit == Init => TypeOK
BY SessionConstants DEF Init, TypeOK, Issued

\* Issuing a token keeps what Redis holds well typed.
LEMMA IssueTypes ==
    ASSUME TypeOK, NEW k \in Devices, NEW t \in Tokens, Issue(k, t)
    PROVE  /\ home[t] = None
           /\ home' = [home EXCEPT ![t] = k]
           /\ home' \in [Tokens -> Devices \cup {None}]
           /\ Issued' = Issued \cup {t}
           /\ valid' \subseteq Issued' /\ retired' \subseteq Issued'
           /\ current' \in [Devices -> Tokens \cup {None}]
           /\ \A d \in Devices : current'[d] # None => home'[current'[d]] = d
BY SessionConstants DEF Issue, Issued, Held, TypeOK, May

\* Dropping a key keeps what Redis holds well typed.
LEMMA DropTypes ==
    ASSUME TypeOK, NEW k \in Devices, Drop(k)
    PROVE  /\ retired' \subseteq Issued
           /\ current' \in [Devices -> Tokens \cup {None}]
           /\ \A d \in Devices : current'[d] # None => home[current'[d]] = d
BY SessionConstants DEF Drop, Issued, Held, TypeOK

\* Every step keeps the types.
LEMMA TypeStep == TypeOK /\ [Next]_vars => TypeOK'
<1> SUFFICES ASSUME TypeOK, [Next]_vars PROVE TypeOK'
  OBVIOUS
<1> USE SessionConstants
<1>1. ASSUME NEW k \in Devices, NEW t \in Tokens, Login(k, t) PROVE TypeOK'
  BY <1>1, IssueTypes DEF Login, local, TypeOK, Issued
<1>2. ASSUME NEW p \in Procs, NEW k \in Devices, NEW t \in Tokens, RotateStart(p, k, t)
      PROVE  TypeOK'
  BY <1>2 DEF RotateStart, tokens, TypeOK, Issued
<1>3. ASSUME NEW p \in Procs, RotateRead(p) PROVE TypeOK'
  BY <1>3 DEF RotateRead, Return, tokens, TypeOK, Issued
<1>4. ASSUME NEW p \in Procs, RotateRevoke(p) PROVE TypeOK'
  <2>1. key[p] \in Devices
    BY <1>4 DEF RotateRevoke, TypeOK
  <2>2. /\ retired' \subseteq Issued
        /\ current' \in [Devices -> Tokens \cup {None}]
        /\ \A d \in Devices : current'[d] # None => home[current'[d]] = d
    BY <1>4, <2>1, DropTypes DEF RotateRevoke, TypeOK
  <2> QED
    BY <1>4, <2>2 DEF RotateRevoke, Return, TypeOK, Issued
<1>5. ASSUME NEW p \in Procs, NEW t \in Tokens, RotateStore(p, t) PROVE TypeOK'
  <2>1. key[p] \in Devices /\ tok[p] \in Issued
    BY <1>5 DEF RotateStore, TypeOK
  <2>2. /\ home[t] = None /\ home' = [home EXCEPT ![t] = key[p]]
        /\ home' \in [Tokens -> Devices \cup {None}]
        /\ Issued' = Issued \cup {t}
        /\ valid' \subseteq Issued' /\ retired' \subseteq Issued'
        /\ current' \in [Devices -> Tokens \cup {None}]
        /\ \A d \in Devices : current'[d] # None => home'[current'[d]] = d
    BY <1>5, <2>1, IssueTypes DEF RotateStore
  <2> QED
    BY <1>5, <2>1, <2>2 DEF RotateStore, Return, TypeOK, Issued
<1>6. ASSUME NEW t \in Tokens, TokenExpire(t) PROVE TypeOK'
  BY <1>6 DEF TokenExpire, local, TypeOK, Issued
<1>7. ASSUME NEW k \in Devices, KeyExpire(k) PROVE TypeOK'
  BY <1>7, DropTypes DEF KeyExpire, local, TypeOK, Issued
<1>8. CASE UNCHANGED vars
  BY <1>8 DEF vars, tokens, local, TypeOK, Issued
<1> QED
  BY <1>1, <1>2, <1>3, <1>4, <1>5, <1>6, <1>7, <1>8 DEF Next, Rest

\* The state stays well typed, and Redis holds under a device's key only
\* tokens issued to it.
THEOREM TypeCorrect == Spec => []TypeOK
BY TypeInit, TypeStep, PTL DEF Spec
-----------------------------------------------------------------------------
(* Fresh tokens work, and only stale ones revoke *)

\* No step makes Redis forget a token without retiring it.
LEMMA FreshStep == TypeOK /\ FreshInv /\ [Next]_vars => FreshInv'
<1> SUFFICES ASSUME TypeOK, FreshInv, [Next]_vars PROVE FreshInv'
  OBVIOUS
<1> USE SessionConstants
<1>1. ASSUME NEW k \in Devices, NEW t \in Tokens, Issue(k, t) PROVE FreshInv'
  <2>1. Issued' = Issued \cup {t} /\ home' = [home EXCEPT ![t] = k] /\ t \notin Issued
    BY <1>1, IssueTypes DEF Issue
  <2> SUFFICES ASSUME NEW u \in Issued', u \notin retired' PROVE current'[home'[u]] = u
    BY DEF FreshInv
  <2>2. CASE u = t
    BY <1>1, <2>1, <2>2 DEF Issue, TypeOK
  <2>3. CASE u # t
    BY <1>1, <2>1, <2>3 DEF Issue, Issued, Held, FreshInv, TypeOK
  <2> QED
    BY <2>2, <2>3
<1>2. ASSUME NEW k \in Devices, Drop(k), UNCHANGED home PROVE FreshInv'
  BY <1>2 DEF Drop, Held, Issued, FreshInv, TypeOK
<1>3. ASSUME UNCHANGED <<current, home, retired>> PROVE FreshInv'
  BY <1>3 DEF Issued, FreshInv
<1>4. ASSUME NEW p \in Procs, RotateRead(p) PROVE FreshInv'
  BY <1>3, <1>4 DEF RotateRead, tokens
<1>5. ASSUME NEW p \in Procs, RotateRevoke(p) PROVE FreshInv'
  <2>1. key[p] \in Devices
    BY <1>5 DEF RotateRevoke, TypeOK
  <2> QED
    BY <1>2, <1>3, <1>5, <2>1 DEF RotateRevoke
<1>6. ASSUME NEW p \in Procs, NEW t \in Tokens, RotateStore(p, t) PROVE FreshInv'
  <2>1. key[p] \in Devices
    BY <1>6 DEF RotateStore, TypeOK
  <2> QED
    BY <1>1, <1>6, <2>1 DEF RotateStore
<1>7. ASSUME NEW p \in Procs, NEW k \in Devices, NEW t \in Tokens, RotateStart(p, k, t)
      PROVE  FreshInv'
  BY <1>3, <1>7 DEF RotateStart, tokens
<1> QED
  BY <1>1, <1>2, <1>3, <1>4, <1>5, <1>6, <1>7
  DEF Next, Login, TokenExpire, KeyExpire, Rest, vars, tokens

\* A holder of a token that Redis stored is turned away only after the token
\* was replaced, revoked or left to expire, whatever the other requests do.
THEOREM FreshTokensAccepted == Spec => []FreshTokensWork
<1>1. Init => FreshInv
  BY DEF Init, FreshInv, Issued
<1>2. TypeOK /\ FreshInv => FreshTokensWork
  BY DEF TypeOK, FreshInv, FreshTokensWork
<1> QED
  BY <1>1, <1>2, TypeCorrect, FreshStep, PTL DEF Spec

\* No rotation gets to the point of revoking over a token that Redis holds.
LEMMA RevokeStep ==
    TypeOK /\ FreshInv /\ OnlyStaleRevokes /\ [Next]_vars => OnlyStaleRevokes'
<1> SUFFICES ASSUME TypeOK, FreshInv, OnlyStaleRevokes, [Next]_vars,
                    NEW p \in Procs, pc'[p] = "revoke"
             PROVE  tok'[p] \in retired' \/ home'[tok'[p]] # key'[p]
  BY DEF OnlyStaleRevokes
<1> USE SessionConstants
<1>1. ASSUME pc[p] = "revoke", tok'[p] = tok[p], key'[p] = key[p],
             retired \subseteq retired', \A t \in Issued : home'[t] = home[t]
      PROVE  tok'[p] \in retired' \/ home'[tok'[p]] # key'[p]
  BY <1>1 DEF OnlyStaleRevokes, TypeOK
<1>2. ASSUME NEW k \in Devices, NEW t \in Tokens, Issue(k, t)
      PROVE  retired \subseteq retired' /\ \A u \in Issued : home'[u] = home[u]
  BY <1>2 DEF Issue, Issued, TypeOK
<1>3. ASSUME NEW k \in Devices, NEW t \in Tokens, Login(k, t)
      PROVE  tok'[p] \in retired' \/ home'[tok'[p]] # key'[p]
  BY <1>1, <1>2, <1>3 DEF Login, local
<1>4. ASSUME NEW q \in Procs, NEW k \in Devices, NEW t \in Tokens, RotateStart(q, k, t)
      PROVE  tok'[p] \in retired' \/ home'[tok'[p]] # key'[p]
  BY <1>1, <1>4 DEF RotateStart, tokens, TypeOK
<1>5. ASSUME NEW q \in Procs, RotateRead(q)
      PROVE  tok'[p] \in retired' \/ home'[tok'[p]] # key'[p]
  <2>1. CASE q = p
    BY <1>5, <2>1 DEF RotateRead, Return, tokens, FreshInv, TypeOK
  <2>2. CASE q # p
    BY <1>1, <1>5, <2>2 DEF RotateRead, Return, tokens, TypeOK
  <2> QED
    BY <2>1, <2>2
<1>6. ASSUME NEW q \in Procs, RotateRevoke(q)
      PROVE  tok'[p] \in retired' \/ home'[tok'[p]] # key'[p]
  BY <1>1, <1>6 DEF RotateRevoke, Return, Drop, TypeOK
<1>7. ASSUME NEW q \in Procs, NEW t \in Tokens, RotateStore(q, t)
      PROVE  tok'[p] \in retired' \/ home'[tok'[p]] # key'[p]
  <2>1. key[q] \in Devices
    BY <1>7 DEF RotateStore, TypeOK
  <2> QED
    BY <1>1, <1>2, <1>7, <2>1 DEF RotateStore, Return, TypeOK
<1>8. ASSUME NEW k \in Devices, KeyExpire(k)
      PROVE  tok'[p] \in retired' \/ home'[tok'[p]] # key'[p]
  BY <1>1, <1>8 DEF KeyExpire, Drop, local
<1>9. CASE UNCHANGED <<local, home, retired>>
  BY <1>1, <1>9 DEF local
<1> QED
  BY <1>3, <1>4, <1>5, <1>6, <1>7, <1>8, <1>9
  DEF Next, TokenExpire, Rest, vars, tokens

\* A session ends over a stale token or one of another device, never over the
\* token Redis holds for it, in any interleaving of rotations.
THEOREM RevocationsAreDue == Spec => []OnlyStaleRevokes
<1>1. Init => FreshInv /\ OnlyStaleRevokes
  BY DEF Init, FreshInv, Issued, OnlyStaleRevokes
<1> QED
  BY <1>1, TypeCorrect, FreshStep, RevokeStep, PTL DEF Spec

-----------------------------------------------------------------------------
(* How often a token is accepted *)

\* The rotations about to store are finitely many.
LEMMA PendingFinite ==
    \A t : /\ IsFiniteSet(Pending(t)) /\ Cardinality(Pending(t)) \in Nat
           /\ Cardinality(Pending(t)) <= Cardinality(Procs)
           /\ Cardinality(Procs) \in Nat
BY SessionConstants, FS_Subset, FS_CardinalityType DEF Pending

\* No step replaces a token more often than rotations had read it.
LEMMA BoundStep == TypeOK /\ BoundInv /\ [Next]_vars => BoundInv'
<1> SUFFICES ASSUME TypeOK, BoundInv, [Next]_vars PROVE BoundInv'
  OBVIOUS
<1> USE SessionConstants
<1>1. ASSUME NEW k \in Devices, NEW t \in Tokens, Login(k, t) PROVE BoundInv'
  <2>1. \A u : Pending(u)' = Pending(u)
    BY <1>1 DEF Login, local, Pending
  <2>2. /\ Issued' = Issued \cup {t} /\ t \notin Issued /\ redeemed' = redeemed
        /\ current' = current \/ current' = [current EXCEPT ![k] = t]
    BY <1>1, IssueTypes DEF Login, Issue
  <2> QED
    BY <2>1, <2>2 DEF BoundInv, TypeOK
<1>2. ASSUME NEW p \in Procs, NEW k \in Devices, NEW t \in Tokens, RotateStart(p, k, t)
      PROVE  BoundInv'
  <2>1. \A u : Pending(u)' = Pending(u)
    BY <1>2 DEF RotateStart, Pending, TypeOK
  <2> QED
    BY <1>2, <2>1 DEF RotateStart, tokens, Issued, BoundInv
<1>3. ASSUME NEW p \in Procs, RotateRead(p) PROVE BoundInv'
  <2>1. \A u : u # current[key[p]] => Pending(u)' \subseteq Pending(u)
    BY <1>3 DEF RotateRead, Return, Pending, TypeOK
  <2>2. \A u : IsFiniteSet(Pending(u)') /\ Cardinality(Pending(u)') \in Nat
               /\ Cardinality(Pending(u)') <= Cardinality(Procs)
    BY FS_Subset, FS_CardinalityType DEF Pending
  <2>3. ASSUME NEW u \in Tokens
        PROVE  redeemed[u] + Cardinality(Pending(u)') <= Cardinality(Procs)
    <3>1. CASE u = current[key[p]]
      <4>1. key[p] \in Devices /\ redeemed[u] = 0
        BY <1>3, <3>1 DEF RotateRead, BoundInv, TypeOK
      <4> QED
        BY <4>1, <2>2, PendingFinite
    <3>2. CASE u # current[key[p]]
      <4>1. Cardinality(Pending(u)') <= Cardinality(Pending(u))
        BY <2>1, <3>2, FS_Subset, PendingFinite
      <4> QED
        BY <4>1, <2>2, PendingFinite DEF BoundInv, TypeOK
    <3> QED
      BY <3>1, <3>2
  <2> QED
    BY <1>3, <2>3 DEF RotateRead, tokens, Issued, BoundInv
<1>4. ASSUME NEW p \in Procs, RotateRevoke(p) PROVE BoundInv'
  <2>1. \A u : Pending(u)' = Pending(u)
    BY <1>4 DEF RotateRevoke, Return, Pending, TypeOK
  <2> QED
    BY <1>4, <2>1 DEF RotateRevoke, Drop, Issued, BoundInv, TypeOK
<1>5. ASSUME NEW p \in Procs, NEW t \in Tokens, RotateStore(p, t) PROVE BoundInv'
  <2>1. PICK r \in Issued : r = tok[p] /\ key[p] \in Devices /\ home[r] = key[p]
    BY <1>5 DEF RotateStore, TypeOK
  <2>2. Issued' = Issued \cup {t} /\ t \notin Issued
    BY <1>5, <2>1, IssueTypes DEF RotateStore, Issue
  <2>3. Pending(r)' = Pending(r) \ {p} /\ p \in Pending(r)
    BY <1>5, <2>1 DEF RotateStore, Return, Pending, TypeOK
  <2>4. \A u : u # r => Pending(u)' = Pending(u)
    BY <1>5, <2>1 DEF RotateStore, Return, Pending, TypeOK
  <2>5. Cardinality(Pending(r)') = Cardinality(Pending(r)) - 1
    BY <2>3, PendingFinite, FS_RemoveElement
  <2>6. \A u \in Tokens : IF u = r /\ t \notin retired' THEN redeemed'[u] = redeemed[u] + 1
                          ELSE redeemed'[u] = redeemed[u]
    BY <1>5, <2>1 DEF RotateStore, TypeOK
  <2>7. ASSUME NEW u \in Tokens
        PROVE  redeemed'[u] + Cardinality(Pending(u)') <= Cardinality(Procs)
    <3>1. redeemed[u] \in Nat /\ redeemed[u] + Cardinality(Pending(u)) <= Cardinality(Procs)
      BY DEF BoundInv, TypeOK
    <3> QED
      BY <2>4, <2>5, <2>6, <3>1, PendingFinite
  <2>8. \A d \in Devices : current'[d] # None => redeemed'[current'[d]] = 0
    <3> SUFFICES ASSUME NEW d \in Devices, current'[d] # None
                 PROVE  redeemed'[current'[d]] = 0
      OBVIOUS
    <3>1. \/ current' = [current EXCEPT ![key[p]] = t]
          \/ current' = current /\ t \in retired'
      BY <1>5 DEF RotateStore, Issue
    <3> CASE current' = current /\ t \in retired'
      BY <2>6 DEF BoundInv, TypeOK
    <3>2. CASE d = key[p]
      BY <2>1, <2>2, <2>6, <3>1, <3>2 DEF BoundInv, TypeOK
    <3>3. CASE d # key[p]
      BY <2>1, <2>6, <3>1, <3>3 DEF BoundInv, TypeOK
    <3> QED
      BY <3>2, <3>3
  <2> QED
    BY <2>1, <2>2, <2>6, <2>7, <2>8 DEF BoundInv, Issued
<1>6. ASSUME NEW k \in Devices, KeyExpire(k) PROVE BoundInv'
  <2>1. \A u : Pending(u)' = Pending(u)
    BY <1>6 DEF KeyExpire, local, Pending
  <2> QED
    BY <1>6, <2>1 DEF KeyExpire, Drop, Issued, BoundInv, TypeOK
<1>7. CASE UNCHANGED <<local, current, home, redeemed>>
  BY <1>7 DEF local, Pending, Issued, BoundInv
<1> QED
  BY <1>1, <1>2, <1>3, <1>4, <1>5, <1>6, <1>7 DEF Next, TokenExpire, Rest, vars, tokens

\* However many rotations present one token at once, it is replaced at most
\* once for each of them, whatever fails.
THEOREM RedemptionsAreBounded == Spec => []RedeemedBounded
<1>1. Init => BoundInv
  <2> SUFFICES ASSUME Init PROVE BoundInv
    OBVIOUS
  <2>1. \A t : Pending(t) = {}
    BY DEF Init, Pending
  <2> QED
    BY <2>1, FS_EmptySet, PendingFinite DEF Init, BoundInv
<1>2. TypeOK /\ BoundInv => RedeemedBounded
  BY PendingFinite DEF BoundInv, TypeOK, RedeemedBounded
<1> QED
  BY <1>1, <1>2, TypeCorrect, BoundStep, PTL DEF Spec
-----------------------------------------------------------------------------
(* Spent tokens, and the register of sessions *)

\* A token that is handed out was neither current nor retired before.
LEMMA IssueIsNew ==
    ASSUME TypeOK, NEW t \in Tokens \ Issued
    PROVE  Register!New(t)
<1>1. t \notin retired /\ t \in Tokens /\ t # None
  BY SessionConstants DEF TypeOK
<1>2. \A k \in Devices : current[k] # t
  BY <1>1, SessionConstants DEF TypeOK, Issued
<1> QED
  BY <1>1, <1>2 DEF Register!New

\* Handing out a token is the register's, and brings back no spent one.
LEMMA IssueMaps ==
    ASSUME TypeOK, SpentStaySpent, NEW k \in Devices, NEW t \in Tokens, Issue(k, t)
    PROVE  Register!HandOut(k, t) /\ SpentStaySpent'
<1>1. Register!New(t)
  BY IssueIsNew DEF Issue
<1>2. Register!HandOut(k, t)
  BY <1>1 DEF Issue, Held, Register!HandOut
<1> SUFFICES SpentStaySpent'
  BY <1>2
<1>3. t \in Tokens /\ t \notin retired /\ \A d \in Devices : current[d] # t
  BY <1>1 DEF Register!New
<1>4. CASE current' = [current EXCEPT ![k] = t] /\ retired' = retired \cup Held(k)
  <2> SUFFICES ASSUME NEW d \in Devices PROVE current'[d] \notin retired'
    BY DEF SpentStaySpent
  <2>1. CASE d = k
    BY <1>3, <1>4, <2>1 DEF Held, TypeOK
  <2>2. CASE d # k
    <3>1. current'[d] = current[d] /\ current[d] \notin retired
      BY <1>4, <2>2 DEF SpentStaySpent, TypeOK
    <3>2. current[d] \notin Held(k)
      BY <2>2, SessionConstants DEF Held, TypeOK
    <3> QED
      BY <1>4, <3>1, <3>2
  <2> QED
    BY <2>1, <2>2
<1>5. CASE retired' = retired \cup {t} /\ UNCHANGED current
  BY <1>3, <1>5 DEF SpentStaySpent
<1> QED
  BY <1>4, <1>5 DEF Issue

\* A key that goes takes its token with it for good.
LEMMA DropSpends ==
    ASSUME TypeOK, SpentStaySpent, NEW k \in Devices, Drop(k)
    PROVE  SpentStaySpent'
<1> SUFFICES ASSUME NEW d \in Devices PROVE current'[d] \notin retired'
  BY DEF SpentStaySpent
<1>1. CASE d = k
  BY <1>1, SessionConstants DEF Drop, Held, TypeOK, Issued, SpentStaySpent
<1>2. CASE d # k
  BY <1>2, SessionConstants DEF Drop, Held, TypeOK, SpentStaySpent
<1> QED
  BY <1>1, <1>2

\* A key that goes is the end of a session in the register, or none was there.
LEMMA DropMaps ==
    ASSUME TypeOK, NEW k \in Devices, Drop(k), Granted' = Granted
    PROVE  Register!End(k) \/ UNCHANGED Register!vars
<1>1. CASE current[k] = None
  BY <1>1 DEF Drop, Held, TypeOK, Register!vars
<1>2. CASE current[k] # None
  BY <1>2 DEF Drop, Held, Register!End
<1> QED
  BY <1>1, <1>2

\* What is granted depends on the rotations about to store alone.
LEMMA SameGrants ==
    ASSUME \A q \in Procs : (pc'[q] = "store") = (pc[q] = "store"),
           \A q \in Procs : pc[q] = "store" => key'[q] = key[q] /\ tok'[q] = tok[q]
    PROVE  Granted' = Granted
BY DEF Granted

\* No step makes a retired token current.
LEMMA SpentStep == TypeOK /\ SpentStaySpent /\ [Next]_vars => SpentStaySpent'
<1> SUFFICES ASSUME TypeOK, SpentStaySpent, [Next]_vars PROVE SpentStaySpent'
  OBVIOUS
<1>1. ASSUME UNCHANGED <<current, retired>> PROVE SpentStaySpent'
  BY <1>1 DEF SpentStaySpent
<1>2. ASSUME NEW p \in Procs, RotateRead(p) \/ RotateRevoke(p) PROVE SpentStaySpent'
  <2>1. pc[p] # "idle" => key[p] \in Devices
    BY DEF TypeOK
  <2> QED
    BY <1>1, <1>2, <2>1, DropSpends DEF RotateRead, RotateRevoke, tokens
<1>3. ASSUME NEW p \in Procs, NEW t \in Tokens, RotateStore(p, t) PROVE SpentStaySpent'
  <2>1. key[p] \in Devices
    BY <1>3 DEF RotateStore, TypeOK
  <2> QED
    BY <1>3, <2>1, IssueMaps DEF RotateStore
<1> QED
  BY <1>1, <1>2, <1>3, IssueMaps, DropSpends
  DEF Next, Login, RotateStart, TokenExpire, KeyExpire, Rest, vars, tokens

\* A token that was replaced, revoked or left to expire is never accepted
\* again once a successor, or nothing, is stored, whatever still runs.
THEOREM NoComeback == Spec => []SpentStaySpent
<1>1. Init => SpentStaySpent
  BY DEF Init, SpentStaySpent
<1> QED
  BY <1>1, TypeCorrect, SpentStep, PTL DEF Spec

\* A rotation that finds its token current is granted a successor of it.
LEMMA ReadMaps ==
    ASSUME TypeOK, NEW p \in Procs, RotateRead(p)
    PROVE  [Register!Next]_(Register!vars)
<1>1. UNCHANGED <<current, retired>> /\ pc[p] = "read" /\ key[p] \in Devices
  BY DEF RotateRead, tokens, TypeOK
<1>2. \A q \in Procs \ {p} : pc'[q] = pc[q] /\ key'[q] = key[q] /\ tok'[q] = tok[q]
  BY DEF RotateRead, Return, TypeOK
<1>3. CASE pc'[p] = "store"
  <2>1. current[key[p]] = tok[p] /\ current[key[p]] # None /\ UNCHANGED <<tok, key>>
    BY <1>3 DEF RotateRead, Return, TypeOK
  <2>2. Granted' = Granted \cup
                      {[client |-> p, device |-> key[p], token |-> current[key[p]]]}
    BY <1>1, <1>2, <1>3, <2>1 DEF Granted
  <2>3. \A g \in Granted : g.client # p
    BY <1>1 DEF Granted
  <2>4. Register!Grant(p, key[p])
    BY <1>1, <2>1, <2>2, <2>3 DEF Register!Grant
  <2> QED
    BY <1>1, <2>4 DEF Register!Next
<1>4. CASE pc'[p] # "store"
  <2>1. Granted' = Granted
    BY <1>1, <1>2, <1>4, SameGrants
  <2> QED
    BY <1>1, <2>1 DEF Register!vars
<1> QED
  BY <1>3, <1>4

\* A rotation that stores redeems its grant.
LEMMA StoreMaps ==
    ASSUME TypeOK, SpentStaySpent, NEW p \in Procs, NEW t \in Tokens, RotateStore(p, t)
    PROVE  Register!Next
<1> DEFINE g == [client |-> p, device |-> key[p], token |-> tok[p]]
<1>1. pc[p] = "store" /\ key[p] \in Devices
  BY DEF RotateStore, TypeOK
<1>2. g \in Granted
  BY <1>1 DEF Granted
<1>3. \A q \in Procs \ {p} : pc'[q] = pc[q] /\ key'[q] = key[q] /\ tok'[q] = tok[q]
  BY DEF RotateStore, Return, TypeOK
<1>4. pc'[p] = "idle"
  BY DEF RotateStore, Return, TypeOK
<1>5. Granted' = Granted \ {g}
  BY <1>3, <1>4 DEF Granted
<1>6. Register!HandOut(g.device, t)
  BY <1>1, IssueMaps DEF RotateStore
<1>7. Register!Succeed(g, t)
  BY <1>2, <1>5, <1>6 DEF Register!Succeed
<1> QED
  BY <1>2, <1>7 DEF Register!Next

\* Every other step is a login, the end of a session, or is not seen.
LEMMA OtherMaps ==
    ASSUME TypeOK, SpentStaySpent, [Next]_vars,
           ~\E p \in Procs : RotateRead(p) \/ \E t \in Tokens : RotateStore(p, t)
    PROVE  [Register!Next]_(Register!vars)
<1>1. ASSUME UNCHANGED <<current, retired>>, Granted' = Granted
      PROVE  UNCHANGED Register!vars
  BY <1>1 DEF Register!vars
<1>2. ASSUME UNCHANGED local PROVE Granted' = Granted
  BY <1>2, SameGrants DEF local
<1>3. ASSUME NEW k \in Devices, NEW t \in Tokens, Login(k, t) PROVE Register!Next
  <2>1. Register!HandOut(k, t) /\ Granted' = Granted
    BY <1>2, <1>3, IssueMaps DEF Login
  <2>2. Register!Login(k, t)
    BY <2>1 DEF Register!Login
  <2> QED
    BY <2>2 DEF Register!Next
<1>4. ASSUME NEW p \in Procs, NEW k \in Devices, NEW t \in Tokens, RotateStart(p, k, t)
      PROVE  UNCHANGED Register!vars
  <2>1. Granted' = Granted
    BY <1>4, SameGrants DEF RotateStart, TypeOK
  <2> QED
    BY <1>1, <1>4, <2>1 DEF RotateStart, tokens
<1>5. ASSUME NEW p \in Procs, RotateRevoke(p) PROVE [Register!Next]_(Register!vars)
  <2>1. Granted' = Granted
    BY <1>5, SameGrants DEF RotateRevoke, Return, TypeOK
  <2>2. key[p] \in Devices
    BY <1>5 DEF RotateRevoke, TypeOK
  <2> QED
    BY <1>1, <1>5, <2>1, <2>2, DropMaps DEF RotateRevoke, Register!Next
<1>6. ASSUME NEW k \in Devices, KeyExpire(k) PROVE [Register!Next]_(Register!vars)
  BY <1>2, <1>6, DropMaps DEF KeyExpire, Register!Next
<1>7. CASE UNCHANGED <<current, retired, local>>
  BY <1>1, <1>2, <1>7
<1> QED
  BY <1>3, <1>4, <1>5, <1>6, <1>7 DEF Next, TokenExpire, Rest, vars, tokens

\* Rotations whose GET and SET lie apart, beside logins, expiry and failing
\* calls, hand out sessions as the register does: one token per device, a
\* successor only of a token that was current when it was read, none back.
THEOREM Refinement == Spec => ImplementsRegister
<1>1. Init => Register!Init /\ SpentStaySpent
  BY DEF Init, Granted, SpentStaySpent, Register!Init
<1>2. TypeOK /\ SpentStaySpent /\ [Next]_vars => [Register!Next]_(Register!vars)
  BY ReadMaps, StoreMaps, OtherMaps
<1> QED
  BY <1>1, <1>2, TypeCorrect, NoComeback, PTL DEF Spec, ImplementsRegister, Register!Spec
=============================================================================
