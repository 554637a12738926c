-------------------------- MODULE OtpSignupProofs --------------------------
(***************************************************************************)
(* Proofs about OtpSignup, for every finite set of handlers and session    *)
(* ids, any emails and any limits.  Each result names the failures that    *)
(* would break it as a hypothesis on Faults.                               *)
(***************************************************************************)
EXTENDS OtpSignup, FiniteSetTheorems, TLAPS

\* Every step of a handler or of its environment, for case splits.
LEMMA Steps ==
    ASSUME [Next]_vars
    PROVE  \/ \E p \in Procs, e \in Emails : SendLookup(p, e)
           \/ \E p \in Procs, s \in Sessions : VerifyLoad(p, s)
           \/ \E p \in Procs : Handler(p)
           \/ \E s \in Sessions : SessionExpire(s) \/ Deliver(s)
           \/ \E e \in Emails : RateExpire(e) \/ AttemptsExpire(e) \/ GoogleSignUp(e)
           \/ Crash
           \/ UNCHANGED vars
  BY DEF Next, Environment, Rest

-----------------------------------------------------------------------------
(* Types *)

\* The initial state is well typed.
LEMMA TypeInit == Init => TypeOK
  BY DEF Init, TypeOK, Fates, Replies, Unused

\* Every step of a handler, of Redis or of the broker keeps the types.
LEMMA TypeStep == TypeOK /\ [Next]_vars => TypeOK'
  <1> SUFFICES ASSUME TypeOK, [Next]_vars
               PROVE  TypeOK'
    OBVIOUS
  <1> USE SignupConstants
      DEF TypeOK, SendPC, VerifyPC, Fates, Replies, Goto, Return, At, Unused
  <1>1. ASSUME NEW p \in Procs, NEW e \in Emails, SendLookup(p, e)
        PROVE  TypeOK'
    BY <1>1 DEF SendLookup, sessions, rates, tries, effects
  <1>2. ASSUME NEW p \in Procs, SendRate(p)
        PROVE  TypeOK'
    BY <1>2 DEF SendRate, sessions, rates, tries, effects
  <1>3. ASSUME NEW p \in Procs, SendStore(p)
        PROVE  TypeOK'
    BY <1>3 DEF SendStore, rates, tries, effects
  <1>4. ASSUME NEW p \in Procs, SendIncr(p)
        PROVE  TypeOK'
    BY <1>4 DEF SendIncr, sessions, tries, effects
  <1>5. ASSUME NEW p \in Procs, SendExpire(p)
        PROVE  TypeOK'
    BY <1>5 DEF SendExpire, sessions, tries, effects
  <1>6. ASSUME NEW p \in Procs, SendPublish(p) \/ SendReport(p)
        PROVE  TypeOK'
    BY <1>6 DEF SendPublish, SendReport, sessions, rates, tries
  <1>7. ASSUME NEW p \in Procs, SendRemove(p)
        PROVE  TypeOK'
    BY <1>7 DEF SendRemove, Gone, rates, tries, effects
  <1>8. ASSUME NEW p \in Procs, NEW s \in Sessions, VerifyLoad(p, s)
        PROVE  TypeOK'
    BY <1>8 DEF VerifyLoad, sessions, rates, tries, effects
  <1>9. ASSUME NEW p \in Procs, VerifyCheck(p)
        PROVE  TypeOK'
    BY <1>9 DEF VerifyCheck, sessions, rates, tries, effects
  <1>10. ASSUME NEW p \in Procs, VerifyConsume(p)
         PROVE  TypeOK'
    BY <1>10 DEF VerifyConsume, Gone, rates, tries, effects
  <1>11. ASSUME NEW p \in Procs, VerifyCreate(p)
         PROVE  TypeOK'
    BY <1>11 DEF VerifyCreate, sessions, rates, tries
  <1>12. ASSUME NEW p \in Procs, VerifyWelcome(p)
         PROVE  TypeOK'
    BY <1>12 DEF VerifyWelcome, sessions, rates, tries
  <1>13. ASSUME NEW p \in Procs, VerifyMiss(p) \/ VerifyMissExpire(p)
         PROVE  TypeOK'
    BY <1>13 DEF VerifyMiss, VerifyMissExpire, sessions, rates, tries, effects
  <1>14. ASSUME NEW s \in Sessions, SessionExpire(s) \/ Deliver(s)
         PROVE  TypeOK'
    BY <1>14 DEF SessionExpire, Deliver, local, sessions, rates, tries, effects
  <1>15. ASSUME NEW e \in Emails, RateExpire(e) \/ AttemptsExpire(e) \/ GoogleSignUp(e)
         PROVE  TypeOK'
    BY <1>15 DEF RateExpire, AttemptsExpire, GoogleSignUp, local, sessions, rates, tries, effects
  <1>16. CASE Crash
    BY <1>16 DEF Crash, sessions, rates, tries, effects
  <1>17. CASE UNCHANGED vars
    BY <1>17 DEF vars, local, sessions, rates, tries, effects
  <1>18. QED
    BY <1>1, <1>2, <1>3, <1>4, <1>5, <1>6, <1>7, <1>8, <1>9, <1>10, <1>11, <1>12, <1>13,
       <1>14, <1>15, <1>16, <1>17, Steps DEF Handler

\* Every variable keeps its type, and the session a handler works on is one
\* that was stored for its email, whatever fails.
THEOREM TypeCorrect == Spec => []TypeOK
  BY TypeInit, TypeStep, PTL DEF Spec

-----------------------------------------------------------------------------
(* The counters are bounded *)

\* Handlers that passed the rate check for e and have not counted yet, and
\* those that found a code of e wrong and have not counted that.
Sending(e) == {p \in Procs : email[p] = e /\ pc[p] \in {"sendStore", "sendIncr"}}
Missing(e) == {p \in Procs : email[p] = e /\ pc[p] = "verifyMiss"}

\* What the check leaves is shared out among the handlers past it.
RateInv ==
    \A e \in Emails :
        rate[e] + Cardinality(Sending(e)) <= OtpRateMaxPerHour - 1 + Cardinality(Procs)
AttemptsInv ==
    \A e \in Emails :
        attempts[e] + Cardinality(Missing(e)) <= OtpMaxVerifyAttempts - 1 + Cardinality(Procs)

\* Sets of handlers are finite and no larger than Procs.
LEMMA Few ==
    ASSUME NEW S \in SUBSET Procs
    PROVE  /\ IsFiniteSet(S) /\ Cardinality(S) \in Nat
           /\ Cardinality(Procs) \in Nat \ {0}
           /\ Cardinality(S) <= Cardinality(Procs)
           /\ \A p \in S : Cardinality(S \ {p}) = Cardinality(S) - 1
           /\ \A p \in Procs \ S : Cardinality(S \cup {p}) = Cardinality(S) + 1
           /\ S = {} => Cardinality(S) = 0
  <1>1. IsFiniteSet(S) /\ Cardinality(S) <= Cardinality(Procs)
    BY SignupConstants, FS_Subset
  <1>2. Cardinality(S) \in Nat /\ Cardinality(Procs) \in Nat \ {0}
    BY <1>1, SignupConstants, FS_CardinalityType, FS_EmptySet
  <1>3. QED
    BY <1>1, <1>2, FS_RemoveElement, FS_AddElement, FS_EmptySet

\* One handler passing a check, or counting, against the sum RateInv bounds.
LEMMA SumStep ==
    ASSUME NEW n \in Nat, NEW m \in Nat, NEW k \in Nat \ {0},
           NEW S \in SUBSET Procs, NEW T \in SUBSET Procs,
           n + Cardinality(S) <= k - 1 + Cardinality(Procs),
           \/ m <= n /\ T \subseteq S
           \/ m = 0
           \/ m = n /\ n < k
           \/ \E p \in S : m <= n + 1 /\ T = S \ {p}
    PROVE  m + Cardinality(T) <= k - 1 + Cardinality(Procs)
  <1>1. CASE m <= n /\ T \subseteq S
    <2>1. Cardinality(T) <= Cardinality(S)
      BY <1>1, Few, FS_Subset
    <2>2. QED
      BY <1>1, <2>1, Few
  <1>2. CASE m = 0 \/ (m = n /\ n < k)
    BY <1>2, Few
  <1>3. CASE \E p \in S : m <= n + 1 /\ T = S \ {p}
    BY <1>3, Few
  <1>4. QED
    BY <1>1, <1>2, <1>3

\* Every step keeps the sum RateInv bounds.
LEMMA RateStep ==
    ASSUME "get" \notin Faults, "retry" \notin Faults, TypeOK, RateInv, [Next]_vars
    PROVE  RateInv'
  <1> DEFINE Shared(e) ==
               \/ rate'[e] <= rate[e] /\ Sending(e)' \subseteq Sending(e)
               \/ rate'[e] = 0
               \/ rate'[e] = rate[e] /\ rate[e] < OtpRateMaxPerHour
               \/ \E p \in Sending(e) : rate'[e] <= rate[e] + 1 /\ Sending(e)' = Sending(e) \ {p}
  <1>0. ASSUME NEW e \in Emails, Shared(e)
        PROVE  rate'[e] + Cardinality(Sending(e)') <= OtpRateMaxPerHour - 1 + Cardinality(Procs)
    <2>1. rate[e] \in Nat /\ rate'[e] \in Nat
      BY TypeStep DEF TypeOK
    <2>2. Sending(e) \in SUBSET Procs /\ Sending(e)' \in SUBSET Procs
      BY DEF Sending
    <2>3. rate[e] + Cardinality(Sending(e)) <= OtpRateMaxPerHour - 1 + Cardinality(Procs)
      BY DEF RateInv
    <2>4. QED
      BY <1>0, <2>1, <2>2, <2>3, SumStep, SignupConstants
  <1> SUFFICES ASSUME NEW e \in Emails
               PROVE  Shared(e)
    BY <1>0 DEF RateInv
  <1> USE DEF TypeOK, Sending, Goto, Return, May
  <1>1. ASSUME NEW p \in Procs, NEW d \in Emails, SendLookup(p, d)
        PROVE  rate'[e] <= rate[e] /\ Sending(e)' \subseteq Sending(e)
    BY <1>1 DEF SendLookup, rates
  <1>2. ASSUME NEW p \in Procs, SendRate(p)
        PROVE  \/ rate'[e] <= rate[e] /\ Sending(e)' \subseteq Sending(e)
               \/ rate'[e] = rate[e] /\ rate[e] < OtpRateMaxPerHour
    BY <1>2 DEF SendRate, rates
  <1>3. ASSUME NEW p \in Procs, \/ SendStore(p) \/ SendExpire(p) \/ SendPublish(p)
                                \/ SendReport(p) \/ SendRemove(p)
        PROVE  rate'[e] <= rate[e] /\ Sending(e)' \subseteq Sending(e)
    BY <1>3 DEF SendStore, SendExpire, SendPublish, SendReport, SendRemove, rates
  <1>4. ASSUME NEW p \in Procs, SendIncr(p)
        PROVE  \/ rate'[e] <= rate[e] /\ Sending(e)' \subseteq Sending(e)
               \/ \E q \in Sending(e) :
                     rate'[e] <= rate[e] + 1 /\ Sending(e)' = Sending(e) \ {q}
    BY <1>4 DEF SendIncr
  <1>5. ASSUME NEW p \in Procs, NEW s \in Sessions, VerifyLoad(p, s)
        PROVE  rate'[e] <= rate[e] /\ Sending(e)' \subseteq Sending(e)
    BY <1>5 DEF VerifyLoad, rates
  <1>6. ASSUME NEW p \in Procs, VerifyConsume(p)
        PROVE  rate'[e] <= rate[e] /\ Sending(e)' \subseteq Sending(e)
    BY <1>6 DEF VerifyConsume, rates
  <1>7. ASSUME NEW p \in Procs, \/ VerifyCheck(p) \/ VerifyCreate(p) \/ VerifyWelcome(p)
                                \/ VerifyMiss(p) \/ VerifyMissExpire(p)
        PROVE  rate'[e] <= rate[e] /\ Sending(e)' \subseteq Sending(e)
    BY <1>7 DEF VerifyCheck, VerifyCreate, VerifyWelcome, VerifyMiss, VerifyMissExpire, rates
  <1>8. ASSUME UNCHANGED local, UNCHANGED rate \/ \E d \in Emails : rate' = [rate EXCEPT ![d] = 0]
        PROVE  rate'[e] <= rate[e] /\ Sending(e)' \subseteq Sending(e)
    BY <1>8 DEF local
  <1>9. CASE Crash
    BY <1>9 DEF Crash, rates
  <1>10. QED
    BY <1>1, <1>2, <1>3, <1>4, <1>5, <1>6, <1>7, <1>8, <1>9, Steps
       DEF Handler, SessionExpire, Deliver, RateExpire, AttemptsExpire, GoogleSignUp,
           vars, rates, local

\* Every step keeps the sum AttemptsInv bounds.
LEMMA AttemptsStep ==
    ASSUME "get" \notin Faults, "retry" \notin Faults, TypeOK, AttemptsInv, [Next]_vars
    PROVE  AttemptsInv'
  <1> DEFINE Shared(e) ==
               \/ attempts'[e] <= attempts[e] /\ Missing(e)' \subseteq Missing(e)
               \/ attempts'[e] = 0
               \/ attempts'[e] = attempts[e] /\ attempts[e] < OtpMaxVerifyAttempts
               \/ \E p \in Missing(e) : attempts'[e] <= attempts[e] + 1 /\ Missing(e)' = Missing(e) \ {p}
  <1>0. ASSUME NEW e \in Emails, Shared(e)
        PROVE  attempts'[e] + Cardinality(Missing(e)') <= OtpMaxVerifyAttempts - 1 + Cardinality(Procs)
    <2>1. attempts[e] \in Nat /\ attempts'[e] \in Nat
      BY TypeStep DEF TypeOK
    <2>2. Missing(e) \in SUBSET Procs /\ Missing(e)' \in SUBSET Procs
      BY DEF Missing
    <2>3. attempts[e] + Cardinality(Missing(e)) <= OtpMaxVerifyAttempts - 1 + Cardinality(Procs)
      BY DEF AttemptsInv
    <2>4. QED
      BY <1>0, <2>1, <2>2, <2>3, SumStep, SignupConstants
  <1> SUFFICES ASSUME NEW e \in Emails
               PROVE  Shared(e)
    BY <1>0 DEF AttemptsInv
  <1> USE DEF TypeOK, Missing, Goto, Return, May
  <1>1. ASSUME NEW p \in Procs, NEW d \in Emails, SendLookup(p, d)
        PROVE  attempts'[e] <= attempts[e] /\ Missing(e)' \subseteq Missing(e)
    BY <1>1 DEF SendLookup, tries
  <1>2. ASSUME NEW p \in Procs, \/ SendRate(p) \/ SendStore(p) \/ SendIncr(p)
                                \/ SendExpire(p) \/ SendPublish(p) \/ SendReport(p)
                                \/ SendRemove(p)
        PROVE  attempts'[e] <= attempts[e] /\ Missing(e)' \subseteq Missing(e)
    BY <1>2 DEF SendRate, SendStore, SendIncr, SendExpire, SendPublish, SendReport,
       SendRemove, tries
  <1>3. ASSUME NEW p \in Procs, NEW s \in Sessions, VerifyLoad(p, s)
        PROVE  attempts'[e] <= attempts[e] /\ Missing(e)' \subseteq Missing(e)
    BY <1>3 DEF VerifyLoad, tries
  <1>4. ASSUME NEW p \in Procs, VerifyCheck(p)
        PROVE  \/ attempts'[e] <= attempts[e] /\ Missing(e)' \subseteq Missing(e)
               \/ attempts'[e] = attempts[e] /\ attempts[e] < OtpMaxVerifyAttempts
    BY <1>4 DEF VerifyCheck, tries
  <1>5. ASSUME NEW p \in Procs, VerifyConsume(p)
        PROVE  attempts'[e] <= attempts[e] /\ Missing(e)' \subseteq Missing(e)
    BY <1>5 DEF VerifyConsume, tries
  <1>6. ASSUME NEW p \in Procs, VerifyMiss(p)
        PROVE  \/ attempts'[e] <= attempts[e] /\ Missing(e)' \subseteq Missing(e)
               \/ \E q \in Missing(e) :
                     attempts'[e] <= attempts[e] + 1 /\ Missing(e)' = Missing(e) \ {q}
    BY <1>6 DEF VerifyMiss
  <1>7. ASSUME NEW p \in Procs, VerifyCreate(p) \/ VerifyWelcome(p) \/ VerifyMissExpire(p)
        PROVE  attempts'[e] <= attempts[e] /\ Missing(e)' \subseteq Missing(e)
    BY <1>7 DEF VerifyCreate, VerifyWelcome, VerifyMissExpire, tries
  <1>8. ASSUME UNCHANGED local,
               UNCHANGED attempts \/ \E d \in Emails : attempts' = [attempts EXCEPT ![d] = 0]
        PROVE  attempts'[e] <= attempts[e] /\ Missing(e)' \subseteq Missing(e)
    BY <1>8 DEF local
  <1>9. CASE Crash
    BY <1>9 DEF Crash, tries
  <1>10. QED
    BY <1>1, <1>2, <1>3, <1>4, <1>5, <1>6, <1>7, <1>8, <1>9, Steps
       DEF Handler, SessionExpire, Deliver, RateExpire, AttemptsExpire, GoogleSignUp,
           vars, tries, local

\* SendOTP lets at most as many requests too many through as there are other
\* handlers, if GETs work and INCRs are applied once.
THEOREM RateIsBounded ==
    ASSUME "get" \notin Faults, "retry" \notin Faults
    PROVE  Spec => []RateBounded
  <1>1. Init => RateInv
    <2> SUFFICES ASSUME Init, NEW e \in Emails
                 PROVE  rate[e] = 0 /\ Sending(e) = {}
      BY Few, SignupConstants DEF RateInv
    <2> QED
      BY DEF Init, Sending
  <1>2. TypeOK /\ RateInv /\ [Next]_vars => RateInv'
    BY RateStep
  <1>3. TypeOK /\ RateInv => RateBounded
    <2> SUFFICES ASSUME TypeOK, RateInv, NEW e \in Emails
                 PROVE  rate[e] <= OtpRateMaxPerHour - 1 + Cardinality(Procs)
      BY DEF RateBounded
    <2>1. Sending(e) \in SUBSET Procs /\ rate[e] \in Nat
      BY DEF Sending, TypeOK
    <2>2. QED
      BY <2>1, Few, SignupConstants DEF RateInv
  <1>4. QED
    BY TypeCorrect, <1>1, <1>2, <1>3, PTL DEF Spec

\* VerifyOTP evaluates at most as many wrong codes too many.
THEOREM AttemptsAreBounded ==
    ASSUME "get" \notin Faults, "retry" \notin Faults
    PROVE  Spec => []AttemptsBounded
  <1>1. Init => AttemptsInv
    <2> SUFFICES ASSUME Init, NEW e \in Emails
                 PROVE  attempts[e] = 0 /\ Missing(e) = {}
      BY Few, SignupConstants DEF AttemptsInv
    <2> QED
      BY DEF Init, Missing
  <1>2. TypeOK /\ AttemptsInv /\ [Next]_vars => AttemptsInv'
    BY AttemptsStep
  <1>3. TypeOK /\ AttemptsInv => AttemptsBounded
    <2> SUFFICES ASSUME TypeOK, AttemptsInv, NEW e \in Emails
                 PROVE  attempts[e] <= OtpMaxVerifyAttempts - 1 + Cardinality(Procs)
      BY DEF AttemptsBounded
    <2>1. Missing(e) \in SUBSET Procs /\ attempts[e] \in Nat
      BY DEF Missing, TypeOK
    <2>2. QED
      BY <2>1, Few, SignupConstants DEF AttemptsInv
  <1>4. QED
    BY TypeCorrect, <1>1, <1>2, <1>3, PTL DEF Spec

-----------------------------------------------------------------------------
(* The counters get their TTL *)

\* Only INCR makes an untimed counter, and its handler goes on to EXPIRE.
LEMMA ExpireStep ==
    ASSUME "expire" \notin Faults, "crash" \notin Faults, TypeOK, CountersExpire, [Next]_vars
    PROVE  CountersExpire'
  <1> USE DEF TypeOK, CountersExpire, At, Goto, Return, May
  <1>1. ASSUME NEW p \in Procs, NEW e \in Emails, SendLookup(p, e)
        PROVE  CountersExpire'
    BY <1>1 DEF SendLookup, rates, tries
  <1>2. ASSUME NEW p \in Procs, SendRate(p) \/ SendStore(p)
        PROVE  CountersExpire'
    BY <1>2 DEF SendRate, SendStore, rates, tries
  <1>3. ASSUME NEW p \in Procs, SendIncr(p)
        PROVE  CountersExpire'
    <2> SUFFICES ASSUME NEW e \in Emails
                 PROVE  /\ rate'[e] > 0 /\ e \notin rateTimed' => \E q \in At("sendExpire")' : email'[q] = e
                        /\ attempts'[e] > 0 /\ e \notin attemptsTimed' =>
                              \E q \in At("verifyMissExpire")' : email'[q] = e
      OBVIOUS
    <2>1. p \in At("sendExpire")' /\ email' = email
      BY <1>3 DEF SendIncr
    <2>2. \A q \in At("sendExpire") \cup At("verifyMissExpire") : pc'[q] = pc[q]
      BY <1>3 DEF SendIncr
    <2>3. UNCHANGED <<rateTimed, attempts, attemptsTimed>> /\ (e # email[p] => rate'[e] = rate[e])
      BY <1>3 DEF SendIncr, tries
    <2>4. QED
      BY <2>1, <2>2, <2>3
  <1>4. ASSUME NEW p \in Procs, SendExpire(p)
        PROVE  CountersExpire'
    BY <1>4 DEF SendExpire, tries
  <1>5. ASSUME NEW p \in Procs, SendPublish(p) \/ SendReport(p) \/ SendRemove(p)
        PROVE  CountersExpire'
    BY <1>5 DEF SendPublish, SendReport, SendRemove, rates, tries
  <1>6. ASSUME NEW p \in Procs, NEW s \in Sessions, VerifyLoad(p, s)
        PROVE  CountersExpire'
    BY <1>6 DEF VerifyLoad, rates, tries
  <1>7. ASSUME NEW p \in Procs, VerifyCheck(p) \/ VerifyCreate(p) \/ VerifyWelcome(p)
        PROVE  CountersExpire'
    BY <1>7 DEF VerifyCheck, VerifyCreate, VerifyWelcome, rates, tries
  <1>8. ASSUME NEW p \in Procs, VerifyConsume(p)
        PROVE  CountersExpire'
    BY <1>8 DEF VerifyConsume, rates, tries
  <1>9. ASSUME NEW p \in Procs, VerifyMiss(p)
        PROVE  CountersExpire'
    <2> SUFFICES ASSUME NEW e \in Emails
                 PROVE  /\ rate'[e] > 0 /\ e \notin rateTimed' => \E q \in At("sendExpire")' : email'[q] = e
                        /\ attempts'[e] > 0 /\ e \notin attemptsTimed' =>
                              \E q \in At("verifyMissExpire")' : email'[q] = e
      OBVIOUS
    <2>1. p \in At("verifyMissExpire")' /\ email' = email
      BY <1>9 DEF VerifyMiss
    <2>2. \A q \in At("sendExpire") \cup At("verifyMissExpire") : pc'[q] = pc[q]
      BY <1>9 DEF VerifyMiss
    <2>3. UNCHANGED <<rate, rateTimed, attemptsTimed>> /\ (e # email[p] => attempts'[e] = attempts[e])
      BY <1>9 DEF VerifyMiss, rates
    <2>4. QED
      BY <2>1, <2>2, <2>3
  <1>10. ASSUME NEW p \in Procs, VerifyMissExpire(p)
         PROVE  CountersExpire'
    BY <1>10 DEF VerifyMissExpire, rates
  <1>11. ASSUME NEW e \in Emails, RateExpire(e) \/ AttemptsExpire(e) \/ GoogleSignUp(e)
         PROVE  CountersExpire'
    BY <1>11 DEF RateExpire, AttemptsExpire, GoogleSignUp, local, rates, tries
  <1>12. ASSUME UNCHANGED <<local, rates, tries>>
         PROVE  CountersExpire'
    BY <1>12 DEF local, rates, tries
  <1>13. QED
    BY <1>1, <1>2, <1>3, <1>4, <1>5, <1>6, <1>7, <1>8, <1>9, <1>10, <1>11, <1>12, Steps
       DEF Handler, SessionExpire, Deliver, Crash, vars

\* A counter that has no TTL is about to get one, if EXPIREs work and the
\* process lives.
THEOREM CountersGetTTL ==
    ASSUME "expire" \notin Faults, "crash" \notin Faults
    PROVE  Spec => []CountersExpire
  <1>1. Init => CountersExpire
    BY DEF Init, CountersExpire
  <1>2. TypeOK /\ CountersExpire /\ [Next]_vars => CountersExpire'
    BY ExpireStep
  <1>3. QED
    BY TypeCorrect, <1>1, <1>2, PTL DEF Spec

-----------------------------------------------------------------------------
(* One account and one welcome *)

\* A handler that publishes a welcome is the one that created the account, and
\* no welcome was published for it before.
WelcomeInv ==
    /\ OneWelcome
    /\ \A p \in At("verifyWelcome") : account[email[p]] = "otp" /\ welcomes[email[p]] = 0
    /\ \A p, q \in At("verifyWelcome") : email[p] = email[q] => p = q

\* One handler creates the account of an email and it alone welcomes.
LEMMA WelcomeStep == TypeOK /\ WelcomeInv /\ [Next]_vars => WelcomeInv'
  <1> SUFFICES ASSUME TypeOK, WelcomeInv, [Next]_vars
               PROVE  WelcomeInv'
    OBVIOUS
  <1> USE DEF TypeOK, WelcomeInv, OneWelcome, At, Goto, Return
  <1>1. ASSUME NEW p \in Procs, NEW e \in Emails, SendLookup(p, e)
        PROVE  WelcomeInv'
    BY <1>1 DEF SendLookup, effects
  <1>2. ASSUME NEW p \in Procs, \/ SendRate(p) \/ SendStore(p) \/ SendIncr(p)
                                \/ SendExpire(p) \/ SendPublish(p) \/ SendReport(p)
                                \/ SendRemove(p)
        PROVE  WelcomeInv'
    BY <1>2 DEF SendRate, SendStore, SendIncr, SendExpire, SendPublish, SendReport,
       SendRemove, effects
  <1>3. ASSUME NEW p \in Procs, NEW s \in Sessions, VerifyLoad(p, s)
        PROVE  WelcomeInv'
    BY <1>3 DEF VerifyLoad, effects
  <1>4. ASSUME NEW p \in Procs, \/ VerifyCheck(p) \/ VerifyConsume(p)
                                \/ VerifyMiss(p) \/ VerifyMissExpire(p)
        PROVE  WelcomeInv'
    BY <1>4 DEF VerifyCheck, VerifyConsume, VerifyMiss, VerifyMissExpire, effects
  <1>5. ASSUME NEW p \in Procs, VerifyCreate(p)
        PROVE  WelcomeInv'
    BY <1>5 DEF VerifyCreate
  <1>6. ASSUME NEW p \in Procs, VerifyWelcome(p)
        PROVE  WelcomeInv'
    BY <1>6 DEF VerifyWelcome
  <1>7. ASSUME NEW e \in Emails, GoogleSignUp(e)
        PROVE  WelcomeInv'
    BY <1>7 DEF GoogleSignUp, local
  <1>8. ASSUME UNCHANGED <<local, account, welcomes>>
        PROVE  WelcomeInv'
    BY <1>8 DEF local
  <1>9. CASE Crash
    BY <1>9 DEF Crash, effects
  <1>10. QED
    BY <1>1, <1>2, <1>3, <1>4, <1>5, <1>6, <1>7, <1>8, <1>9, Steps
       DEF Handler, SessionExpire, Deliver, RateExpire, AttemptsExpire, vars, effects

\* Two handlers may accept one code, but the unique index lets one of them
\* create the account, and only that one publishes a welcome.
THEOREM WelcomedOnce == Spec => []OneWelcome
  <1>1. Init => WelcomeInv
    BY DEF Init, WelcomeInv, OneWelcome, At
  <1>2. WelcomeInv => OneWelcome
    BY DEF WelcomeInv
  <1>3. QED
    BY TypeCorrect, WelcomeStep, <1>1, <1>2, PTL DEF Spec

-----------------------------------------------------------------------------
(* Codes, their mails and the accounts they lead to *)

BeforePublish == {"sendIncr", "sendExpire", "sendPublish"}
Senders == {p \in Procs : pc[p] \in BeforePublish \cup {"sendReport", "sendRemove"}}

\* SET stores a session no handler works on, whether or not it is acknowledged.
Stores(p, s) ==
    /\ fate' = fate \/ fate' = [fate EXCEPT ![s] = "live"]
    /\ \A r \in Sessions \ {s} : owner'[r] = owner[r]
    /\ \/ pc' = [pc EXCEPT ![p] = "sendIncr"] /\ sid' = [sid EXCEPT ![p] = s] /\ fate'[s] = "live"
       \/ pc' = [pc EXCEPT ![p] = "idle"] /\ sid' = [sid EXCEPT ![p] = None]
    /\ \A q \in Procs : pc[q] \notin {"idle", "sendRate", "sendStore"} => sid[q] # s
    /\ UNCHANGED <<reply, event, account, welcomes>>

\* A session that was just stored is new to every other handler.
LEMMA StoreStep ==
    ASSUME TypeOK, NEW p \in Procs, SendStore(p)
    PROVE  \E s \in Unused : Stores(p, s)
  BY DEF TypeOK, SendStore, Return, Unused, effects, Stores

\* A session has one sender, and nothing is known of it before the sender is
\* done; an answer "ok" means a mail.
SenderInv ==
    /\ \A p, q \in Senders : sid[p] = sid[q] => p = q
    /\ \A p \in Senders : reply[sid[p]] = "none"
    /\ \A p \in Procs : pc[p] \in BeforePublish => event[sid[p]] = "none"
    /\ \A s \in Unused : reply[s] = "none" /\ event[s] = "none"
    /\ \A s \in Sessions : reply[s] = "ok" => event[s] = "sent"

\* Every step leaves each session to the one handler that stored it.
LEMMA SenderStep == TypeOK /\ SenderInv /\ [Next]_vars => SenderInv'
  <1> SUFFICES ASSUME TypeOK, SenderInv, [Next]_vars
               PROVE  SenderInv'
    OBVIOUS
  <1> USE DEF TypeOK, SenderInv, Senders, BeforePublish, Unused, Goto, Return
  <1>1. ASSUME NEW p \in Procs, NEW e \in Emails, SendLookup(p, e)
        PROVE  SenderInv'
    BY <1>1 DEF SendLookup, sessions, effects
  <1>2. ASSUME NEW p \in Procs, SendRate(p) \/ SendIncr(p) \/ SendExpire(p)
        PROVE  SenderInv'
    BY <1>2 DEF SendRate, SendIncr, SendExpire, sessions, effects
  <1>3. ASSUME NEW p \in Procs, SendStore(p)
        PROVE  SenderInv'
    <2>1. PICK s \in Unused : Stores(p, s)
      BY <1>3, StoreStep
    <2>2. QED
      BY <2>1 DEF Stores
  <1>4. ASSUME NEW p \in Procs, SendPublish(p) \/ SendReport(p)
        PROVE  SenderInv'
    BY <1>4, SignupConstants DEF SendPublish, SendReport, sessions
  <1>5. ASSUME NEW p \in Procs, SendRemove(p)
        PROVE  SenderInv'
    BY <1>5, SignupConstants DEF SendRemove, Gone, effects
  <1>6. ASSUME NEW p \in Procs, NEW s \in Sessions, VerifyLoad(p, s)
        PROVE  SenderInv'
    BY <1>6 DEF VerifyLoad, sessions, effects
  <1>7. ASSUME NEW p \in Procs, VerifyCheck(p) \/ VerifyMiss(p) \/ VerifyMissExpire(p)
        PROVE  SenderInv'
    BY <1>7 DEF VerifyCheck, VerifyMiss, VerifyMissExpire, sessions, effects
  <1>8. ASSUME NEW p \in Procs, VerifyConsume(p)
        PROVE  SenderInv'
    BY <1>8 DEF VerifyConsume, Gone, effects
  <1>9. ASSUME NEW p \in Procs, VerifyCreate(p) \/ VerifyWelcome(p)
        PROVE  SenderInv'
    BY <1>9 DEF VerifyCreate, VerifyWelcome, sessions
  <1>10. ASSUME NEW s \in Sessions, SessionExpire(s) \/ Deliver(s)
         PROVE  SenderInv'
    BY <1>10 DEF SessionExpire, Deliver, local, sessions, effects
  <1>11. ASSUME UNCHANGED <<local, sessions, event>>
         PROVE  SenderInv'
    BY <1>11 DEF local, sessions
  <1>12. CASE Crash
    BY <1>12 DEF Crash, sessions, effects
  <1>13. QED
    BY <1>1, <1>2, <1>3, <1>4, <1>5, <1>6, <1>7, <1>8, <1>9, <1>10, <1>11, <1>12, Steps
       DEF Handler, RateExpire, AttemptsExpire, GoogleSignUp, vars, effects

\* A session belongs to the one SendOTP that stored it until that replies, and
\* a caller is told "ok" only of a code that is on its way (utils.go:70-84).
THEOREM SendersAlone == Spec => []SenderInv
  <1>1. Init => SenderInv
    BY DEF Init, SenderInv, Senders, BeforePublish, Unused
  <1>2. QED
    BY TypeCorrect, SenderStep, <1>1, PTL DEF Spec

\* A session is withdrawn by its sender, and only after a publish that left
\* nothing behind.
MailInv ==
    /\ \A p \in Procs : pc[p] = "sendRemove" => event[sid[p]] = "none"
    /\ \A s \in Sessions : fate[s] = "withdrawn" =>
          event[s] = "none" /\ \A p \in Senders : sid[p] # s

\* A withdrawn session never had an event, and no handler publishes one.
LEMMA MailStep ==
    ASSUME "falseReport" \notin Faults, TypeOK, SenderInv, MailInv, [Next]_vars
    PROVE  MailInv'
  <1> USE DEF TypeOK, SenderInv, MailInv, Senders, BeforePublish, Unused, Goto, Return, Fates, May
  <1>1. ASSUME NEW p \in Procs, NEW e \in Emails, SendLookup(p, e)
        PROVE  MailInv'
    BY <1>1 DEF SendLookup, sessions, effects
  <1>2. ASSUME NEW p \in Procs, SendRate(p) \/ SendIncr(p) \/ SendExpire(p)
        PROVE  MailInv'
    BY <1>2 DEF SendRate, SendIncr, SendExpire, sessions, effects
  <1>3. ASSUME NEW p \in Procs, SendStore(p)
        PROVE  MailInv'
    <2>1. PICK s \in Unused : Stores(p, s)
      BY <1>3, StoreStep
    <2>2. QED
      BY <2>1 DEF Stores
  <1>4. ASSUME NEW p \in Procs, SendPublish(p) \/ SendReport(p)
        PROVE  MailInv'
    BY <1>4, SignupConstants DEF SendPublish, SendReport, sessions
  <1>5. ASSUME NEW p \in Procs, SendRemove(p)
        PROVE  MailInv'
    BY <1>5, SignupConstants DEF SendRemove, Gone, effects
  <1>6. ASSUME NEW p \in Procs, NEW s \in Sessions, VerifyLoad(p, s)
        PROVE  MailInv'
    BY <1>6 DEF VerifyLoad, sessions, effects
  <1>7. ASSUME NEW p \in Procs, VerifyCheck(p) \/ VerifyMiss(p) \/ VerifyMissExpire(p)
        PROVE  MailInv'
    BY <1>7 DEF VerifyCheck, VerifyMiss, VerifyMissExpire, sessions, effects
  <1>8. ASSUME NEW p \in Procs, VerifyConsume(p)
        PROVE  MailInv'
    BY <1>8 DEF VerifyConsume, Gone, effects
  <1>9. ASSUME NEW p \in Procs, VerifyCreate(p) \/ VerifyWelcome(p)
        PROVE  MailInv'
    BY <1>9 DEF VerifyCreate, VerifyWelcome, sessions
  <1>10. ASSUME NEW s \in Sessions, SessionExpire(s) \/ Deliver(s)
         PROVE  MailInv'
    BY <1>10 DEF SessionExpire, Deliver, local, sessions, effects
  <1>11. ASSUME UNCHANGED <<local, sessions, event>>
         PROVE  MailInv'
    BY <1>11 DEF local, sessions
  <1>12. CASE Crash
    BY <1>12 DEF Crash, sessions, effects
  <1>13. QED
    BY <1>1, <1>2, <1>3, <1>4, <1>5, <1>6, <1>7, <1>8, <1>9, <1>10, <1>11, <1>12, Steps
       DEF Handler, RateExpire, AttemptsExpire, GoogleSignUp, vars, effects

\* A code that reaches its user was not withdrawn, if failed delivery reports
\* can be believed.
THEOREM MailsHaveSessions ==
    ASSUME "falseReport" \notin Faults
    PROVE  Spec => []MailHasSession
  <1>1. Init => MailInv
    BY DEF Init, MailInv, Senders, BeforePublish
  <1>2. TypeOK /\ SenderInv /\ MailInv /\ [Next]_vars => MailInv'
    BY MailStep
  <1>3. MailInv => MailHasSession
    BY DEF MailInv, MailHasSession
  <1>4. QED
    BY TypeCorrect, SendersAlone, <1>1, <1>2, <1>3, PTL DEF Spec

\* A handler that verifies works on a session whose code was mailed.
VerifierInv ==
    /\ VerifiedWasMailed
    /\ \A p \in Procs : pc[p] \in VerifyPC => event[sid[p]] = "sent"

\* A handler verifies only codes that were sent.
LEMMA VerifierStep == TypeOK /\ SenderInv /\ VerifierInv /\ [Next]_vars => VerifierInv'
  <1> SUFFICES ASSUME TypeOK, SenderInv, VerifierInv, [Next]_vars
               PROVE  VerifierInv'
    OBVIOUS
  <1> USE DEF TypeOK, VerifierInv, VerifiedWasMailed, VerifyPC, Goto, Return
  <1>1. ASSUME NEW p \in Procs, NEW e \in Emails, SendLookup(p, e)
        PROVE  VerifierInv'
    BY <1>1 DEF SendLookup, sessions, effects
  <1>2. ASSUME NEW p \in Procs, SendRate(p) \/ SendIncr(p) \/ SendExpire(p) \/ SendRemove(p)
        PROVE  VerifierInv'
    BY <1>2 DEF SendRate, SendIncr, SendExpire, SendRemove, sessions, effects
  <1>3. ASSUME NEW p \in Procs, SendStore(p)
        PROVE  VerifierInv'
    <2>1. PICK s \in Unused : Stores(p, s)
      BY <1>3, StoreStep
    <2>2. QED
      BY <2>1 DEF Stores, SenderInv, Unused
  <1>4. ASSUME NEW p \in Procs, SendPublish(p)
        PROVE  VerifierInv'
    <2>1. event[sid[p]] = "none"
      BY <1>4 DEF SenderInv, BeforePublish, SendPublish
    <2>2. QED
      BY <1>4, <2>1, SignupConstants DEF SendPublish, sessions
  <1>5. ASSUME NEW p \in Procs, NEW s \in Sessions, VerifyLoad(p, s)
        PROVE  VerifierInv'
    BY <1>5 DEF VerifyLoad, sessions, effects, SenderInv
  <1>6. ASSUME NEW p \in Procs, \/ VerifyCheck(p) \/ VerifyConsume(p)
                                \/ VerifyMiss(p) \/ VerifyMissExpire(p)
        PROVE  VerifierInv'
    BY <1>6 DEF VerifyCheck, VerifyConsume, VerifyMiss, VerifyMissExpire, sessions, effects
  <1>7. ASSUME NEW p \in Procs, VerifyCreate(p) \/ VerifyWelcome(p)
        PROVE  VerifierInv'
    BY <1>7 DEF VerifyCreate, VerifyWelcome, sessions
  <1>8. ASSUME NEW s \in Sessions, SessionExpire(s) \/ Deliver(s)
        PROVE  VerifierInv'
    BY <1>8 DEF SessionExpire, Deliver, local, sessions, effects
  <1>9. ASSUME NEW e \in Emails, RateExpire(e) \/ AttemptsExpire(e) \/ GoogleSignUp(e)
        PROVE  VerifierInv'
    BY <1>9 DEF RateExpire, AttemptsExpire, GoogleSignUp, local, sessions, effects
  <1>10. CASE Crash
    BY <1>10 DEF Crash, sessions, effects
  <1>11. CASE UNCHANGED vars
    BY <1>11 DEF vars, local, sessions, effects
  <1>12. ASSUME NEW p \in Procs, SendReport(p)
         PROVE  VerifierInv'
    BY <1>12, SignupConstants DEF SendReport
  <1>13. QED
    BY <1>1, <1>2, <1>3, <1>4, <1>5, <1>6, <1>7, <1>8, <1>9, <1>10, <1>11, <1>12,
       Steps DEF Handler

\* Whatever fails, VerifyOTP creates accounts only for addresses that were
\* sent a code.
THEOREM VerifiedWereMailed == Spec => []VerifiedWasMailed
  <1>1. Init => VerifierInv
    BY DEF Init, VerifierInv, VerifiedWasMailed, VerifyPC
  <1>2. VerifierInv => VerifiedWasMailed
    BY DEF VerifierInv
  <1>3. QED
    BY TypeCorrect, SendersAlone, VerifierStep, <1>1, <1>2, PTL DEF Spec

\* A used-up code has its handler about to create the account, or an account.
LEMMA ConsumedStep ==
    ASSUME "db" \notin Faults, "crash" \notin Faults, TypeOK, ConsumedHasAccount, [Next]_vars
    PROVE  ConsumedHasAccount'
  <1> USE DEF TypeOK, ConsumedHasAccount, At, Goto, Return, May, Gone
  <1>1. ASSUME NEW p \in Procs, NEW e \in Emails, SendLookup(p, e)
        PROVE  ConsumedHasAccount'
    BY <1>1 DEF SendLookup, sessions, effects
  <1>2. ASSUME NEW p \in Procs, \/ SendRate(p) \/ SendIncr(p) \/ SendExpire(p)
                                \/ SendPublish(p) \/ SendReport(p) \/ SendRemove(p)
        PROVE  ConsumedHasAccount'
    BY <1>2 DEF SendRate, SendIncr, SendExpire, SendPublish, SendReport, SendRemove, sessions,
       effects
  <1>3. ASSUME NEW p \in Procs, SendStore(p)
        PROVE  ConsumedHasAccount'
    <2>1. PICK s \in Unused : Stores(p, s)
      BY <1>3, StoreStep
    <2>2. pc[p] = "sendStore"
      BY <1>3 DEF SendStore
    <2>3. QED
      BY <2>1, <2>2 DEF Stores, Unused
  <1>4. ASSUME NEW p \in Procs, NEW s \in Sessions, VerifyLoad(p, s)
        PROVE  ConsumedHasAccount'
    BY <1>4 DEF VerifyLoad, sessions, effects
  <1>5. ASSUME NEW p \in Procs, VerifyConsume(p)
        PROVE  ConsumedHasAccount'
    BY <1>5 DEF VerifyConsume, effects
  <1>6. ASSUME NEW p \in Procs, VerifyCreate(p)
        PROVE  ConsumedHasAccount'
    <2>1. owner[sid[p]] = email[p] /\ account'[email[p]] # "none"
      BY <1>6 DEF VerifyCreate
    <2>2. \A e \in Emails : account[e] # "none" => account'[e] # "none"
      BY <1>6 DEF VerifyCreate
    <2>3. \A q \in At("verifyCreate") \ {p} : q \in At("verifyCreate")' /\ sid'[q] = sid[q]
      BY <1>6 DEF VerifyCreate
    <2>4. pc[p] = "verifyCreate" /\ UNCHANGED <<fate, owner>>
      BY <1>6 DEF VerifyCreate, sessions
    <2>5. \A s \in Sessions : fate[s] = "consumed" => owner[s] \in Emails
      BY DEF Unused
    <2>6. QED
      BY <2>1, <2>2, <2>3, <2>4, <2>5
  <1>7. ASSUME NEW p \in Procs, \/ VerifyCheck(p) \/ VerifyWelcome(p)
                                \/ VerifyMiss(p) \/ VerifyMissExpire(p)
        PROVE  ConsumedHasAccount'
    BY <1>7 DEF VerifyCheck, VerifyWelcome, VerifyMiss, VerifyMissExpire, sessions, effects
  <1>8. ASSUME NEW s \in Sessions, SessionExpire(s)
        PROVE  ConsumedHasAccount'
    BY <1>8 DEF SessionExpire, local, effects
  <1>9. ASSUME NEW e \in Emails, GoogleSignUp(e)
        PROVE  ConsumedHasAccount'
    BY <1>9 DEF GoogleSignUp, local, sessions
  <1>10. ASSUME UNCHANGED <<local, sessions, account>>
         PROVE  ConsumedHasAccount'
    BY <1>10 DEF local, sessions
  <1>11. QED
    BY <1>1, <1>2, <1>3, <1>4, <1>5, <1>6, <1>7, <1>8, <1>9, <1>10, Steps
       DEF Handler, Deliver, RateExpire, AttemptsExpire, Crash, vars, effects

\* A used-up code leads to an account, if neither the database nor the process
\* fails between the two.
THEOREM ConsumedLeadsToAccount ==
    ASSUME "db" \notin Faults, "crash" \notin Faults
    PROVE  Spec => []ConsumedHasAccount
  <1>1. Init => ConsumedHasAccount
    BY DEF Init, ConsumedHasAccount
  <1>2. TypeOK /\ ConsumedHasAccount /\ [Next]_vars => ConsumedHasAccount'
    BY ConsumedStep
  <1>3. QED
    BY TypeCorrect, <1>1, <1>2, PTL DEF Spec
=============================================================================
