------------------------------ MODULE OtpSignup ------------------------------
(***************************************************************************)
(* Email signup in the user service: SendOTP and VerifyOTP handlers that   *)
(* run at once and share Redis (pending sessions, two counters per email), *)
(* PostgreSQL (accounts, unique by email) and the Kafka producer.          *)
(* user-service/server/internal/{handler,utils,service}.go                 *)
(*                                                                         *)
(* A step is one call to Redis, PostgreSQL or the producer.  A code and    *)
(* the bcrypt hash stored with it stand behind the session id; a counter   *)
(* at zero is a key Redis does not have.                                   *)
(***************************************************************************)
EXTENDS Integers, FiniteSets

CONSTANTS Procs,                \* handlers that can run at once
          Sessions,             \* session ids uuid.New can return (bound)
          Emails,
          OtpRateMaxPerHour,
          OtpMaxVerifyAttempts,
          MaxTries,             \* callers stop guessing there (bound)
          Faults,               \* what may go wrong, see FaultKinds
          None

\* "get": a GET fails.  "set": SET fails, applied or not.  "incr": INCR is not
\* applied.  "retry": the client repeats an INCR whose answer was lost.
\* "expire", "del": not applied.  "db": INSERT fails, or commits unheard.
\* "kafka": a publish fails or its outcome is unknown.  "falseReport": a failed
\* delivery report for a record that is in the log.  "crash": the process dies.
FaultKinds == {"get", "set", "incr", "retry", "expire", "del", "db", "kafka",
               "falseReport", "crash"}

ASSUME SignupConstants ==
    /\ IsFiniteSet(Procs) /\ Procs # {}
    /\ IsFiniteSet(Sessions)
    /\ OtpRateMaxPerHour \in Nat \ {0}
    /\ OtpMaxVerifyAttempts \in Nat \ {0}
    /\ MaxTries \in Nat
    /\ Faults \subseteq FaultKinds
    /\ None \notin Emails \cup Sessions

VARIABLES pc,             \* where each handler stands
          email,          \* the email a handler works for
          sid,            \* its otp_session_id
          fate,           \* what became of each session key; it exists while "live"
          owner,          \* the email stored in a session
          rate,           \* otp:rate:<email>
          rateTimed,      \* emails whose rate key has a TTL
          attempts,       \* otp:attempts:<email>
          attemptsTimed,  \* emails whose attempts key has a TTL
          account,        \* who created the users row of an email
          event,          \* the OTP event of a session: with the client, in the log
          reply,          \* what SendOTP answered for a session
          welcomes        \* welcome events published per email

local    == <<pc, email, sid>>
sessions == <<fate, owner, reply>>
rates    == <<rate, rateTimed>>
tries    == <<attempts, attemptsTimed>>
effects  == <<account, event, welcomes>>
vars     == <<local, sessions, rates, tries, effects>>

SendPC   == {"sendRate", "sendStore", "sendIncr", "sendExpire", "sendPublish", "sendReport",
             "sendRemove"}
VerifyPC == {"verifyCheck", "verifyConsume", "verifyCreate", "verifyWelcome",
             "verifyMiss", "verifyMissExpire"}

Fates   == {"unused", "live", "consumed", "withdrawn", "expired"}
Replies == {"none", "ok", "processing", "notQueued"}

May(f) == f \in Faults

At(l)    == {p \in Procs : pc[p] = l}
Unused   == {s \in Sessions : fate[s] = "unused"}

Goto(p, l) == pc' = [pc EXCEPT ![p] = l] /\ UNCHANGED <<email, sid>>
Return(p)  == /\ pc'    = [pc EXCEPT ![p] = "idle"]
              /\ email' = [email EXCEPT ![p] = None]
              /\ sid'   = [sid EXCEPT ![p] = None]

\* A key is removed: by a handler for one reason, by its TTL for another.
Gone(s, why) == IF fate[s] = "live" THEN [fate EXCEPT ![s] = why] ELSE fate

Init ==
    /\ pc = [p \in Procs |-> "idle"]
    /\ email = [p \in Procs |-> None] /\ sid = [p \in Procs |-> None]
    /\ fate = [s \in Sessions |-> "unused"]
    /\ owner = [s \in Sessions |-> None]
    /\ reply = [s \in Sessions |-> "none"]
    /\ rate = [e \in Emails |-> 0] /\ rateTimed = {}
    /\ attempts = [e \in Emails |-> 0] /\ attemptsTimed = {}
    /\ account = [e \in Emails |-> "none"]
    /\ event = [s \in Sessions |-> "none"]
    /\ welcomes = [e \in Emails |-> 0]

-----------------------------------------------------------------------------
(* SendOTP *)

\* The users lookup finds nothing.  (An email that has an account, and a failed
\* lookup, return at once.)
SendLookup(p, e) ==
    /\ pc[p] = "idle" /\ account[e] = "none"
    /\ Cardinality(Unused) > Cardinality(At("sendRate") \cup At("sendStore"))
    /\ pc' = [pc EXCEPT ![p] = "sendRate"]
    /\ email' = [email EXCEPT ![p] = e]
    /\ UNCHANGED <<sid, sessions, rates, tries, effects>>

SendRateNoLimit(p) ==
    /\ pc[p] = "sendRate"
    /\ Goto(p, "sendStore")
    /\ UNCHANGED <<sessions, rates, tries, effects>>

\* sent_count, read as zero when GET fails.
SendRate(p) ==
    /\ pc[p] = "sendRate"
    /\ \/ rate[email[p]] < OtpRateMaxPerHour /\ Goto(p, "sendStore")
       \/ rate[email[p]] >= OtpRateMaxPerHour /\ Return(p)
       \/ May("get") /\ Goto(p, "sendStore")
    /\ UNCHANGED <<sessions, rates, tries, effects>>

SendStore(p) ==
    /\ pc[p] = "sendStore"
    /\ \E s \in Unused :
          /\ \/ /\ fate' = [fate EXCEPT ![s] = "live"]
                /\ pc' = [pc EXCEPT ![p] = "sendIncr"]
                /\ sid' = [sid EXCEPT ![p] = s]
                /\ UNCHANGED email
             \/ /\ May("set")
                /\ fate' \in {fate, [fate EXCEPT ![s] = "live"]}
                /\ Return(p)
          /\ owner' = [owner EXCEPT ![s] = IF fate'[s] = "live" THEN email[p] ELSE None]
    /\ UNCHANGED <<reply, rates, tries, effects>>

\* The results of INCR and EXPIRE are not looked at.
SendIncr(p) ==
    /\ pc[p] = "sendIncr"
    /\ \E n \in {1} \cup (IF May("incr") THEN {0} ELSE {})
                    \cup (IF May("retry") THEN {2} ELSE {}) :
          rate' = [rate EXCEPT ![email[p]] = @ + n]
    /\ Goto(p, "sendExpire")
    /\ UNCHANGED <<sessions, rateTimed, tries, effects>>

SendNoExpire(p) ==
    /\ pc[p] = "sendExpire"
    /\ Goto(p, "sendPublish")
    /\ UNCHANGED <<sessions, rates, tries, effects>>

SendExpire(p) ==
    /\ pc[p] = "sendExpire"
    /\ \/ rateTimed' = IF rate[email[p]] > 0 THEN rateTimed \cup {email[p]} ELSE rateTimed
       \/ May("expire") /\ UNCHANGED rateTimed
    /\ Goto(p, "sendPublish")
    /\ UNCHANGED <<sessions, rate, tries, effects>>

\* producer.SendOtpEmail: the client takes the event, or refuses it.
SendPublish(p) ==
    /\ pc[p] = "sendPublish"
    /\ \/ /\ event' = [event EXCEPT ![sid[p]] = "pending"]
          /\ Goto(p, "sendReport")
       \/ /\ May("kafka")
          /\ UNCHANGED event
          /\ Goto(p, "sendRemove")
    /\ UNCHANGED <<sessions, rates, tries, account, welcomes>>

SendReportUnknownFails(p) ==
    /\ pc[p] = "sendReport"
    /\ Goto(p, "sendRemove")
    /\ UNCHANGED <<sessions, rates, tries, effects>>

SendReportUnknownOk(p) ==
    /\ pc[p] = "sendReport"
    /\ reply' = [reply EXCEPT ![sid[p]] = "ok"]
    /\ Return(p)
    /\ UNCHANGED <<fate, owner, rates, tries, effects>>

\* The report: delivered; or none in time, whether the event is in the log or
\* not; or failed, and what has failed for certain does not get there any more.
SendReport(p) ==
    /\ pc[p] = "sendReport"
    /\ \/ /\ event[sid[p]] = "sent"
          /\ reply' = [reply EXCEPT ![sid[p]] = "ok"]
          /\ Return(p)
          /\ UNCHANGED event
       \/ /\ May("kafka")
          /\ reply' = [reply EXCEPT ![sid[p]] = "processing"]
          /\ Return(p)
          /\ UNCHANGED event
       \/ /\ May("kafka")
          /\ \E e \in (IF event[sid[p]] = "pending" THEN {"none"} ELSE {})
                     \cup (IF May("falseReport") THEN {event[sid[p]]} ELSE {}) :
                event' = [event EXCEPT ![sid[p]] = e]
          /\ Goto(p, "sendRemove")
          /\ UNCHANGED reply
    /\ UNCHANGED <<fate, owner, rates, tries, account, welcomes>>

SendRemove(p) ==
    /\ pc[p] = "sendRemove"
    /\ \/ fate' = Gone(sid[p], "withdrawn")
       \/ May("del") /\ UNCHANGED fate
    /\ reply' = [reply EXCEPT ![sid[p]] = "notQueued"]
    /\ Return(p)
    /\ UNCHANGED <<owner, rates, tries, effects>>

-----------------------------------------------------------------------------
(* VerifyOTP *)

\* GET of a session the caller was told of.  (A missing session returns at once.)
VerifyLoad(p, s) ==
    /\ pc[p] = "idle" /\ reply[s] = "ok" /\ fate[s] = "live"
    /\ attempts[owner[s]] <= MaxTries
    /\ pc' = [pc EXCEPT ![p] = "verifyCheck"]
    /\ email' = [email EXCEPT ![p] = owner[s]]
    /\ sid' = [sid EXCEPT ![p] = s]
    /\ UNCHANGED <<sessions, rates, tries, effects>>

\* attempt_count, zero when GET fails, and the comparison of the two HMACs.
VerifyCheckNoLimit(p) ==
    /\ pc[p] = "verifyCheck"
    /\ Goto(p, "verifyMiss")
    /\ UNCHANGED <<sessions, rates, tries, effects>>

VerifyCheck(p) ==
    /\ pc[p] = "verifyCheck"
    /\ \/ /\ attempts[email[p]] < OtpMaxVerifyAttempts \/ May("get")
          /\ \E next \in {"verifyConsume", "verifyMiss"} : Goto(p, next)
       \/ attempts[email[p]] >= OtpMaxVerifyAttempts /\ Return(p)
    /\ UNCHANGED <<sessions, rates, tries, effects>>

\* One DEL of the session and both counters; its result is not looked at.
VerifyConsume(p) ==
    /\ pc[p] = "verifyConsume"
    /\ \/ /\ fate' = Gone(sid[p], "consumed")
          /\ rate' = [rate EXCEPT ![email[p]] = 0]
          /\ rateTimed' = rateTimed \ {email[p]}
          /\ attempts' = [attempts EXCEPT ![email[p]] = 0]
          /\ attemptsTimed' = attemptsTimed \ {email[p]}
       \/ May("del") /\ UNCHANGED <<fate, rates, tries>>
    /\ Goto(p, "verifyCreate")
    /\ UNCHANGED <<owner, reply, effects>>

VerifyCreateNotUnique(p) ==
    /\ pc[p] = "verifyCreate"
    /\ account' = [account EXCEPT ![email[p]] = "otp"]
    /\ Goto(p, "verifyWelcome")
    /\ UNCHANGED <<sessions, rates, tries, event, welcomes>>

VerifyCreateForgets(p) ==
    /\ pc[p] = "verifyCreate"
    /\ Goto(p, "verifyWelcome")
    /\ UNCHANGED <<sessions, rates, tries, effects>>

\* INSERT, refused by the unique index when the email has a row.
VerifyCreate(p) ==
    /\ pc[p] = "verifyCreate"
    /\ \/ /\ account[email[p]] = "none"
          /\ account' = [account EXCEPT ![email[p]] = "otp"]
          /\ Goto(p, "verifyWelcome")
       \/ /\ account[email[p]] = "none" /\ May("db")
          /\ account' = [account EXCEPT ![email[p]] = "otp"]
          /\ Return(p)
       \/ /\ account[email[p]] # "none" \/ May("db")
          /\ UNCHANGED account
          /\ Return(p)
    /\ UNCHANGED <<sessions, rates, tries, event, welcomes>>

\* A failed publish is logged and forgotten; the account stands.
VerifyWelcome(p) ==
    /\ pc[p] = "verifyWelcome"
    /\ \/ welcomes' = [welcomes EXCEPT ![email[p]] = @ + 1]
       \/ May("kafka") /\ UNCHANGED welcomes
    /\ Return(p)
    /\ UNCHANGED <<sessions, rates, tries, account, event>>

VerifyMiss(p) ==
    /\ pc[p] = "verifyMiss"
    /\ \E n \in {1} \cup (IF May("incr") THEN {0} ELSE {})
                    \cup (IF May("retry") THEN {2} ELSE {}) :
          attempts' = [attempts EXCEPT ![email[p]] = @ + n]
    /\ Goto(p, "verifyMissExpire")
    /\ UNCHANGED <<sessions, rates, attemptsTimed, effects>>

VerifyMissExpire(p) ==
    /\ pc[p] = "verifyMissExpire"
    /\ \/ attemptsTimed' = IF attempts[email[p]] > 0 THEN attemptsTimed \cup {email[p]}
                           ELSE attemptsTimed
       \/ May("expire") /\ UNCHANGED attemptsTimed
    /\ Return(p)
    /\ UNCHANGED <<sessions, rates, attempts, effects>>

-----------------------------------------------------------------------------
(* Redis expiry, the broker, the other way to sign up, the process *)

SessionExpire(s) ==
    /\ fate[s] = "live"
    /\ fate' = [fate EXCEPT ![s] = "expired"]
    /\ UNCHANGED <<local, owner, reply, rates, tries, effects>>

RateExpire(e) ==
    /\ e \in rateTimed
    /\ rate' = [rate EXCEPT ![e] = 0]
    /\ rateTimed' = rateTimed \ {e}
    /\ UNCHANGED <<local, sessions, tries, effects>>

AttemptsExpire(e) ==
    /\ e \in attemptsTimed
    /\ attempts' = [attempts EXCEPT ![e] = 0]
    /\ attemptsTimed' = attemptsTimed \ {e}
    /\ UNCHANGED <<local, sessions, rates, effects>>

\* An event the client took reaches the log, while SendOTP waits for the report
\* or after it gave up or its process died.
Deliver(s) ==
    /\ event[s] = "pending"
    /\ event' = [event EXCEPT ![s] = "sent"]
    /\ UNCHANGED <<local, sessions, rates, tries, account, welcomes>>

\* VerifyGoogleIDToken creates the users row of an email that has none.
GoogleSignUp(e) ==
    /\ account[e] = "none"
    /\ account' = [account EXCEPT ![e] = "google"]
    /\ UNCHANGED <<local, sessions, rates, tries, event, welcomes>>

Crash ==
    /\ May("crash") /\ \E p \in Procs : pc[p] # "idle"
    /\ pc' = [p \in Procs |-> "idle"]
    /\ email' = [p \in Procs |-> None] /\ sid' = [p \in Procs |-> None]
    /\ UNCHANGED <<sessions, rates, tries, effects>>

\* A server without requests rests.
Rest == (\A p \in Procs : pc[p] = "idle") /\ UNCHANGED vars

Handler(p) ==
    \/ SendRate(p) \/ SendStore(p) \/ SendIncr(p) \/ SendExpire(p)
    \/ SendPublish(p) \/ SendReport(p) \/ SendRemove(p)
    \/ VerifyCheck(p) \/ VerifyConsume(p) \/ VerifyCreate(p) \/ VerifyWelcome(p)
    \/ VerifyMiss(p) \/ VerifyMissExpire(p)

Environment ==
    \/ \E s \in Sessions : SessionExpire(s) \/ Deliver(s)
    \/ \E e \in Emails : RateExpire(e) \/ AttemptsExpire(e) \/ GoogleSignUp(e)
    \/ Crash

Next ==
    \/ \E p \in Procs : \/ \E e \in Emails : SendLookup(p, e)
                        \/ \E s \in Sessions : VerifyLoad(p, s)
                        \/ Handler(p)
    \/ Environment
    \/ Rest

Spec == Init /\ [][Next]_vars

\* A handler runs on (every call it makes has a five-second context), and Redis
\* expires what has a TTL.
Fairness ==
    /\ \A p \in Procs : WF_vars(Handler(p))
    /\ \A e \in Emails : WF_vars(RateExpire(e)) /\ WF_vars(AttemptsExpire(e))

FairSpec == Spec /\ Fairness

-----------------------------------------------------------------------------
(* Properties *)

\* Every variable holds a value of its type, and a handler past its first step
\* knows its email, past the point that needs it its session.
TypeOK ==
    /\ pc \in [Procs -> {"idle"} \cup SendPC \cup VerifyPC]
    /\ email \in [Procs -> Emails \cup {None}]
    /\ sid \in [Procs -> Sessions \cup {None}]
    /\ \A p \in Procs : pc[p] # "idle" => email[p] \in Emails
    /\ \A p \in Procs : pc[p] \notin {"idle", "sendRate", "sendStore"} =>
          sid[p] \in Sessions \ Unused /\ owner[sid[p]] = email[p]
    /\ fate \in [Sessions -> Fates]
    /\ owner \in [Sessions -> Emails \cup {None}]
    /\ \A s \in Sessions \ Unused : owner[s] \in Emails
    /\ reply \in [Sessions -> Replies]
    /\ rate \in [Emails -> Nat] /\ rateTimed \subseteq Emails
    /\ attempts \in [Emails -> Nat] /\ attemptsTimed \subseteq Emails
    /\ account \in [Emails -> {"none", "otp", "google"}]
    /\ event \in [Sessions -> {"none", "pending", "sent"}]
    /\ welcomes \in [Emails -> Nat]

\* The limits are checked in one call and counted in another, so handlers that
\* run at once overshoot: by as many as there are other handlers, no more
\* (utils.go:55-90; needs GETs that work and INCRs applied once).
RateBounded ==
    \A e \in Emails : rate[e] <= OtpRateMaxPerHour - 1 + Cardinality(Procs)

\* The same of wrong codes, whatever sessions they are for (utils.go:109-125).
AttemptsBounded ==
    \A e \in Emails : attempts[e] <= OtpMaxVerifyAttempts - 1 + Cardinality(Procs)

\* A counter without a TTL is one that a handler is about to give a TTL, also
\* when a DEL comes between INCR and EXPIRE (utils.go:89-90, 121, 125-126; needs
\* EXPIREs and a process that do not fail).
CountersExpire ==
    \A e \in Emails :
        /\ rate[e] > 0 /\ e \notin rateTimed =>
              \E p \in At("sendExpire") : email[p] = e
        /\ attempts[e] > 0 /\ e \notin attemptsTimed =>
              \E p \in At("verifyMissExpire") : email[p] = e

\* A code that was used up has led to an account, or is about to
\* (handler.go:151-165; needs a database and a process that do not fail).
ConsumedHasAccount ==
    \A s \in Sessions : fate[s] = "consumed" =>
        \/ account[owner[s]] # "none"
        \/ \E p \in At("verifyCreate") : sid[p] = s

\* A code that reaches its user was not withdrawn: a session is removed only
\* after its publish failed for certain (handler.go:104-116).
MailHasSession ==
    \A s \in Sessions : event[s] = "sent" => fate[s] # "withdrawn"

\* An account VerifyOTP created belongs to an address that was sent a code.
VerifiedWasMailed ==
    \A e \in Emails : account[e] = "otp" =>
        \E s \in Sessions : owner[s] = e /\ event[s] = "sent"

\* However many handlers accept the same code, an email is welcomed at most
\* once, and only if VerifyOTP is what created its account (handler.go:165-170).
OneWelcome ==
    \A e \in Emails : welcomes[e] <= IF account[e] = "otp" THEN 1 ELSE 0

\* An email over either limit gets below it again (utils.go:89-90, 121-126; needs
\* EXPIREs and a process that do not fail).
LockoutEnds ==
    \A e \in Emails :
        /\ (rate[e] >= OtpRateMaxPerHour) ~> (rate[e] < OtpRateMaxPerHour)
        /\ (attempts[e] >= OtpMaxVerifyAttempts) ~> (attempts[e] < OtpMaxVerifyAttempts)

\* What user-service/README.md:72-74 says: so many code requests within a
\* window, and the next one is refused.
NeverOverRate == \A e \in Emails : rate[e] <= OtpRateMaxPerHour
=============================================================================
