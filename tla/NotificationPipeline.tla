------------------------ MODULE NotificationPipeline ------------------------
(***************************************************************************)
(* OtpSignup and NotificationConsumer composed: what the handlers of       *)
(* user-service publish is what notification-service consumes, and a user  *)
(* can enter a code only after it was mailed.                              *)
(***************************************************************************)
EXTENDS Integers, FiniteSets, Sequences

CONSTANTS Procs, Sessions, Emails,
          Unparsable,  \* addresses SendOTP accepts and IsEmailValid does not
          OtpRateMaxPerHour, OtpMaxVerifyAttempts, MaxTries,
          SignupFaults, ServiceFaults, MailerConfig, None

VARIABLES pc, email, sid, fate, owner, rate, rateTimed, attempts, attemptsTimed,
          account, event, reply, welcomes,
          log, committed, mailed, up, cancelled, joined, loop, current, pos, stored, recent

OtpTopic     == "notification.otp-email"
WelcomeTopic == "notification.welcome-email"

\* An OTP event is its session and address, a welcome event the address twice.
OtpEvent(s)     == <<s, owner[s]>>
WelcomeEvent(e) == <<e, e>>
Payloads        == (Sessions \cup Emails) \X Emails
Address(payload) == payload[2]

Signup == INSTANCE OtpSignup WITH Faults <- SignupFaults

\* No topic gets more events than there are sessions or addresses.
Service == INSTANCE NotificationConsumer
    WITH Topics <- {OtpTopic, WelcomeTopic}, Unsupported <- {},
         Kinds <- Payloads, Valid <- {k \in Payloads : Address(k) \notin Unparsable},
         MaxLog <- Cardinality(Sessions \cup Emails), Faults <- ServiceFaults

ASSUME PipelineConstants ==
    /\ IsFiniteSet(Procs) /\ Procs # {}
    /\ IsFiniteSet(Sessions) /\ IsFiniteSet(Emails)
    /\ OtpRateMaxPerHour \in Nat \ {0} /\ OtpMaxVerifyAttempts \in Nat \ {0}
    /\ MaxTries \in Nat
    /\ SignupFaults \subseteq Signup!FaultKinds
    /\ ServiceFaults \subseteq {"mail", "fatal", "commit", "session", "crash"}
    /\ Service!New # "error"
    /\ None \notin Emails \cup Sessions

signup  == <<pc, email, sid, fate, owner, rate, rateTimed, attempts, attemptsTimed,
             account, event, reply, welcomes>>
service == <<log, committed, mailed, up, cancelled, joined, loop, current, pos, stored, recent>>
vars    == <<signup, service>>

Sent       == {s \in Sessions : event[s] = "sent"}
Mailed(t)  == {log[e[1]][e[2]] : e \in {m \in mailed : m[1] = t}}
CodeMailed(s) == OtpEvent(s) \in Mailed(OtpTopic)

Init == Signup!Init /\ Service!Init

\* The right code is in the mail only.
CodesAreSecret ==
    \A p \in Procs :
        pc[p] = "verifyCheck" /\ pc'[p] = "verifyConsume" => CodeMailed(sid[p])

\* What a step of user-service publishes is in the log of its topic.
Handover ==
    \/ Sent' = Sent /\ welcomes' = welcomes /\ UNCHANGED service
    \/ \E s \in Sent' \ Sent : Service!Publish(OtpTopic, OtpEvent(s))
    \/ \E e \in Emails : welcomes'[e] # welcomes[e] /\ Service!Publish(WelcomeTopic, WelcomeEvent(e))

SignupStep == Signup!Next /\ CodesAreSecret /\ Handover

ServiceStep == Service!Next /\ UNCHANGED log /\ UNCHANGED signup

Next == SignupStep \/ ServiceStep

Spec == Init /\ [][Next]_vars

\* Handlers end, and notification-service is as fair as in its own module.
Fairness ==
    /\ \A p \in Procs : WF_vars(Signup!Handler(p) /\ CodesAreSecret /\ Handover)
    /\ Service!Fairness

FairSpec == Spec /\ Fairness

-----------------------------------------------------------------------------
(* Properties *)

Journey == INSTANCE SignupJourney
    WITH coded <- {Address(k) : k \in Mailed(OtpTopic)},
         welcomed <- {Address(k) : k \in Mailed(WelcomeTopic)}

\* The two services together keep the promise of SignupJourney, whatever fails
\* and however often an event is mailed again (handler.go:136-182,
\* verify_otp_email.go:16-45).
ImplementsJourney == Journey!Spec

\* An acknowledged code is never lost between the services: its event is in the
\* topic, and mailed before the consumer's group has passed it, whatever crashes
\* (handler.go:104-125, kafka.go:162-182, kafka.go:271-279).
AcknowledgedNotLost ==
    \A s \in Sessions : reply[s] = "ok" =>
        \E i \in 1..Len(log[OtpTopic]) :
            /\ log[OtpTopic][i] = OtpEvent(s)
            /\ i <= committed[OtpTopic] => CodeMailed(s)

\* No code and no account has two events, so a user gets a second mail of either
\* only when an event is handled again (kafka.go:53, handler.go:101-125, 165-170).
EventsOnce ==
    \A t \in {OtpTopic, WelcomeTopic} : \A i, j \in 1..Len(log[t]) :
        log[t][i] = log[t][j] => i = j

\* A code that SendOTP has acknowledged is mailed, unless an event of an address
\* that does not parse stands before it (handler.go:104-125, kafka.go:264).
AcknowledgedIsMailed ==
    \A s \in Sessions :
        (/\ reply[s] = "ok"
         /\ \A i \in 1..Len(log[OtpTopic]) : Address(log[OtpTopic][i]) \notin Unparsable)
            ~> CodeMailed(s)
=============================================================================
