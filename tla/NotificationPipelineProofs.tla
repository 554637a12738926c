--------------------- MODULE NotificationPipelineProofs ---------------------
(***************************************************************************)
(* Theorems about the composition of OtpSignup and NotificationConsumer.   *)
(* Each part takes only steps it takes by itself, so its invariants, proved *)
(* in modules of their own, hold of the whole; what is new is what the     *)
(* parts have to do with each other.                                       *)
(***************************************************************************)
EXTENDS NotificationPipeline, FiniteSetTheorems, TLAPS

SignupP == INSTANCE OtpSignupProofs WITH Faults <- SignupFaults

ServiceP == INSTANCE NotificationConsumerProofs
    WITH Topics <- {OtpTopic, WelcomeTopic}, Unsupported <- {},
         Kinds <- Payloads, Valid <- {k \in Payloads : Address(k) \notin Unparsable},
         MaxLog <- Cardinality(Sessions \cup Emails), Faults <- ServiceFaults

-----------------------------------------------------------------------------
(* The parts are the modules the invariants are proved of *)

\* The constants are what the parts ask for.
LEMMA Constants ==
    /\ SignupP!SignupConstants
    /\ ServiceP!ConsumerConstants
    /\ ServiceP!MailerStarts
<1>1. SignupP!SignupConstants
  BY PipelineConstants
     DEF Signup!FaultKinds, SignupP!FaultKinds, SignupP!IsFiniteSet, IsFiniteSet
<1>2. Cardinality(Sessions \cup Emails) \in Nat
  BY PipelineConstants, FS_Union, FS_CardinalityType
<1>3. ServiceP!ConsumerConstants
  BY <1>2, PipelineConstants
<1>4. ServiceP!MailerStarts
  BY PipelineConstants DEF Service!New, ServiceP!New, Service!NewResend, ServiceP!NewResend,
     Service!NewMailtrap, ServiceP!NewMailtrap
<1> QED
  BY <1>1, <1>3, <1>4

\* The actions of user-service, by both names.
LEMMA SameSignup ==
    /\ Signup!Init <=> SignupP!Init
    /\ Signup!Next <=> SignupP!Next
    /\ Signup!vars = SignupP!vars
<1> USE DEF Signup!Unused, SignupP!Unused, Signup!At, SignupP!At, Signup!sessions,
        SignupP!sessions, Signup!rates, SignupP!rates, Signup!tries, SignupP!tries,
        Signup!effects, SignupP!effects, Signup!local, SignupP!local, Signup!Goto, SignupP!Goto,
        Signup!Return, SignupP!Return, Signup!May, SignupP!May, Signup!Gone, SignupP!Gone,
        Signup!vars, SignupP!vars
<1>0. \A S : Signup!Cardinality(S) = SignupP!Cardinality(S)
  BY DEF Signup!Cardinality, SignupP!Cardinality
<1>1. \A p, e : /\ Signup!SendLookup(p, e) <=> SignupP!SendLookup(p, e)
                /\ Signup!VerifyLoad(p, e) <=> SignupP!VerifyLoad(p, e)
  BY <1>0 DEF Signup!SendLookup, SignupP!SendLookup, Signup!VerifyLoad, SignupP!VerifyLoad
<1>2. \A p : /\ Signup!SendRate(p) <=> SignupP!SendRate(p)
             /\ Signup!SendStore(p) <=> SignupP!SendStore(p)
             /\ Signup!SendExpire(p) <=> SignupP!SendExpire(p)
  BY DEF Signup!SendRate, SignupP!SendRate, Signup!SendStore, SignupP!SendStore,
         Signup!SendExpire, SignupP!SendExpire
<1>3. \A p : /\ Signup!SendIncr(p) <=> SignupP!SendIncr(p)
             /\ Signup!VerifyMiss(p) <=> SignupP!VerifyMiss(p)
  BY DEF Signup!SendIncr, SignupP!SendIncr, Signup!VerifyMiss, SignupP!VerifyMiss
<1>4. \A p : /\ Signup!SendPublish(p) <=> SignupP!SendPublish(p)
             /\ Signup!SendReport(p) <=> SignupP!SendReport(p)
             /\ Signup!SendRemove(p) <=> SignupP!SendRemove(p)
  BY DEF Signup!SendPublish, SignupP!SendPublish, Signup!SendReport, SignupP!SendReport,
         Signup!SendRemove, SignupP!SendRemove
<1>5. \A p : /\ Signup!VerifyCheck(p) <=> SignupP!VerifyCheck(p)
             /\ Signup!VerifyConsume(p) <=> SignupP!VerifyConsume(p)
             /\ Signup!VerifyCreate(p) <=> SignupP!VerifyCreate(p)
             /\ Signup!VerifyWelcome(p) <=> SignupP!VerifyWelcome(p)
             /\ Signup!VerifyMissExpire(p) <=> SignupP!VerifyMissExpire(p)
  BY DEF Signup!VerifyCheck, SignupP!VerifyCheck, Signup!VerifyConsume, SignupP!VerifyConsume,
         Signup!VerifyCreate, SignupP!VerifyCreate, Signup!VerifyWelcome, SignupP!VerifyWelcome,
         Signup!VerifyMissExpire, SignupP!VerifyMissExpire
<1>6. Signup!Environment <=> SignupP!Environment
  BY DEF Signup!Environment, SignupP!Environment, Signup!SessionExpire, SignupP!SessionExpire,
         Signup!Deliver, SignupP!Deliver, Signup!RateExpire, SignupP!RateExpire,
         Signup!AttemptsExpire, SignupP!AttemptsExpire, Signup!GoogleSignUp, SignupP!GoogleSignUp,
         Signup!Crash, SignupP!Crash
<1>7. \A p : Signup!Handler(p) <=> SignupP!Handler(p)
  BY <1>2, <1>3, <1>4, <1>5 DEF Signup!Handler, SignupP!Handler
<1>8. Signup!Init <=> SignupP!Init
  BY DEF Signup!Init, SignupP!Init
<1>9. Signup!Rest <=> SignupP!Rest
  BY DEF Signup!Rest, SignupP!Rest
<1> QED
  BY <1>1, <1>6, <1>7, <1>8, <1>9 DEF Signup!Next, SignupP!Next

\* The same of notification-service.
LEMMA SameService ==
    /\ Service!Init <=> ServiceP!Init
    /\ Service!Next <=> ServiceP!Next
    /\ Service!vars = ServiceP!vars
    /\ \A t, k : Service!Publish(t, k) <=> ServiceP!Publish(t, k)
    /\ Service!Events = ServiceP!Events
<1> USE DEF Service!broker, ServiceP!broker, Service!process, ServiceP!process, Service!reader,
        ServiceP!reader, Service!mails, ServiceP!mails, Service!vars, ServiceP!vars,
        Service!NoEvent, ServiceP!NoEvent, Service!Topic, ServiceP!Topic, Service!Good,
        ServiceP!Good, Service!May, ServiceP!May, Service!Open, ServiceP!Open, Service!Mails, ServiceP!Mails,
        Service!Events, ServiceP!Events
<1>1. Service!New = ServiceP!New
  BY DEF Service!New, ServiceP!New, Service!NewResend, ServiceP!NewResend, Service!NewMailtrap,
         ServiceP!NewMailtrap
<1>2. \A answer : Service!SendEmail(answer) = ServiceP!SendEmail(answer)
  BY <1>1 DEF Service!SendEmail, ServiceP!SendEmail
<1>3. Service!Answers = ServiceP!Answers
  BY <1>1 DEF Service!Answers, ServiceP!Answers
<1>4. Service!HandleMail <=> ServiceP!HandleMail
  BY <1>2, <1>3 DEF Service!HandleMail, ServiceP!HandleMail
<1>5. Service!HandleMailError <=> ServiceP!HandleMailError
  BY <1>2, <1>3 DEF Service!HandleMailError, ServiceP!HandleMailError, Service!MailError,
     ServiceP!MailError
<1>6. Service!Consumer <=> ServiceP!Consumer
  BY DEF Service!Consumer, ServiceP!Consumer, Service!LoopReturn, ServiceP!LoopReturn,
         Service!PollEvent, ServiceP!PollEvent, Service!HandleReject, ServiceP!HandleReject,
         Service!Store, ServiceP!Store, Service!StoreOne, ServiceP!StoreOne
<1>7. /\ Service!PollFatal <=> ServiceP!PollFatal
      /\ Service!AutoCommit <=> ServiceP!AutoCommit
  BY DEF Service!PollFatal, ServiceP!PollFatal, Service!AutoCommit, ServiceP!AutoCommit
<1>8. /\ Service!MainConsumerDone <=> ServiceP!MainConsumerDone
      /\ Service!MainStop <=> ServiceP!MainStop
      /\ Service!MainClose <=> ServiceP!MainClose
  BY DEF Service!MainConsumerDone, ServiceP!MainConsumerDone, Service!MainStop,
         ServiceP!MainStop, Service!MainClose, ServiceP!MainClose
<1>9. Service!Exit <=> ServiceP!Exit
  BY DEF Service!Exit, ServiceP!Exit
<1>10. Service!Restart <=> ServiceP!Restart
  BY DEF Service!Restart, ServiceP!Restart
<1>11. \A t, k : Service!Publish(t, k) <=> ServiceP!Publish(t, k)
  BY DEF Service!Publish, ServiceP!Publish
<1>12. Service!Init <=> ServiceP!Init
  BY DEF Service!Init, ServiceP!Init
<1>13. /\ Service!LoseSession <=> ServiceP!LoseSession
       /\ Service!Rejoin <=> ServiceP!Rejoin
  BY DEF Service!LoseSession, ServiceP!LoseSession, Service!Rejoin, ServiceP!Rejoin
<1> QED
  BY <1>4, <1>5, <1>6, <1>7, <1>8, <1>9, <1>10, <1>11, <1>12, <1>13 DEF Service!Next, ServiceP!Next

-----------------------------------------------------------------------------
(* The invariants of the parts hold of the whole *)

PartsInv ==
    /\ SignupP!TypeOK /\ SignupP!SenderInv /\ SignupP!WelcomeInv
    /\ ServiceP!IInv

\* Handlers that act on a code they found right.
Using == {"verifyConsume", "verifyCreate"}

\* What a step of user-service leaves alone of what the other service reads.
Keeps ==
    /\ \A s \in Sent : event'[s] = "sent" /\ owner'[s] = owner[s]
    /\ Sent' # Sent => owner' = owner
    /\ \A e \in Emails : account[e] = "otp" => account'[e] = "otp"
    /\ \A p \in Procs : pc'[p] \in Using =>
          /\ sid'[p] = sid[p]
          /\ pc[p] \in Using \/ (pc[p] = "verifyCheck" /\ pc'[p] = "verifyConsume")
    /\ \A e \in Emails : welcomes'[e] # welcomes[e] => account[e] = "otp"

\* Events go out one at a time, and a welcome once.
Publishes ==
    /\ \A s \in Sent' \ Sent : Sent' = Sent \cup {s} /\ welcomes' = welcomes
    /\ \A e \in Emails : welcomes'[e] # welcomes[e] =>
          /\ welcomes[e] = 0 /\ welcomes'[e] # 0
          /\ \A d \in Emails \ {e} : welcomes'[d] = welcomes[d]

\* How a step of user-service makes an account.
Creates ==
    \/ account' = account
    \/ \E e \in Emails : account[e] = "none" /\ account' = [account EXCEPT ![e] = "google"]
    \/ \E p \in Procs : /\ pc[p] = "verifyCreate" /\ account[email[p]] = "none"
                       /\ account' = [account EXCEPT ![email[p]] = "otp"]

\* Every step of OtpSignup keeps these and makes accounts in these ways only.
LEMMA SignupEffects ==
    ASSUME SignupP!TypeOK, SignupP!SenderInv, SignupP!WelcomeInv, SignupP!Next
    PROVE  Keeps /\ Creates /\ Publishes
<1> USE DEF SignupP!TypeOK, SignupP!SenderInv, SignupP!WelcomeInv, SignupP!Goto, SignupP!Return,
        SignupP!Unused, SignupP!At, Sent, Using, Keeps, Creates, Publishes
<1>1. ASSUME NEW p \in Procs, NEW e \in Emails, SignupP!SendLookup(p, e)
      PROVE  Keeps /\ Creates /\ Publishes
  BY <1>1 DEF SignupP!SendLookup, SignupP!sessions, SignupP!effects
<1>2. ASSUME NEW p \in Procs, SignupP!SendRate(p) \/ SignupP!SendIncr(p) \/ SignupP!SendExpire(p)
      PROVE  Keeps /\ Creates /\ Publishes
  BY <1>2 DEF SignupP!SendRate, SignupP!SendIncr, SignupP!SendExpire, SignupP!sessions,
     SignupP!effects
<1>3. ASSUME NEW p \in Procs, SignupP!SendStore(p)
      PROVE  Keeps /\ Creates /\ Publishes
  <2>1. PICK s \in SignupP!Unused : SignupP!Stores(p, s)
    BY <1>3, Constants, SignupP!StoreStep
  <2>2. UNCHANGED <<event, account, welcomes>>
    BY <2>1 DEF SignupP!Stores
  <2>3. \A r \in Sent : event'[r] = "sent" /\ owner'[r] = owner[r]
    BY <2>1, <2>2 DEF SignupP!Stores
  <2>4. \A q \in Procs : pc'[q] \in Using => pc[q] \in Using /\ sid'[q] = sid[q]
    <3>1. ASSUME NEW q \in Procs, q # p PROVE pc'[q] = pc[q] /\ sid'[q] = sid[q]
      BY <2>1, <3>1 DEF SignupP!Stores
    <3>2. pc'[p] \in {"sendIncr", "idle"}
      BY <2>1 DEF SignupP!Stores
    <3> QED
      BY <3>1, <3>2
  <2> QED
    BY <2>2, <2>3, <2>4
<1>4. ASSUME NEW p \in Procs, SignupP!SendPublish(p) \/ SignupP!SendReport(p)
      PROVE  Keeps /\ Creates /\ Publishes
  BY <1>4 DEF SignupP!SendPublish, SignupP!SendReport, SignupP!BeforePublish, SignupP!sessions
<1>5. ASSUME NEW p \in Procs, SignupP!SendRemove(p)
      PROVE  Keeps /\ Creates /\ Publishes
  BY <1>5 DEF SignupP!SendRemove, SignupP!effects
<1>6. ASSUME NEW p \in Procs, NEW s \in Sessions, SignupP!VerifyLoad(p, s)
      PROVE  Keeps /\ Creates /\ Publishes
  BY <1>6 DEF SignupP!VerifyLoad, SignupP!sessions, SignupP!effects
<1>7. ASSUME NEW p \in Procs, \/ SignupP!VerifyCheck(p) \/ SignupP!VerifyConsume(p)
                              \/ SignupP!VerifyMiss(p) \/ SignupP!VerifyMissExpire(p)
      PROVE  Keeps /\ Creates /\ Publishes
  BY <1>7 DEF SignupP!VerifyCheck, SignupP!VerifyConsume, SignupP!VerifyMiss,
     SignupP!VerifyMissExpire, SignupP!sessions, SignupP!effects
<1>8. ASSUME NEW p \in Procs, SignupP!VerifyCreate(p)
      PROVE  Keeps /\ Creates /\ Publishes
  BY <1>8 DEF SignupP!VerifyCreate, SignupP!sessions
<1>9. ASSUME NEW p \in Procs, SignupP!VerifyWelcome(p)
      PROVE  Keeps /\ Creates /\ Publishes
  BY <1>9 DEF SignupP!VerifyWelcome, SignupP!sessions
<1>10. ASSUME NEW s \in Sessions, SignupP!SessionExpire(s) \/ SignupP!Deliver(s)
       PROVE  Keeps /\ Creates /\ Publishes
  BY <1>10 DEF SignupP!SessionExpire, SignupP!Deliver, SignupP!local, SignupP!sessions,
     SignupP!effects
<1>11. ASSUME NEW e \in Emails, \/ SignupP!RateExpire(e) \/ SignupP!AttemptsExpire(e)
                                \/ SignupP!GoogleSignUp(e)
       PROVE  Keeps /\ Creates /\ Publishes
  BY <1>11 DEF SignupP!RateExpire, SignupP!AttemptsExpire, SignupP!GoogleSignUp, SignupP!local,
     SignupP!sessions, SignupP!effects
<1>12. CASE SignupP!Crash
  BY <1>12 DEF SignupP!Crash, SignupP!sessions, SignupP!effects
<1>13. CASE UNCHANGED SignupP!vars
  BY <1>13 DEF SignupP!vars, SignupP!local, SignupP!sessions, SignupP!effects
<1> HIDE DEF SignupP!TypeOK, SignupP!SenderInv, SignupP!WelcomeInv, SignupP!Goto, SignupP!Return,
        SignupP!Unused, SignupP!At, Sent, Using, Keeps, Creates, Publishes
<1>14. [SignupP!Next]_(SignupP!vars)
  OBVIOUS
<1> QED
  BY <1>1, <1>2, <1>3, <1>4, <1>5, <1>6, <1>7, <1>8, <1>9, <1>10, <1>11, <1>12, <1>13, <1>14,
     Constants, SignupP!Steps DEF SignupP!Handler

\* A step of user-service is a step of OtpSignup, and of the consumer a publish
\* or none.
LEMMA SignupParts ==
    ASSUME PartsInv, SignupStep
    PROVE  /\ SignupP!Next /\ PartsInv'
           /\ \/ UNCHANGED service /\ Sent' = Sent
              \/ \E s \in Sent' \ Sent :
                    OtpEvent(s) \in Payloads /\ ServiceP!Publish(OtpTopic, OtpEvent(s))
              \/ \E e \in Emails : /\ welcomes'[e] # welcomes[e]
                                  /\ ServiceP!Publish(WelcomeTopic, WelcomeEvent(e))
<1>1. SignupP!Next
  BY SameSignup DEF SignupStep
<1>2. SignupP!TypeOK' /\ SignupP!SenderInv' /\ SignupP!WelcomeInv'
  BY <1>1, Constants, SignupP!TypeStep, SignupP!SenderStep, SignupP!WelcomeStep DEF PartsInv
<1>3. \/ UNCHANGED service /\ Sent' = Sent
      \/ \E s \in Sent' \ Sent : ServiceP!Publish(OtpTopic, OtpEvent(s))
      \/ \E e \in Emails : /\ welcomes'[e] # welcomes[e]
                          /\ ServiceP!Publish(WelcomeTopic, WelcomeEvent(e))
  BY SameService DEF SignupStep, Handover
<1>4. ASSUME NEW s \in Sent' \ Sent
      PROVE  OtpEvent(s) \in Payloads
  <2>1. Keeps
    BY <1>1, SignupEffects DEF PartsInv
  <2>2. owner' = owner
    BY <1>4, <2>1 DEF Keeps
  <2> QED
    BY <1>2, <1>4, <2>2
       DEF Sent, SignupP!TypeOK, SignupP!SenderInv, SignupP!Unused, OtpEvent, Payloads
<1>5. ServiceP!IInv'
  <2>1. ServiceP!IInv
    BY DEF PartsInv
  <2>2. \A e \in Emails : WelcomeEvent(e) \in Payloads
    BY DEF WelcomeEvent, Payloads
  <2>3. ServiceP!Next \/ UNCHANGED ServiceP!vars
    BY <1>3, <1>4, <2>2 DEF ServiceP!Next, service, ServiceP!vars, ServiceP!broker,
       ServiceP!process, ServiceP!reader, ServiceP!mails
  <2> QED
    BY <2>1, <2>3, Constants, ServiceP!InvStep
<1> QED
  BY <1>1, <1>2, <1>3, <1>4, <1>5 DEF PartsInv

\* A step of notification-service is one of NotificationConsumer alone.
LEMMA ServiceParts ==
    ASSUME PartsInv, ServiceStep
    PROVE  ServiceP!Next /\ PartsInv' /\ UNCHANGED <<signup, log>>
<1>1. ServiceP!Next /\ UNCHANGED <<signup, log>>
  BY SameService DEF ServiceStep
<1>2. ServiceP!IInv'
  BY <1>1, Constants, ServiceP!InvStep DEF PartsInv
<1>3. SignupP!TypeOK' /\ SignupP!SenderInv' /\ SignupP!WelcomeInv'
  <2>1. UNCHANGED SignupP!vars
    BY <1>1 DEF signup, SignupP!vars, SignupP!local, SignupP!sessions, SignupP!rates,
       SignupP!tries, SignupP!effects
  <2> QED
    BY <2>1, Constants, SignupP!TypeStep, SignupP!SenderStep, SignupP!WelcomeStep DEF PartsInv
<1> QED
  BY <1>1, <1>2, <1>3 DEF PartsInv

-----------------------------------------------------------------------------
(* What has been mailed *)

Topics == {OtpTopic, WelcomeTopic}

\* Mailed events are in the log, and what is in the log is a payload.
LEMMA MailedInLog ==
    ASSUME PartsInv
    PROVE  /\ \A e \in mailed : e[1] \in Topics /\ e[2] \in 1..Len(log[e[1]])
           /\ \A t \in Topics : log[t] \in Seq(Payloads)
  BY Constants DEF PartsInv, ServiceP!IInv, ServiceP!TypeOK, ServiceP!Events, Topics

\* A publish appends to the log and mails nothing.
LEMMA PublishKeeps ==
    ASSUME PartsInv, NEW t \in Topics, NEW k \in Payloads, ServiceP!Publish(t, k)
    PROVE  /\ mailed' = mailed
           /\ log'[t] = Append(log[t], k) /\ \A u \in Topics \ {t} : log'[u] = log[u]
           /\ \A u \in Topics : Mailed(u)' = Mailed(u)
<1>1. log \in [Topics -> Seq(Payloads)]
  BY DEF PartsInv, ServiceP!IInv, ServiceP!TypeOK, Topics
<1>2. /\ mailed' = mailed
      /\ log'[t] = Append(log[t], k) /\ \A u \in Topics \ {t} : log'[u] = log[u]
  BY <1>1 DEF ServiceP!Publish, ServiceP!mails
<1>3. \A e \in mailed : log'[e[1]][e[2]] = log[e[1]][e[2]]
  BY <1>1, <1>2, MailedInLog
<1>4. \A u \in Topics : Mailed(u)' = Mailed(u)
  BY <1>2, <1>3 DEF Mailed
<1> QED
  BY <1>2, <1>4

\* A step of notification-service mails one event of the log, or none.
LEMMA ServiceMails ==
    ASSUME PartsInv, ServiceStep
    PROVE  \/ \A u \in Topics : Mailed(u)' = Mailed(u)
           \/ \E t \in Topics : \E i \in 1..Len(log[t]) :
                 /\ Mailed(t)' = Mailed(t) \cup {log[t][i]}
                 /\ \A u \in Topics \ {t} : Mailed(u)' = Mailed(u)
<1>1. ServiceP!IInv /\ ServiceP!Next /\ log' = log
  BY ServiceParts DEF PartsInv
<1>2. CASE mailed' = mailed
  BY <1>1, <1>2 DEF Mailed
<1>3. CASE loop = "handle" /\ mailed' = mailed \cup {current}
  <2>1. current \in ServiceP!Events
    BY <1>1, <1>3 DEF ServiceP!IInv, ServiceP!TypeOK
  <2>2. current[1] \in Topics /\ current[2] \in 1..Len(log[current[1]])
    BY <2>1, <1>1, Constants DEF ServiceP!IInv, ServiceP!TypeOK, ServiceP!Events, Topics
  <2>3. \A u : Mailed(u)' = Mailed(u) \cup (IF current[1] = u THEN {log[u][current[2]]} ELSE {})
    BY <1>1, <1>3 DEF Mailed
  <2> QED
    BY <2>2, <2>3
<1> QED
  BY <1>1, <1>2, <1>3, Constants, ServiceP!MailsOne

\* What has been mailed stays so.
LEMMA MailedGrows ==
    ASSUME PartsInv, SignupStep \/ ServiceStep
    PROVE  \A t \in Topics : Mailed(t) \subseteq Mailed(t)'
<1>1. ASSUME UNCHANGED service PROVE \A t \in Topics : Mailed(t) \subseteq Mailed(t)'
  BY <1>1 DEF service, Mailed
<1>2. CASE SignupStep
  <2>1. \A e \in Emails : WelcomeEvent(e) \in Payloads
    BY DEF WelcomeEvent, Payloads
  <2> QED
    BY <1>1, <1>2, <2>1, SignupParts, PublishKeeps DEF Topics
<1>3. CASE ServiceStep
  BY <1>3, ServiceMails
<1> QED
  BY <1>2, <1>3

-----------------------------------------------------------------------------
(* What the parts have to do with each other *)

\* The log holds only events of codes that were sent and of accounts VerifyOTP
\* created.
LogInv ==
    /\ \A i \in 1..Len(log[OtpTopic]) : \E s \in Sent : log[OtpTopic][i] = OtpEvent(s)
    /\ \A i \in 1..Len(log[WelcomeTopic]) : account[Address(log[WelcomeTopic][i])] = "otp"

\* A code that was found right was mailed.
CheckedInv == \A p \in Procs : pc[p] \in Using => CodeMailed(sid[p])

\* The log holds the event of every code that was sent, a welcome only of who was
\* welcomed, and neither twice.
DeliveredInv ==
    /\ \A s \in Sent : \E i \in 1..Len(log[OtpTopic]) : log[OtpTopic][i] = OtpEvent(s)
    /\ \A i \in 1..Len(log[WelcomeTopic]) : welcomes[Address(log[WelcomeTopic][i])] # 0
    /\ EventsOnce

IInv == PartsInv /\ LogInv /\ DeliveredInv /\ CheckedInv

\* The services start with empty stores and topics.
LEMMA InvInit == Init => IInv
<1> SUFFICES ASSUME Init PROVE IInv
  OBVIOUS
<1>1. SignupP!Init /\ ServiceP!Init
  BY SameSignup, SameService DEF Init
<1>2. SignupP!TypeOK /\ SignupP!SenderInv /\ SignupP!WelcomeInv
  <2>1. SignupP!TypeOK
    BY <1>1, Constants, SignupP!TypeInit
  <2> QED
    BY <1>1, <2>1 DEF SignupP!Init, SignupP!SenderInv, SignupP!Senders, SignupP!BeforePublish,
       SignupP!Unused, SignupP!WelcomeInv, SignupP!OneWelcome, SignupP!At
<1>3. ServiceP!IInv
  BY <1>1, Constants, ServiceP!InvInit
<1>4. LogInv
  BY <1>1 DEF ServiceP!Init, LogInv
<1>5. CheckedInv
  BY <1>1 DEF SignupP!Init, CheckedInv, Using
<1>6. DeliveredInv
  BY <1>1 DEF SignupP!Init, ServiceP!Init, DeliveredInv, EventsOnce, Sent
<1> QED
  BY <1>2, <1>3, <1>4, <1>5, <1>6 DEF IInv, PartsInv

\* What user-service appends to the log is what it has just done, and later
\* steps do not undo it.
LEMMA SignupKeepsLog ==
    ASSUME IInv, SignupStep
    PROVE  LogInv'
<1>1. Keeps /\ PartsInv /\ PartsInv' /\ LogInv
  BY SignupParts, SignupEffects DEF IInv, PartsInv
<1>2. \A i \in 1..Len(log[OtpTopic]) :
         \E s \in Sent' : log[OtpTopic][i] = OtpEvent(s) /\ owner'[s] = owner[s]
  BY <1>1 DEF LogInv, Keeps, Sent
<1>3. \A i \in 1..Len(log[WelcomeTopic]) : account'[Address(log[WelcomeTopic][i])] = "otp"
  <2>1. \A i \in 1..Len(log[WelcomeTopic]) : Address(log[WelcomeTopic][i]) \in Emails
    BY <1>1, MailedInLog DEF Topics, Payloads, Address
  <2> QED
    BY <1>1, <2>1 DEF LogInv, Keeps
<1>4. CASE UNCHANGED service
  BY <1>2, <1>3, <1>4 DEF LogInv, service, OtpEvent
<1>5. ASSUME NEW s \in Sent' \ Sent, OtpEvent(s) \in Payloads,
             ServiceP!Publish(OtpTopic, OtpEvent(s))
      PROVE  LogInv'
  <2>1. log'[OtpTopic] = Append(log[OtpTopic], OtpEvent(s)) /\ log'[WelcomeTopic] = log[WelcomeTopic]
    BY <1>1, <1>5, PublishKeeps DEF Topics, OtpTopic, WelcomeTopic
  <2>2. owner' = owner
    BY <1>1, <1>5 DEF Keeps
  <2>3. log[OtpTopic] \in Seq(Payloads)
    BY <1>1, MailedInLog DEF Topics
  <2> QED
    BY <1>2, <1>3, <1>5, <2>1, <2>2, <2>3 DEF LogInv, OtpEvent
<1>6. ASSUME NEW e \in Emails, welcomes'[e] # welcomes[e],
             ServiceP!Publish(WelcomeTopic, WelcomeEvent(e))
      PROVE  LogInv'
  <2>1. WelcomeEvent(e) \in Payloads
    BY DEF WelcomeEvent, Payloads
  <2>2. /\ log'[WelcomeTopic] = Append(log[WelcomeTopic], WelcomeEvent(e))
        /\ log'[OtpTopic] = log[OtpTopic]
    BY <1>1, <1>6, <2>1, PublishKeeps DEF Topics, OtpTopic, WelcomeTopic
  <2>3. account'[e] = "otp"
    BY <1>1, <1>6 DEF Keeps
  <2>4. log[WelcomeTopic] \in Seq(Payloads)
    BY <1>1, MailedInLog DEF Topics
  <2> QED
    BY <1>2, <1>3, <2>1, <2>2, <2>3, <2>4 DEF LogInv, OtpEvent, WelcomeEvent, Address
<1> QED
  BY <1>1, <1>4, <1>5, <1>6, SignupParts

\* A publish appends an event of its own.
LEMMA AppendsOnce ==
    ASSUME PartsInv, EventsOnce, NEW t \in Topics, NEW k \in Payloads, ServiceP!Publish(t, k),
           \A i \in 1..Len(log[t]) : log[t][i] # k
    PROVE  EventsOnce'
<1>1. /\ log'[t] = Append(log[t], k) /\ \A u \in Topics \ {t} : log'[u] = log[u]
      /\ log[t] \in Seq(Payloads)
  BY PublishKeeps, MailedInLog
<1>2. \A i, j \in 1..Len(log'[t]) : log'[t][i] = log'[t][j] => i = j
  <2>1. \A i, j \in 1..Len(log[t]) : log[t][i] = log[t][j] => i = j
    BY DEF EventsOnce, Topics
  <2>2. Len(log'[t]) = Len(log[t]) + 1 /\ log'[t][Len(log[t]) + 1] = k
    BY <1>1
  <2>3. \A i \in 1..Len(log[t]) : log'[t][i] = log[t][i]
    BY <1>1
  <2>4. Len(log[t]) \in Nat
    BY <1>1
  <2> SUFFICES ASSUME NEW i \in 1..Len(log'[t]), NEW j \in 1..Len(log'[t]), log'[t][i] = log'[t][j]
               PROVE  i = j
    OBVIOUS
  <2>5. /\ i \in 1..Len(log[t]) \/ i = Len(log[t]) + 1
        /\ j \in 1..Len(log[t]) \/ j = Len(log[t]) + 1
    BY <2>2, <2>4
  <2>6. CASE i \in 1..Len(log[t]) /\ j \in 1..Len(log[t])
    BY <2>1, <2>3, <2>6
  <2>7. CASE i \in 1..Len(log[t]) /\ j = Len(log[t]) + 1
    BY <2>2, <2>3, <2>7
  <2>8. CASE i = Len(log[t]) + 1 /\ j \in 1..Len(log[t])
    BY <2>2, <2>3, <2>8
  <2> QED
    BY <2>5, <2>6, <2>7, <2>8
<1>3. ASSUME NEW u \in {OtpTopic, WelcomeTopic}
      PROVE  \A i, j \in 1..Len(log'[u]) : log'[u][i] = log'[u][j] => i = j
  <2>1. CASE u = t
    BY <1>2, <2>1
  <2>2. CASE u # t
    <3>1. log'[u] = log[u]
      BY <1>1, <1>3, <2>2 DEF Topics
    <3> QED
      BY <1>3, <3>1 DEF EventsOnce
  <2> QED
    BY <2>1, <2>2
<1> QED
  BY <1>3 DEF EventsOnce

\* What is published is new to its topic.
LEMMA SignupKeepsDelivered ==
    ASSUME IInv, SignupStep
    PROVE  DeliveredInv'
<1>1. Keeps /\ Publishes /\ PartsInv /\ LogInv /\ DeliveredInv
  BY SignupParts, SignupEffects DEF IInv, PartsInv
<1>2. \A e \in Emails : welcomes[e] # 0 => welcomes'[e] # 0
  BY <1>1 DEF Publishes
<1>3. \A i \in 1..Len(log[WelcomeTopic]) :
         LET e == Address(log[WelcomeTopic][i]) IN
         e \in Emails /\ welcomes[e] # 0 /\ welcomes'[e] # 0
  BY <1>1, <1>2, MailedInLog DEF Topics, Payloads, Address, DeliveredInv
<1>4. \A s \in Sent : OtpEvent(s)' = OtpEvent(s)
  BY <1>1 DEF Keeps, OtpEvent
<1>5. CASE UNCHANGED service /\ Sent' = Sent
  BY <1>1, <1>3, <1>4, <1>5 DEF DeliveredInv, EventsOnce, service
<1>6. ASSUME NEW s \in Sent' \ Sent, OtpEvent(s) \in Payloads,
             ServiceP!Publish(OtpTopic, OtpEvent(s))
      PROVE  DeliveredInv'
  <2>1. /\ log'[OtpTopic] = Append(log[OtpTopic], OtpEvent(s))
        /\ log'[WelcomeTopic] = log[WelcomeTopic] /\ log[OtpTopic] \in Seq(Payloads)
    BY <1>1, <1>6, PublishKeeps, MailedInLog DEF Topics, OtpTopic, WelcomeTopic
  <2>2. Sent' = Sent \cup {s} /\ OtpEvent(s)' = OtpEvent(s)
    BY <1>1, <1>6 DEF Publishes, Keeps, OtpEvent
  <2>3. \A i \in 1..Len(log[OtpTopic]) : log[OtpTopic][i] # OtpEvent(s)
    BY <1>1, <1>6 DEF LogInv, OtpEvent
  <2>4. EventsOnce'
    BY <1>1, <1>6, <2>3, AppendsOnce DEF Topics, DeliveredInv
  <2>5. \A r \in Sent : \E i \in 1..Len(log'[OtpTopic]) : log'[OtpTopic][i] = OtpEvent(r)'
    BY <1>1, <1>4, <2>1 DEF DeliveredInv
  <2>6. \E i \in 1..Len(log'[OtpTopic]) : log'[OtpTopic][i] = OtpEvent(s)'
    BY <2>1, <2>2
  <2> QED
    BY <1>3, <2>1, <2>2, <2>4, <2>5, <2>6 DEF DeliveredInv
<1>7. ASSUME NEW e \in Emails, welcomes'[e] # welcomes[e],
             ServiceP!Publish(WelcomeTopic, WelcomeEvent(e))
      PROVE  DeliveredInv'
  <2>1. WelcomeEvent(e) \in Payloads /\ Address(WelcomeEvent(e)) = e
    BY DEF WelcomeEvent, Payloads, Address
  <2>2. /\ log'[WelcomeTopic] = Append(log[WelcomeTopic], WelcomeEvent(e))
        /\ log'[OtpTopic] = log[OtpTopic] /\ log[WelcomeTopic] \in Seq(Payloads)
    BY <1>1, <1>7, <2>1, PublishKeeps, MailedInLog DEF Topics, OtpTopic, WelcomeTopic
  <2>3. Sent' = Sent /\ welcomes[e] = 0 /\ welcomes'[e] # 0
    BY <1>1, <1>7 DEF Publishes, Keeps, Sent
  <2>4. \A i \in 1..Len(log[WelcomeTopic]) : log[WelcomeTopic][i] # WelcomeEvent(e)
    BY <1>3, <2>1, <2>3
  <2>5. EventsOnce'
    BY <1>1, <1>7, <2>1, <2>4, AppendsOnce DEF Topics, DeliveredInv
  <2>6. \A i \in 1..Len(log'[WelcomeTopic]) : welcomes'[Address(log'[WelcomeTopic][i])] # 0
    BY <1>3, <2>1, <2>2, <2>3
  <2> QED
    BY <1>1, <1>4, <2>2, <2>3, <2>5, <2>6 DEF DeliveredInv, Address
<1> QED
  BY <1>1, <1>5, <1>6, <1>7, SignupParts

\* A handler past the check has had its code in the mail before it.
LEMMA SignupKeepsChecked ==
    ASSUME IInv, SignupStep
    PROVE  CheckedInv'
<1>1. Keeps /\ PartsInv /\ PartsInv' /\ CheckedInv
  BY SignupParts, SignupEffects DEF IInv, PartsInv
<1>2. Mailed(OtpTopic) \subseteq Mailed(OtpTopic)'
  BY <1>1, MailedGrows DEF Topics
<1> SUFFICES ASSUME NEW p \in Procs, pc'[p] \in Using PROVE CodeMailed(sid[p])'
  BY DEF CheckedInv
<1>3. sid'[p] = sid[p] /\ CodeMailed(sid[p])
  BY <1>1 DEF Keeps, CheckedInv, SignupStep, CodesAreSecret
<1>4. owner'[sid[p]] = owner[sid[p]]
  <2>1. PICK e \in mailed : e[1] = OtpTopic /\ OtpEvent(sid[p]) = log[OtpTopic][e[2]]
    BY <1>3 DEF CodeMailed, Mailed
  <2>2. e[2] \in 1..Len(log[OtpTopic])
    BY <1>1, <2>1, MailedInLog
  <2>3. PICK s \in Sent : OtpEvent(sid[p]) = OtpEvent(s)
    BY <2>1, <2>2 DEF IInv, LogInv
  <2>4. s = sid[p]
    BY <2>3 DEF OtpEvent
  <2> QED
    BY <1>1, <2>4 DEF Keeps
<1> QED
  BY <1>2, <1>3, <1>4 DEF CodeMailed, OtpEvent

\* What was delivered depends on the topics and on what user-service sent alone.
LEMMA SameDelivered ==
    ASSUME DeliveredInv, UNCHANGED <<log, welcomes, owner, event>>
    PROVE  DeliveredInv'
<1>1. EventsOnce'
  BY DEF DeliveredInv, EventsOnce
<1>2. Sent' = Sent
  BY DEF Sent
<1>3. \A s \in Sent : \E i \in 1..Len(log'[OtpTopic]) : log'[OtpTopic][i] = OtpEvent(s)'
  BY DEF DeliveredInv, OtpEvent
<1>4. \A i \in 1..Len(log'[WelcomeTopic]) : welcomes'[Address(log'[WelcomeTopic][i])] # 0
  BY DEF DeliveredInv
<1> QED
  BY <1>1, <1>2, <1>3, <1>4 DEF DeliveredInv, Address

\* Every step of either service keeps the invariant.
LEMMA InvStep == IInv /\ [Next]_vars => IInv'
<1> SUFFICES ASSUME IInv, [Next]_vars PROVE IInv'
  OBVIOUS
<1>1. CASE SignupStep
  BY <1>1, SignupParts, SignupKeepsLog, SignupKeepsDelivered, SignupKeepsChecked DEF IInv
<1>2. CASE ServiceStep
  <2>1. PartsInv' /\ UNCHANGED <<signup, log>>
    BY <1>2, ServiceParts DEF IInv
  <2>2. LogInv'
    BY <2>1 DEF IInv, LogInv, signup, Sent, OtpEvent
  <2>3. CheckedInv'
    BY <1>2, <2>1, MailedGrows DEF IInv, CheckedInv, CodeMailed, OtpEvent, signup, Topics
  <2>4. DeliveredInv'
    <3>1. UNCHANGED <<log, welcomes, owner, event>>
      BY <2>1 DEF signup
    <3> QED
      BY <3>1, SameDelivered DEF IInv
  <2> QED
    BY <2>1, <2>2, <2>3, <2>4 DEF IInv
<1>3. CASE UNCHANGED vars
  <2>1. UNCHANGED <<SignupP!vars, ServiceP!vars>>
    BY <1>3 DEF vars, signup, service, SignupP!vars, SignupP!local, SignupP!sessions, SignupP!rates,
       SignupP!tries, SignupP!effects, ServiceP!vars, ServiceP!broker, ServiceP!process,
       ServiceP!reader, ServiceP!mails
  <2>2. PartsInv'
    BY <2>1, Constants, SignupP!TypeStep, SignupP!SenderStep, SignupP!WelcomeStep, ServiceP!InvStep
       DEF IInv, PartsInv
  <2>3. LogInv' /\ CheckedInv'
    BY <1>3 DEF vars, signup, service, IInv, LogInv, CheckedInv, CodeMailed, OtpEvent, Mailed, Sent
  <2>4. DeliveredInv'
    <3>1. UNCHANGED <<log, welcomes, owner, event>>
      BY <1>3 DEF vars, signup, service
    <3> QED
      BY <3>1, SameDelivered DEF IInv
  <2> QED
    BY <2>2, <2>3, <2>4 DEF IInv
<1> QED
  BY <1>1, <1>2, <1>3 DEF Next

\* The invariant holds throughout.
LEMMA Invariance == Spec => []IInv
  BY InvInit, InvStep, PTL DEF Spec

-----------------------------------------------------------------------------
(* Theorems *)

\* A step of user-service takes the journey of one address on, by making its
\* account, or leaves it where it is.
LEMMA SignupTravels ==
    ASSUME IInv, SignupStep
    PROVE  Journey!Next \/ UNCHANGED Journey!vars
<1>1. Creates /\ PartsInv /\ CheckedInv /\ LogInv
  BY SignupParts, SignupEffects DEF IInv, PartsInv
<1>2. \A t \in Topics : Mailed(t)' = Mailed(t)
  <2>1. CASE UNCHANGED service
    BY <2>1 DEF service, Mailed
  <2>2. \A e \in Emails : WelcomeEvent(e) \in Payloads
    BY DEF WelcomeEvent, Payloads
  <2> QED
    BY <1>1, <2>1, <2>2, SignupParts, PublishKeeps DEF Topics
<1>3. /\ {Address(k) : k \in Mailed(OtpTopic)}' = {Address(k) : k \in Mailed(OtpTopic)}
      /\ {Address(k) : k \in Mailed(WelcomeTopic)}' = {Address(k) : k \in Mailed(WelcomeTopic)}
  BY <1>2 DEF Topics, Address
<1>4. CASE account' = account
  BY <1>3, <1>4 DEF Journey!vars
<1>5. ASSUME NEW e \in Emails, account[e] = "none", account' = [account EXCEPT ![e] = "google"]
      PROVE  Journey!Next
  BY <1>3, <1>5 DEF Journey!Next, Journey!Create
<1>6. ASSUME NEW p \in Procs, pc[p] = "verifyCreate", account[email[p]] = "none",
             account' = [account EXCEPT ![email[p]] = "otp"]
      PROVE  Journey!Next
  <2>1. email[p] \in Emails /\ owner[sid[p]] = email[p]
    BY <1>1, <1>6 DEF PartsInv, SignupP!TypeOK
  <2>2. OtpEvent(sid[p]) \in Mailed(OtpTopic)
    BY <1>1, <1>6 DEF CheckedInv, Using, CodeMailed
  <2>3. email[p] \in {Address(k) : k \in Mailed(OtpTopic)}
    BY <2>1, <2>2 DEF OtpEvent, Address
  <2> QED
    BY <1>3, <1>6, <2>1, <2>3 DEF Journey!Next, Journey!Create
<1> QED
  BY <1>1, <1>4, <1>5, <1>6 DEF Creates

\* A step of notification-service mails one address its code or its welcome, or
\* one it has mailed already.
LEMMA ServiceTravels ==
    ASSUME IInv, ServiceStep
    PROVE  Journey!Next \/ UNCHANGED Journey!vars
<1>1. PartsInv /\ LogInv /\ account' = account
  BY ServiceParts DEF IInv, signup
<1>2. CASE \A u \in Topics : Mailed(u)' = Mailed(u)
  BY <1>1, <1>2 DEF Topics, Address, Journey!vars
<1>3. ASSUME NEW t \in Topics, NEW i \in 1..Len(log[t]), Mailed(t)' = Mailed(t) \cup {log[t][i]},
             \A u \in Topics \ {t} : Mailed(u)' = Mailed(u)
      PROVE  Journey!Next
  <2> DEFINE e == Address(log[t][i])
  <2>1. e \in Emails
    BY <1>1, MailedInLog DEF Payloads, Address
  <2>2. CASE t = OtpTopic
    <3>1. /\ {Address(k) : k \in Mailed(OtpTopic)}' = {Address(k) : k \in Mailed(OtpTopic)} \cup {e}
          /\ {Address(k) : k \in Mailed(WelcomeTopic)}' = {Address(k) : k \in Mailed(WelcomeTopic)}
      BY <1>3, <2>2 DEF Topics, Address, OtpTopic, WelcomeTopic
    <3> QED
      BY <1>1, <2>1, <3>1 DEF Journey!Next, Journey!MailCode
  <2>3. CASE t = WelcomeTopic
    <3>1. /\ {Address(k) : k \in Mailed(WelcomeTopic)}'
               = {Address(k) : k \in Mailed(WelcomeTopic)} \cup {e}
          /\ {Address(k) : k \in Mailed(OtpTopic)}' = {Address(k) : k \in Mailed(OtpTopic)}
      BY <1>3, <2>3 DEF Topics, Address, OtpTopic, WelcomeTopic
    <3>2. account[e] = "otp"
      BY <1>1, <2>3 DEF LogInv
    <3> QED
      BY <1>1, <2>1, <3>1, <3>2 DEF Journey!Next, Journey!MailWelcome
  <2> QED
    BY <2>2, <2>3 DEF Topics
<1> QED
  BY <1>1, <1>2, <1>3, ServiceMails

\* The two services together keep the promise of SignupJourney, whatever fails
\* in either: no account is made of a code that was not mailed, and nobody is
\* welcomed without an account (handler.go:136-182, verify_otp_email.go:16-45).
THEOREM Refinement == Spec => ImplementsJourney
<1>1. Init => Journey!Init
  <2> SUFFICES ASSUME Init PROVE Journey!Init
    OBVIOUS
  <2>1. mailed = {} /\ account = [e \in Emails |-> "none"]
    BY DEF Init, Signup!Init, Service!Init
  <2> QED
    BY <2>1 DEF Journey!Init, Mailed
<1>2. IInv /\ [Next]_vars => [Journey!Next]_(Journey!vars)
  <2>1. UNCHANGED vars => UNCHANGED Journey!vars
    BY DEF vars, signup, service, Journey!vars, Mailed, Address
  <2> QED
    BY <2>1, SignupTravels, ServiceTravels DEF Next
<1> QED
  BY <1>1, <1>2, Invariance, PTL DEF Spec, ImplementsJourney, Journey!Spec

\* Whatever fails and whenever either service dies, an acknowledged code is in
\* the topic, and mailed before the consumer group passes it: nothing SendOTP
\* answered for is lost on the way (handler.go:104-125, kafka.go:271-279).
THEOREM AcknowledgedStay == Spec => []AcknowledgedNotLost
<1>1. IInv => AcknowledgedNotLost
  <2> SUFFICES ASSUME IInv, NEW s \in Sessions, reply[s] = "ok"
               PROVE  \E i \in 1..Len(log[OtpTopic]) :
                          /\ log[OtpTopic][i] = OtpEvent(s)
                          /\ i <= committed[OtpTopic] => CodeMailed(s)
    BY DEF AcknowledgedNotLost
  <2>1. PICK i \in 1..Len(log[OtpTopic]) : log[OtpTopic][i] = OtpEvent(s)
    BY DEF IInv, PartsInv, SignupP!SenderInv, DeliveredInv, Sent
  <2>2. ASSUME i <= committed[OtpTopic] PROVE CodeMailed(s)
    <3>1. committed[OtpTopic] \in Nat /\ ServiceP!NoSilentSkip
      BY Constants, ServiceP!CommittedMailed DEF IInv, PartsInv, ServiceP!IInv, ServiceP!TypeOK
    <3>2. <<OtpTopic, i>> \in mailed
      BY <2>2, <3>1 DEF ServiceP!NoSilentSkip
    <3> QED
      BY <2>1, <3>2 DEF CodeMailed, Mailed
  <2> QED
    BY <2>1, <2>2
<1> QED
  BY <1>1, Invariance, PTL

\* Neither topic holds an event twice: a second mail for a code or an account is
\* a redelivery (kafka.go:53, handler.go:165-170).
THEOREM EventsAreSingle == Spec => []EventsOnce
<1>1. IInv => EventsOnce
  BY DEF IInv, DeliveredInv
<1> QED
  BY <1>1, Invariance, PTL
=============================================================================
