--------------------- MODULE NotificationConsumerProofs ---------------------
(* Theorems about NotificationConsumer, for any topics, events and faults. *)
EXTENDS NotificationConsumer, TLAPS

Offsets == [Topics -> Nat]

\* What TypeOK leaves open, and the committed offset behind the stored one also
\* while the service is down.
Shape ==
    /\ committed \in Offsets /\ stored \in Offsets /\ pos \in Offsets
    /\ \A t \in Topics : committed[t] <= stored[t]

\* Everything before the stored offset was mailed.
StoredMailed == \A t \in Topics : \A i \in 1..stored[t] : <<t, i>> \in mailed

\* The loop is at the stored offsets, or one event ahead in one topic.
InHand ==
    /\ loop = "poll" => pos = stored
    /\ loop \in {"handle", "store"} =>
          /\ current[2] = stored[Topic(current)] + 1
          /\ pos = [stored EXCEPT ![Topic(current)] = current[2]]
    /\ loop = "store" => current \in mailed

\* While the loop turns, what was mailed since the partitions were assigned is
\* behind the stored offset, but for an event that is about to be stored.
RecentStored ==
    loop # "returned" =>
        \A e \in recent : e[2] <= stored[Topic(e)] \/ (loop = "store" /\ e = current)

IInv == TypeOK /\ Shape /\ StoredMailed /\ InHand /\ RecentStored

-----------------------------------------------------------------------------
(* The mailer *)

\* SendEmail returns nil only for a mail the provider took.
LEMMA NilIsTaken ==
    ASSUME NEW answer \in Answers, SendEmail(answer) = "nil"
    PROVE  answer.taken
BY DEF Answers, SendEmail

-----------------------------------------------------------------------------
(* The inductive invariant *)

\* It holds at the start.
LEMMA InvInit == Init => IInv
<1> SUFFICES ASSUME Init PROVE IInv
  OBVIOUS
<1>1. log \in [Topics -> Seq(Kinds)] /\ \A t \in Topics : log[t] = <<>> /\ Len(log[t]) = 0
  BY DEF Init
<1>2. \A t \in Topics : committed[t] = 0 /\ stored[t] = 0 /\ pos[t] = 0
  BY DEF Init
<1>3. TypeOK
  <2>1. /\ \A t \in Topics : Len(log[t]) <= MaxLog /\ pos[t] <= Len(log[t])
        /\ \A t \in Topics : committed[t] <= stored[t] /\ stored[t] <= pos[t]
    BY <1>1, <1>2, ConsumerConstants
  <2>2. /\ up = "running" /\ cancelled = FALSE /\ joined = TRUE /\ loop = "poll"
        /\ current = NoEvent /\ mailed = {} /\ recent = {}
    BY DEF Init
  <2>3. \A t \in Topics : committed[t] \in Nat /\ stored[t] \in Nat /\ pos[t] \in Nat
    BY <1>2
  <2>4. /\ mailed \subseteq Events /\ recent \subseteq mailed /\ current \in Events \cup {NoEvent}
        /\ cancelled \in BOOLEAN /\ joined \in BOOLEAN /\ loop \notin {"handle", "store"}
    BY <2>2
  <2>5. log \in [Topics -> Seq(Kinds)]
    BY <1>1
  <2>6. up \in {"running", "closing", "closed", "down"} /\ loop \in {"poll", "handle", "store", "returned"}
    BY <2>2
  <2> QED
    BY <2>1, <2>3, <2>4, <2>5, <2>6 DEF TypeOK
<1> QED
  BY <1>3 DEF Init, IInv, Shape, Offsets, StoredMailed, InHand, RecentStored

\* The events of a longer log include those of the log.
LEMMA EventsGrow ==
    ASSUME TypeOK, NEW t \in Topics, NEW k \in Kinds, Publish(t, k)
    PROVE  /\ log' \in [Topics -> Seq(Kinds)]
           /\ \A u \in Topics : /\ Len(log[u]) \in Nat /\ Len(log'[u]) \in Nat
                               /\ Len(log[u]) <= Len(log'[u]) /\ Len(log'[u]) <= MaxLog
           /\ Events \subseteq Events'
BY ConsumerConstants DEF TypeOK, Publish, Events

\* The event that is being handled: its topic and its place in the log.
LEMMA InHandIsEvent ==
    ASSUME IInv, loop \in {"handle", "store"}
    PROVE  /\ current \in Events /\ Topic(current) \in Topics
           /\ current = <<Topic(current), stored[Topic(current)] + 1>>
           /\ pos[Topic(current)] = stored[Topic(current)] + 1
           /\ \A t \in Topics \ {Topic(current)} : pos[t] = stored[t]
BY ConsumerConstants DEF IInv, TypeOK, Shape, Offsets, InHand, Events, Topic

\* A step that touches neither mails nor offsets and leaves the loop where it is,
\* or ends it, keeps the invariant.
LEMMA QuietStep ==
    ASSUME IInv, UNCHANGED <<log, mails, pos, stored>>,
           up' \in {"running", "closing", "closed", "down"},
           cancelled' \in BOOLEAN, joined' \in BOOLEAN,
           committed' \in {committed, stored},
           \/ loop' = "returned" /\ current' \in {current, NoEvent}
           \/ UNCHANGED <<loop, current>>
    PROVE  IInv'
<1> USE DEF mails
<1>1. Events' = Events
  BY DEF Events
<1>2. Shape'
  BY DEF IInv, Shape, Offsets
<1>3. TypeOK'
  BY <1>1, <1>2 DEF IInv, TypeOK, Shape
<1>4. StoredMailed' /\ InHand' /\ RecentStored'
  BY DEF IInv, StoredMailed, InHand, RecentStored
<1> QED
  BY <1>2, <1>3, <1>4 DEF IInv

\* Poll hands the next event over.
LEMMA PollStep ==
    ASSUME IInv, NEW t \in Topics, PollEvent(t)
    PROVE  IInv'
<1> USE DEF PollEvent, broker, process, mails, Topic
<1>1. pos = stored /\ pos[t] \in Nat /\ stored \in Offsets
  BY DEF IInv, InHand, Shape, Offsets
<1>2. current' = <<t, stored[t] + 1>> /\ pos' = [stored EXCEPT ![t] = stored[t] + 1]
  BY <1>1 DEF Offsets
<1>3. current' \in Events'
  BY <1>1, <1>2, ConsumerConstants DEF IInv, TypeOK, Events
<1>4. TypeOK'
  BY <1>1, <1>2, <1>3 DEF IInv, TypeOK, Events, Offsets
<1>5. Shape' /\ StoredMailed'
  BY <1>1, <1>2 DEF IInv, Shape, Offsets, StoredMailed
<1>6. InHand'
  BY <1>1, <1>2 DEF InHand, Offsets
<1>7. RecentStored'
  BY DEF IInv, RecentStored
<1> QED
  BY <1>4, <1>5, <1>6, <1>7 DEF IInv

\* A mail that went out, whether SendEmail said so or not.
LEMMA MailStep ==
    ASSUME IInv, loop = "handle", NEW answer \in Answers, Mails(answer),
           UNCHANGED <<broker, process, pos, stored>>,
           \/ loop' = "store" /\ current' = current /\ answer.taken
           \/ loop' = "returned" /\ current' = NoEvent
    PROVE  IInv'
<1> USE DEF Mails, broker, process
<1>1. current \in Events /\ current = <<Topic(current), stored[Topic(current)] + 1>>
  BY InHandIsEvent
<1>2. /\ mailed \subseteq mailed' /\ mailed' \subseteq mailed \cup {current}
      /\ recent' \subseteq recent \cup {current} /\ recent' \subseteq mailed'
  BY DEF IInv, TypeOK
<1>3. Events' = Events
  BY DEF Events
<1>4. TypeOK'
  BY <1>1, <1>2, <1>3 DEF IInv, TypeOK
<1>5. Shape' /\ StoredMailed'
  BY <1>2 DEF IInv, Shape, Offsets, StoredMailed
<1>6. InHand'
  BY DEF IInv, InHand, Topic
<1>7. RecentStored'
  BY <1>2 DEF IInv, RecentStored, Topic
<1> QED
  BY <1>4, <1>5, <1>6, <1>7 DEF IInv

\* The offset of the event in hand is stored, or cannot be any more.
LEMMA StoreStep ==
    ASSUME IInv, Store
    PROVE  IInv'
<1> USE DEF Store, broker, process, mails
<1>1. /\ Topic(current) \in Topics /\ current \in Events
      /\ current = <<Topic(current), stored[Topic(current)] + 1>>
      /\ pos = [stored EXCEPT ![Topic(current)] = current[2]]
  BY InHandIsEvent DEF IInv, InHand
<1>2. CASE Open /\ StoreOne(Topic(current), current[2]) /\ loop' = "poll"
  <2>1. stored' = [stored EXCEPT ![Topic(current)] = current[2]] /\ loop' = "poll"
    BY <1>2 DEF StoreOne
  <2>2. stored' = pos /\ stored \in Offsets /\ pos \in Offsets
    BY <1>1, <2>1 DEF IInv, Shape
  <2>3. TypeOK'
    BY <1>2, <2>1, <2>2 DEF IInv, TypeOK, Shape, Offsets, Events, NoEvent
  <2>4. Shape'
    BY <1>1, <2>2 DEF IInv, Shape, TypeOK, Offsets
  <2>5. StoredMailed'
    <3> SUFFICES ASSUME NEW t \in Topics, NEW i \in 1..stored'[t] PROVE <<t, i>> \in mailed
      BY DEF StoredMailed
    <3>1. CASE t # Topic(current)
      BY <1>1, <2>2, <3>1 DEF IInv, StoredMailed, Offsets
    <3>2. CASE t = Topic(current)
      <4>1. current \in mailed /\ stored[t] \in Nat /\ stored'[t] = stored[t] + 1
        BY <1>1, <2>1, <2>2, <3>2 DEF IInv, InHand, Offsets
      <4>2. CASE i \in 1..stored[t]
        BY <4>2 DEF IInv, StoredMailed
      <4>3. CASE i = stored[t] + 1
        BY <1>1, <3>2, <4>1, <4>3
      <4> QED
        BY <4>1, <4>2, <4>3
    <3> QED
      BY <3>1, <3>2
  <2>6. InHand'
    BY <2>1, <2>2 DEF InHand
  <2>7. RecentStored'
    <3> SUFFICES ASSUME NEW e \in recent PROVE e[2] <= stored'[Topic(e)]
      BY <2>1 DEF RecentStored
    <3>1. e \in Events /\ Topic(e) \in Topics /\ e[2] \in Nat
      BY DEF IInv, TypeOK, Events, Topic
    <3>2. CASE e = current
      BY <1>1, <2>1, <2>2, <3>1, <3>2 DEF Offsets
    <3>3. CASE e[2] <= stored[Topic(e)]
      BY <1>1, <2>2, <3>1, <3>3 DEF IInv, TypeOK, Offsets
    <3> QED
      BY <3>2, <3>3 DEF IInv, RecentStored
  <2> QED
    BY <2>3, <2>4, <2>5, <2>6, <2>7 DEF IInv
<1>3. CASE UNCHANGED stored /\ loop' = "returned"
  BY <1>3, QuietStep DEF mails, IInv, TypeOK
<1> QED
  BY <1>2, <1>3

\* The partitions are assigned, to a new process or to a client that lost them,
\* and taken up where the group committed.
LEMMA AssignStep ==
    ASSUME IInv, UNCHANGED <<broker, mailed>>, pos' = committed, stored' = committed,
           recent' = {}, current' \in {current, NoEvent}, loop' = "poll", joined' = TRUE,
           up' \in {"running", "closing", "closed", "down"}, cancelled' \in BOOLEAN
    PROVE  IInv'
<1> USE DEF broker
<1>0. Events' = Events
  BY DEF Events
<1>1. TypeOK'
  <2>1. \A t \in Topics : /\ committed[t] \in Nat /\ stored[t] \in Nat
                         /\ pos[t] \in Nat /\ Len(log[t]) \in Nat
                         /\ committed[t] <= stored[t] /\ stored[t] <= pos[t] /\ pos[t] <= Len(log[t])
    BY DEF IInv, TypeOK, Shape
  <2>2. /\ \A t \in Topics : /\ committed'[t] \in Nat /\ stored'[t] \in Nat
                            /\ pos'[t] \in Nat /\ pos'[t] <= Len(log[t])
                            /\ committed'[t] <= stored'[t] /\ stored'[t] <= pos'[t]
    BY <2>1
  <2> QED
    BY <1>0, <2>2 DEF IInv, TypeOK
<1>2. Shape' /\ InHand' /\ RecentStored'
  BY DEF IInv, Shape, Offsets, InHand, RecentStored
<1>3. StoredMailed'
  <2>1. \A t \in Topics : 1..committed[t] \subseteq 1..stored[t]
    BY DEF IInv, Shape, Offsets
  <2> QED
    BY <2>1 DEF IInv, StoredMailed
<1> QED
  BY <1>1, <1>2, <1>3 DEF IInv

\* Every step keeps the invariant.
LEMMA InvStep == IInv /\ [Next]_vars => IInv'
<1> SUFFICES ASSUME IInv, [Next]_vars PROVE IInv'
  OBVIOUS
<1> USE DEF process, mails, broker, reader
<1>1. CASE LoopReturn
  BY <1>1, QuietStep DEF LoopReturn, IInv, TypeOK
<1>2. ASSUME NEW t \in Topics, PollEvent(t) PROVE IInv'
  BY <1>2, PollStep
<1>3. CASE HandleReject
  BY <1>3, QuietStep DEF HandleReject, IInv, TypeOK
<1>4. CASE Store
  BY <1>4, StoreStep
<1>5. CASE HandleMail
  <2>1. PICK answer \in Answers : SendEmail(answer) = "nil" /\ Mails(answer)
    BY <1>5 DEF HandleMail
  <2> QED
    BY <1>5, <2>1, NilIsTaken, MailStep DEF HandleMail
<1>6. CASE HandleMailError
  <2>1. PICK answer \in Answers : Mails(answer)
    BY <1>6 DEF HandleMailError, MailError
  <2> QED
    BY <1>6, <2>1, MailStep DEF HandleMailError, MailError
<1>7. CASE PollFatal
  BY <1>7, QuietStep DEF PollFatal, IInv, TypeOK
<1>8. CASE AutoCommit
  BY <1>8, QuietStep DEF AutoCommit, IInv, TypeOK
<1>9. CASE MainConsumerDone \/ MainStop
  BY <1>9, QuietStep DEF MainConsumerDone, MainStop, IInv, TypeOK
<1>10. CASE MainClose
  BY <1>10, QuietStep DEF MainClose, IInv, TypeOK
<1>11. CASE Exit
  BY <1>11, QuietStep DEF Exit, IInv, TypeOK
<1>12. CASE Restart
  BY <1>12, AssignStep DEF Restart
<1>13. ASSUME NEW t \in Topics, NEW k \in Kinds, Publish(t, k) PROVE IInv'
  <2>1. TypeOK'
    <3>1. /\ log' \in [Topics -> Seq(Kinds)] /\ Events \subseteq Events'
          /\ \A u \in Topics : /\ Len(log[u]) \in Nat /\ Len(log'[u]) \in Nat
                              /\ Len(log[u]) <= Len(log'[u]) /\ Len(log'[u]) <= MaxLog
      BY <1>13, EventsGrow DEF IInv
    <3>2. \A u \in Topics : pos[u] <= Len(log'[u])
      BY <3>1 DEF IInv, TypeOK
    <3> QED
      BY <1>13, <3>1, <3>2 DEF Publish, IInv, TypeOK
  <2>2. Shape' /\ StoredMailed' /\ InHand' /\ RecentStored'
    BY <1>13 DEF Publish, IInv, Shape, Offsets, StoredMailed, InHand, RecentStored
  <2> QED
    BY <2>1, <2>2 DEF IInv
<1>14. CASE UNCHANGED vars
  BY <1>14, QuietStep DEF vars, IInv, TypeOK
<1>15. CASE LoseSession
  BY <1>15, QuietStep DEF LoseSession, IInv, TypeOK
<1>16. CASE Rejoin
  BY <1>16, AssignStep DEF Rejoin, Open, IInv, TypeOK, InHand
<1> QED
  BY <1>1, <1>2, <1>3, <1>4, <1>5, <1>6, <1>7, <1>8, <1>9, <1>10, <1>11, <1>12, <1>13, <1>14, <1>15, <1>16
     DEF Next, Consumer

\* The invariant holds throughout.
LEMMA Invariance == Spec => []IInv
<1>1. Init => IInv
  BY InvInit
<1>2. IInv /\ [Next]_vars => IInv'
  BY InvStep
<1> QED
  BY <1>1, <1>2, PTL DEF Spec

-----------------------------------------------------------------------------
(* Theorems *)

\* Types, and a consumer that is neither ahead of the log nor behind its own
\* commits (kafka.go:246-300).
THEOREM TypeCorrect == Spec => []TypeOK
<1>1. IInv => TypeOK
  BY DEF IInv
<1> QED
  BY <1>1, Invariance, PTL

\* The committed offset is behind the stored one, and that behind the mails.
LEMMA CommittedMailed == IInv => NoSilentSkip
<1> SUFFICES ASSUME IInv, NEW t \in Topics, NEW i \in 1..committed[t]
             PROVE  <<t, i>> \in mailed
  BY DEF NoSilentSkip
<1>1. i \in 1..stored[t]
  BY DEF IInv, Shape, Offsets
<1> QED
  BY <1>1 DEF IInv, StoredMailed

\* What is committed has been mailed, whatever fails (kafka.go:271-273).
THEOREM NothingSkipped == Spec => []NoSilentSkip
  BY CommittedMailed, Invariance, PTL

\* As long as the client keeps its partitions, nothing that was mailed is handled
\* again (kafka.go:248-295).
THEOREM MailedOncePerAssignment == Spec => []OncePerAssignment
<1>1. IInv => OncePerAssignment
  <2> SUFFICES ASSUME IInv, loop = "handle", current \in recent PROVE FALSE
    BY DEF OncePerAssignment
  <2>1. current[2] = stored[Topic(current)] + 1 /\ Topic(current) \in Topics
    BY InHandIsEvent DEF IInv, InHand
  <2>2. current[2] <= stored[Topic(current)]
    BY DEF IInv, RecentStored
  <2> QED
    BY <2>1, <2>2 DEF IInv, Shape, Offsets
<1> QED
  BY <1>1, Invariance, PTL

\* The events mailed by a step: at most the one in hand, the first after the
\* stored offset.
LEMMA MailsOne ==
    ASSUME IInv, Next
    PROVE  \/ UNCHANGED mailed /\ (recent' = recent \/ recent' = {})
           \/ /\ loop = "handle"
              /\ mailed' = mailed \cup {current} /\ recent' = recent \cup {current}
              /\ UNCHANGED <<log, committed>>
<1>1. CASE HandleMail \/ HandleMailError
  <2>1. loop = "handle" /\ \E answer \in Answers : Mails(answer)
    BY <1>1 DEF HandleMail, HandleMailError, MailError
  <2> QED
    BY <1>1, <2>1 DEF Mails, HandleMail, HandleMailError, broker
<1>2. CASE ~(HandleMail \/ HandleMailError)
  BY <1>2 DEF Next, Consumer, LoopReturn, PollEvent, HandleReject, Store, PollFatal, AutoCommit,
        MainConsumerDone, MainStop, MainClose, Exit, Restart, LoseSession, Rejoin, Publish, mails
<1> QED
  BY <1>1, <1>2

\* The committed offset never goes back.
LEMMA CommitGrows ==
    ASSUME IInv, [Next]_vars
    PROVE  \A t \in Topics : committed'[t] \in Nat /\ committed'[t] >= committed[t]
<1>1. committed' = committed \/ committed' = stored
  BY DEF Next, vars, Consumer, LoopReturn, PollEvent, HandleReject, Store, HandleMail,
        HandleMailError, PollFatal, AutoCommit, MainConsumerDone, MainStop, MainClose, Exit,
        Restart, LoseSession, Rejoin, Publish, broker
<1> QED
  BY <1>1 DEF IInv, Shape, Offsets

\* What is committed is never mailed again (kafka.go:271-279).
THEOREM CommitsAreFinal == Spec => CommitIsFinal
<1> DEFINE Final == \A t \in Topics :
        /\ committed'[t] >= committed[t]
        /\ recent' # recent /\ recent' # {} => \A e \in recent' \ recent : e[2] > committed[Topic(e)]
<1>1. IInv /\ [Next]_vars => [Final]_vars
  <2> SUFFICES ASSUME IInv, Next PROVE Final
    BY DEF Final
  <2>1. \A t \in Topics : committed'[t] >= committed[t]
    BY CommitGrows
  <2>2. ASSUME recent' # recent, recent' # {}, NEW e \in recent' \ recent PROVE e[2] > committed[Topic(e)]
    <3>1. loop = "handle" /\ e = current
      BY <2>2, MailsOne
    <3>2. e[2] = stored[Topic(e)] + 1 /\ Topic(e) \in Topics
      BY <3>1, InHandIsEvent DEF IInv, InHand
    <3> QED
      BY <3>2 DEF IInv, Shape, Offsets
  <2> QED
    BY <2>1, <2>2
<1>2. Spec => [][Final]_vars
  BY <1>1, Invariance, PTL DEF Spec
<1> QED
  BY <1>2 DEF CommitIsFinal, Final

\* The service implements AtLeastOnce: it mails in order and acknowledges what
\* it has mailed (kafka.go:246-295).
THEOREM Refinement == Spec => ImplementsAtLeastOnce
<1>1. Init => Promise!Init
  BY DEF Init, Promise!Init
<1>2. IInv /\ IInv' /\ [Next]_vars => [Promise!Next]_(Promise!vars)
  <2> SUFFICES ASSUME IInv, IInv', Next PROVE Promise!Next \/ UNCHANGED Promise!vars
    <3>1. UNCHANGED vars => UNCHANGED Promise!vars
      BY DEF vars, broker, mails, Promise!vars
    <3> QED
      BY <3>1
  <2>1. CASE mailed' # mailed
    <3>1. /\ loop = "handle" /\ mailed' = mailed \cup {current} /\ UNCHANGED <<log, committed>>
      BY <2>1, MailsOne
    <3> DEFINE t == Topic(current)
               i == current[2]
    <3>2. /\ current \in Events /\ t \in Topics /\ current = <<t, i>>
          /\ i = stored[t] + 1 /\ stored[t] \in Nat /\ committed[t] \in Nat
          /\ committed[t] <= stored[t]
      BY <3>1, InHandIsEvent DEF IInv, InHand, Shape, Offsets
    <3>3. i \in 1..Len(log[t]) /\ Len(log[t]) \in Nat
      BY <3>2 DEF Events, IInv, TypeOK
    <3>4. \A j \in 1 .. i - 1 : <<t, j>> \in mailed
      BY <3>2 DEF IInv, StoredMailed
    <3>5. Promise!Mail(t, i)
      BY <3>1, <3>2, <3>3, <3>4 DEF Promise!Mail
    <3> QED
      BY <3>2, <3>3, <3>5 DEF Promise!Next
  <2>2. CASE mailed' = mailed /\ committed' # committed
    <3>1. committed' = stored /\ UNCHANGED <<log, mailed>>
      BY <2>2 DEF Next, Consumer, LoopReturn, PollEvent, HandleReject, Store, HandleMail,
        HandleMailError, PollFatal, AutoCommit, MainConsumerDone, MainStop, MainClose, Exit,
        Restart, LoseSession, Rejoin, Publish, broker, mails
    <3>2. \A t \in Topics : committed'[t] \in committed[t] .. Len(log[t])
      BY <3>1 DEF IInv, TypeOK, Shape, Offsets
    <3>3. Promise!Acknowledge
      BY <3>1, <3>2 DEF Promise!Acknowledge, IInv, StoredMailed
    <3> QED
      BY <3>3 DEF Promise!Next
  <2>3. CASE mailed' = mailed /\ committed' = committed
    <3>1. UNCHANGED log \/ \E t \in Topics, k \in Kinds : log' = [log EXCEPT ![t] = Append(@, k)]
      BY DEF Next, Consumer, LoopReturn, PollEvent, HandleReject, Store, HandleMail,
        HandleMailError, PollFatal, AutoCommit, MainConsumerDone, MainStop, MainClose, Exit,
        Restart, LoseSession, Rejoin, Publish, broker
    <3> QED
      BY <2>3, <3>1 DEF Promise!Next, Promise!Publish, Promise!vars
  <2> QED
    BY <2>1, <2>2, <2>3
<1> QED
  BY <1>1, <1>2, Invariance, PTL DEF Spec, ImplementsAtLeastOnce, Promise!Spec
=============================================================================
