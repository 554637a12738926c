------------------------ MODULE NotificationConsumer ------------------------
(***************************************************************************)
(* The notification service: utils/kafka.go (KafkaConsumer), the handlers  *)
(* in notification-service/server/internal/kafka/consumer, and the main    *)
(* goroutine of notification-service/server/main.go, which starts Consume  *)
(* in a goroutine and closes the client without waiting for it.            *)
(*                                                                         *)
(* Each topic has one partition (EnsureTopics) and the service is the only *)
(* member of its group.  The broker and what the client does in the        *)
(* background (commits, the group session) are external.                   *)
(***************************************************************************)
EXTENDS Integers, Sequences, Mailer

CONSTANTS Topics,       \* subscribed topics
          Unsupported,  \* those whose handler is not implemented
          Kinds,        \* events
          Valid,        \* those that decode and have a valid address, code and time
          MaxLog,       \* events per topic (bound)
          Faults        \* "mail", "fatal", "commit", "session", "crash"

ASSUME ConsumerConstants ==
    /\ Unsupported \subseteq Topics
    /\ Valid \subseteq Kinds
    /\ MaxLog \in Nat
    /\ Faults \subseteq {"mail", "fatal", "commit", "session", "crash"}

VARIABLES log,        \* events the broker holds, per topic
          committed,  \* events before the group's committed offset
          mailed,     \* events <<t, i>> a mail went out for, ever
          up,         \* main: "running", "closing", "closed", "down"
          cancelled,  \* consumerCtx is done
          joined,     \* the partitions are assigned to this client
          loop,       \* Consume: "poll", "handle", "store", "returned"
          current,    \* the event being handled
          pos,        \* events polled, and before the stored offset,
          stored,     \*     since the partitions were assigned
          recent      \* events mailed since then

broker  == <<log, committed>>
process == <<up, cancelled, joined>>
reader  == <<loop, current, pos, stored>>
mails   == <<mailed, recent>>
vars    == <<broker, process, reader, mails>>

Events   == {e \in Topics \X (1..MaxLog) : e[2] <= Len(log[e[1]])}
NoEvent  == <<>>
Topic(e) == e[1]
Good(e)  == Topic(e) \notin Unsupported /\ log[Topic(e)][e[2]] \in Valid
May(f)   == f \in Faults
Open     == up \in {"running", "closing"}

Init ==
    /\ log = [t \in Topics |-> <<>>] /\ committed = [t \in Topics |-> 0]
    /\ mailed = {} /\ recent = {}
    /\ up = "running" /\ cancelled = FALSE /\ joined = TRUE
    /\ loop = "poll" /\ current = NoEvent
    /\ pos = committed /\ stored = committed

-----------------------------------------------------------------------------
(* Consume, and the handler it calls *)

\* The context is looked at once per turn of the loop.
LoopReturn ==
    /\ loop = "poll" /\ cancelled
    /\ loop' = "returned"
    /\ UNCHANGED <<broker, process, current, pos, stored, mails>>

PollEventStores(t) ==
    /\ loop = "poll" /\ ~cancelled /\ Open /\ joined
    /\ pos[t] < Len(log[t])
    /\ pos' = [pos EXCEPT ![t] = @ + 1] /\ stored' = [stored EXCEPT ![t] = pos'[t]]
    /\ current' = <<t, pos[t] + 1>>
    /\ loop' = "handle"
    /\ UNCHANGED <<broker, process, mails>>

\* Poll hands over the next event of some assigned topic; a closed client has
\* none.
PollEvent(t) ==
    /\ loop = "poll" /\ ~cancelled /\ Open /\ joined
    /\ pos[t] < Len(log[t])
    /\ pos' = [pos EXCEPT ![t] = @ + 1]
    /\ current' = <<t, pos[t] + 1>>
    /\ loop' = "handle"
    /\ UNCHANGED <<broker, process, stored, mails>>

PollFatal ==
    /\ loop = "poll" /\ ~cancelled /\ May("fatal")
    /\ loop' = "returned"
    /\ UNCHANGED <<broker, process, current, pos, stored, mails>>

\* ConsumeNotification: the event is decoded and checked, then mailed.
Mails(answer) ==
    LET m == IF answer.taken THEN {current} ELSE {} IN
    mailed' = mailed \cup m /\ recent' = recent \cup m

HandleMail ==
    /\ loop = "handle" /\ Good(current)
    /\ \E answer \in Answers : SendEmail(answer) = "nil" /\ Mails(answer)
    /\ loop' = "store"
    /\ UNCHANGED <<broker, process, current, pos, stored>>

MailError ==
    /\ loop = "handle" /\ Good(current) /\ (May("mail") \/ cancelled)
    /\ \E answer \in Answers : SendEmail(answer) = "error" /\ Mails(answer)

HandleMailErrorContinues ==
    /\ MailError
    /\ loop' = "poll" /\ current' = NoEvent
    /\ UNCHANGED <<broker, process, pos, stored>>

HandleMailErrorRetries ==
    /\ MailError
    /\ UNCHANGED <<broker, process, loop, current, pos, stored>>

\* SendEmail fails, perhaps after the provider took the mail; any error of the
\* handler ends Consume.
HandleMailError ==
    /\ MailError
    /\ loop' = "returned" /\ current' = NoEvent
    /\ UNCHANGED <<broker, process, pos, stored>>

\* An event that does not decode, whose address is not valid, or whose topic
\* has no handler is an error as well.
HandleReject ==
    /\ loop = "handle" /\ ~Good(current)
    /\ loop' = "returned" /\ current' = NoEvent
    /\ UNCHANGED <<broker, process, pos, stored, mails>>

StoreOne(t, n) == stored' = [stored EXCEPT ![t] = n]

\* StoreMessage.  It fails, and Consume returns, on a closed client; so it does
\* when the partition was taken from this client, if the client knows already.
Store ==
    /\ loop = "store"
    /\ \/ Open /\ StoreOne(Topic(current), current[2]) /\ loop' = "poll"
       \/ ~(Open /\ joined) /\ UNCHANGED stored /\ loop' = "returned"
    /\ current' = NoEvent
    /\ UNCHANGED <<broker, process, pos, mails>>

-----------------------------------------------------------------------------
(* The client in the background *)

AutoCommit ==
    /\ Open /\ joined /\ committed # stored
    /\ committed' = stored
    /\ UNCHANGED <<log, process, reader, mails>>

\* The broker hears nothing of the client in time and ends its session, and
\* with it the assignment.  What was stored is forgotten, unless the client
\* still gets to commit it as it gives the partitions up.
LoseSession ==
    /\ Open /\ joined /\ May("session")
    /\ joined' = FALSE
    /\ committed' \in {committed, stored}
    /\ UNCHANGED <<log, up, cancelled, reader, mails>>

\* The client joins again by itself.  There is no rebalance callback, so Poll
\* takes the new assignment, from where the group committed.
Rejoin ==
    /\ loop = "poll" /\ ~cancelled /\ Open /\ ~joined
    /\ joined' = TRUE
    /\ pos' = committed /\ stored' = committed
    /\ recent' = {}
    /\ UNCHANGED <<broker, up, cancelled, loop, current, mailed>>

-----------------------------------------------------------------------------
(* The main goroutine *)

\* case <-consumerDone.
MainConsumerDone ==
    /\ up = "running" /\ loop = "returned"
    /\ up' = "closing" /\ cancelled' = TRUE
    /\ UNCHANGED <<broker, joined, reader, mails>>

\* case <-runCtx.Done() or <-serveErr: the loop may be anywhere.
MainStop ==
    /\ up = "running"
    /\ up' = "closing" /\ cancelled' = TRUE
    /\ UNCHANGED <<broker, joined, reader, mails>>

\* defer consumer.Close(): a last commit, which may fail.
MainClose ==
    /\ up = "closing"
    /\ up' = "closed"
    /\ committed' \in (IF joined THEN {stored} ELSE {committed})
                     \cup (IF May("commit") THEN {committed} ELSE {})
    /\ UNCHANGED <<log, cancelled, joined, reader, mails>>

\* main returns, and every goroutine with it; or the process is killed.
Exit ==
    /\ up = "closed" \/ (up # "down" /\ May("crash"))
    /\ up' = "down" /\ cancelled' = TRUE
    /\ loop' = "returned" /\ current' = NoEvent
    /\ UNCHANGED <<broker, joined, pos, stored, mails>>

\* A new process takes the partitions up where the group committed.
Restart ==
    /\ up = "down"
    /\ up' = "running" /\ cancelled' = FALSE /\ joined' = TRUE
    /\ loop' = "poll" /\ current' = NoEvent
    /\ pos' = committed /\ stored' = committed
    /\ recent' = {}
    /\ UNCHANGED <<broker, mailed>>

-----------------------------------------------------------------------------
(* The producers of the topics *)

Publish(t, k) ==
    /\ Len(log[t]) < MaxLog
    /\ log' = [log EXCEPT ![t] = Append(@, k)]
    /\ UNCHANGED <<committed, process, reader, mails>>

Consumer ==
    LoopReturn \/ (\E t \in Topics : PollEvent(t)) \/ HandleReject \/ Store

Next ==
    \/ Consumer \/ HandleMail \/ HandleMailError \/ PollFatal
    \/ AutoCommit \/ LoseSession \/ Rejoin
    \/ MainConsumerDone \/ MainStop \/ MainClose \/ Exit \/ Restart
    \/ \E t \in Topics, k \in Kinds : Publish(t, k)

Spec == Init /\ [][Next]_vars

\* The loop turns, main does not hang, a lost session is joined again and a
\* stopped service started again.  What fails or is cut off by a stop or a lost
\* session now and then (a mail, the step from the mail to the stored offset, a
\* commit) does not fail every time (strong fairness).  Poll hands over some
\* event time and again; of which topic is not for the code to say.
Fairness ==
    /\ WF_vars(LoopReturn) /\ WF_vars(HandleReject) /\ WF_vars(Store)
    /\ SF_vars(joined /\ ~cancelled /\ HandleMail) /\ SF_vars(joined /\ ~cancelled /\ Store)
    /\ SF_vars(AutoCommit) /\ SF_vars(\E t \in Topics : PollEvent(t)) /\ WF_vars(Rejoin)
    /\ WF_vars(MainConsumerDone) /\ WF_vars(MainClose) /\ WF_vars(Exit) /\ WF_vars(Restart)

FairSpec == Spec /\ Fairness

-----------------------------------------------------------------------------
(* Properties *)

\* Every variable holds a value of its type, and the consumer is never ahead
\* of the log nor behind its own commits.
TypeOK ==
    /\ log \in [Topics -> Seq(Kinds)] /\ \A t \in Topics : Len(log[t]) <= MaxLog
    /\ mailed \subseteq Events /\ recent \subseteq mailed
    /\ up \in {"running", "closing", "closed", "down"}
    /\ cancelled \in BOOLEAN /\ joined \in BOOLEAN
    /\ loop \in {"poll", "handle", "store", "returned"}
    /\ current \in Events \cup {NoEvent}
    /\ loop \in {"handle", "store"} => current \in Events
    /\ \A t \in Topics :
          /\ committed[t] \in Nat /\ stored[t] \in Nat /\ pos[t] \in Nat
          /\ committed[t] <= stored[t] \/ up = "down"
          /\ stored[t] <= pos[t] /\ pos[t] <= Len(log[t])

\* "A crash before that commit can cause a duplicate, not a silent skip"
\* (kafka.go:271-273): what is committed has been mailed.
NoSilentSkip ==
    \A t \in Topics : \A i \in 1..committed[t] : <<t, i>> \in mailed

\* Between one assignment of the partitions and the next, nothing that was mailed
\* is handled again: duplicates come from restarts and lost sessions only.
OncePerAssignment == loop = "handle" => current \notin recent

\* What is committed is never mailed again, in whatever run and whatever session,
\* and the committed offset never goes back.
CommitIsFinal ==
    [][\A t \in Topics :
          /\ committed'[t] >= committed[t]
          /\ recent' # recent /\ recent' # {} =>
                \A e \in recent' \ recent : e[2] > committed[Topic(e)]]_vars

Promise == INSTANCE AtLeastOnce WITH acked <- committed

\* The service keeps the promise of AtLeastOnce: mails in the order of a topic's
\* events, acknowledged (kafka.go:271-279) only when they and all before them
\* were mailed.
ImplementsAtLeastOnce == Promise!Spec

\* An event the handler rejects stands before <<t, i>>: in its own topic, or
\* anywhere in another one, which Poll may hand over first after every restart.
Blocked(t, i) == \E e \in Events : ~Good(e) /\ (Topic(e) # t \/ e[2] <= i)

\* Whatever mails, commits, sessions and processes fail, an event is mailed
\* unless a rejected one stands before it.
MailedUnlessBlocked ==
    \A t \in Topics : \A i \in 1..MaxLog :
        (Len(log[t]) >= i) ~> (<<t, i>> \in mailed \/ Blocked(t, i))

\* Every event is mailed (notification-service/README.md:13-15).
EveryEventMailed ==
    \A t \in Topics : \A i \in 1..MaxLog :
        (Len(log[t]) >= i /\ t \notin Unsupported /\ log[t][i] \in Valid) ~> (<<t, i>> \in mailed)
=============================================================================
