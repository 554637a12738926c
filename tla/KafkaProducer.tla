--------------------------- MODULE KafkaProducer ---------------------------
(***************************************************************************)
(* utils/kafka.go, type KafkaProducer: goroutines that Publish, goroutines *)
(* that Close, and the watchEvents goroutine share one librdkafka client,  *)
(* a mutex, a WaitGroup and a Once.                                        *)
(*                                                                         *)
(* A step is one access to shared state.  The client is external: it keeps *)
(* a queue, appends records to the broker's log, and answers each queued   *)
(* message with one delivery report.  A failed report may concern a record *)
(* that is in the log (the acknowledgement was lost).                      *)
(***************************************************************************)
EXTENDS Integers, FiniteSets

CONSTANTS Publishes,   \* calls of Publish, one message each
          Closes,      \* calls of Close
          Watcher,     \* the goroutine running watchEvents
          Nobody       \* the holder of a free mutex

ASSUME CallsDistinct ==
    /\ IsFiniteSet(Publishes)
    /\ Publishes \cap Closes = {}
    /\ Watcher \notin Publishes \cup Closes
    /\ Nobody \notin Publishes \cup Closes \cup {Watcher}

VARIABLES pc,        \* where each goroutine stands
          mu,        \* holder of p.mu
          closing,   \* p.closing
          fatalErr,  \* p.fatalErr # nil
          inFlight,  \* the counter of p.inFlight
          once,      \* p.closeOnce: "idle", "running" or "done"
          closeErr,  \* p.closeErr # nil
          left,      \* messages Flush gave up on (its result, remaining)
          client,    \* p.client: "open" or "closed"
          message,   \* what the client did with each message
          log,       \* messages the broker has persisted
          outcome,   \* what each Publish returned
          verdict    \* what each Close returned

shared == <<closing, fatalErr, inFlight, once, closeErr, left>>
kafka  == <<client, message, log>>
vars   == <<pc, mu, shared, kafka, outcome, verdict>>

Goroutines == Publishes \cup Closes \cup {Watcher}

PublishPC == {"lock", "locked", "checked", "added", "produce", "waiting",
              "returning", "done"}
ClosePC   == {"idle", "lock", "locked", "wait", "flush", "destroy",
              "finish", "done"}
WatchPC   == {"range", "lock", "locked", "done"}

Outcomes == {"none", "closing", "unavailable", "enqueueErr", "unknown",
             "failed", "delivered"}

\* Calls counted by the WaitGroup: after Add(1) and before Done().
Inside == {p \in Publishes : pc[p] \in {"added", "produce", "waiting", "returning"}}
Queued == {p \in Publishes : message[p] = "queued"}

Goto(g, l) == pc' = [pc EXCEPT ![g] = l]

Init ==
    /\ pc = [g \in Goroutines |-> IF g \in Publishes THEN "lock"
                                  ELSE IF g \in Closes THEN "idle" ELSE "range"]
    /\ mu = Nobody
    /\ closing = FALSE /\ fatalErr = FALSE /\ inFlight = 0
    /\ once = "idle" /\ closeErr = FALSE /\ left = {}
    /\ client = "open" /\ message = [p \in Publishes |-> "none"] /\ log = {}
    /\ outcome = [p \in Publishes |-> "none"]
    /\ verdict = [c \in Closes |-> "none"]

-----------------------------------------------------------------------------
(* Publish *)

PublishLock(p) ==
    /\ pc[p] = "lock" /\ mu = Nobody
    /\ mu' = p
    /\ Goto(p, "locked")
    /\ UNCHANGED <<shared, kafka, outcome, verdict>>

PublishRefuseKeepsLock(p) ==
    /\ pc[p] = "locked" /\ (closing \/ fatalErr)
    /\ outcome' = [outcome EXCEPT ![p] = IF closing THEN "closing" ELSE "unavailable"]
    /\ Goto(p, "done")
    /\ UNCHANGED <<mu, shared, kafka, verdict>>

\* The two early returns; the unlock is part of the step.
PublishRefuse(p) ==
    /\ pc[p] = "locked" /\ (closing \/ fatalErr)
    /\ outcome' = [outcome EXCEPT ![p] = IF closing THEN "closing" ELSE "unavailable"]
    /\ mu' = Nobody
    /\ Goto(p, "done")
    /\ UNCHANGED <<shared, kafka, verdict>>

PublishCheckNoClosing(p) ==
    /\ pc[p] = "locked" /\ ~fatalErr
    /\ Goto(p, "checked")
    /\ UNCHANGED <<mu, shared, kafka, outcome, verdict>>

PublishCheckNoFatal(p) ==
    /\ pc[p] = "locked" /\ ~closing
    /\ Goto(p, "checked")
    /\ UNCHANGED <<mu, shared, kafka, outcome, verdict>>

PublishCheck(p) ==
    /\ pc[p] = "locked" /\ ~closing /\ ~fatalErr
    /\ Goto(p, "checked")
    /\ UNCHANGED <<mu, shared, kafka, outcome, verdict>>

PublishAdd(p) ==
    /\ pc[p] = "checked"
    /\ inFlight' = inFlight + 1
    /\ Goto(p, "added")
    /\ UNCHANGED <<mu, closing, fatalErr, once, closeErr, left, kafka, outcome, verdict>>

PublishUnlock(p) ==
    /\ pc[p] = "added"
    /\ mu' = Nobody
    /\ Goto(p, "produce")
    /\ UNCHANGED <<shared, kafka, outcome, verdict>>

\* client.Produce either queues the message or refuses it (its queue is full).
PublishProduce(p) ==
    /\ pc[p] = "produce"
    /\ \/ /\ client = "open"
          /\ message' = [message EXCEPT ![p] = "queued"]
          /\ Goto(p, "waiting")
          /\ UNCHANGED outcome
       \/ /\ outcome' = [outcome EXCEPT ![p] = "enqueueErr"]
          /\ Goto(p, "returning")
          /\ UNCHANGED message
    /\ UNCHANGED <<mu, shared, client, log, verdict>>

\* select, case <-ctx.Done(): the context may end at any time.
PublishAbandonNoDone(p) ==
    /\ pc[p] = "waiting"
    /\ outcome' = [outcome EXCEPT ![p] = "unknown"]
    /\ Goto(p, "done")
    /\ UNCHANGED <<mu, shared, kafka, verdict>>

PublishAbandon(p) ==
    /\ pc[p] = "waiting"
    /\ outcome' = [outcome EXCEPT ![p] = "unknown"]
    /\ Goto(p, "returning")
    /\ UNCHANGED <<mu, shared, kafka, verdict>>

\* select, case event := <-delivery.
PublishReportNoError(p) ==
    /\ pc[p] = "waiting" /\ message[p] \in {"acked", "failed"}
    /\ outcome' = [outcome EXCEPT ![p] = "delivered"]
    /\ Goto(p, "returning")
    /\ UNCHANGED <<mu, shared, kafka, verdict>>

PublishReport(p) ==
    /\ pc[p] = "waiting" /\ message[p] \in {"acked", "failed"}
    /\ outcome' = [outcome EXCEPT ![p] = IF message[p] = "acked" THEN "delivered" ELSE "failed"]
    /\ Goto(p, "returning")
    /\ UNCHANGED <<mu, shared, kafka, verdict>>

\* defer p.inFlight.Done().
PublishDoneTwice(p) ==
    /\ pc[p] = "returning"
    /\ inFlight' = inFlight - 2
    /\ Goto(p, "done")
    /\ UNCHANGED <<mu, closing, fatalErr, once, closeErr, left, kafka, outcome, verdict>>

PublishDone(p) ==
    /\ pc[p] = "returning"
    /\ inFlight' = inFlight - 1
    /\ Goto(p, "done")
    /\ UNCHANGED <<mu, closing, fatalErr, once, closeErr, left, kafka, outcome, verdict>>

PublishStep(p) ==
    \/ PublishRefuse(p) \/ PublishCheck(p) \/ PublishAdd(p) \/ PublishUnlock(p)
    \/ PublishProduce(p) \/ PublishReport(p) \/ PublishDone(p)

-----------------------------------------------------------------------------
(* Close *)

\* closeOnce.Do: the first caller runs the body, the others wait for it.
CloseEnter(c) ==
    /\ pc[c] = "idle" /\ once = "idle"
    /\ once' = "running"
    /\ Goto(c, "lock")
    /\ UNCHANGED <<mu, closing, fatalErr, inFlight, closeErr, left, kafka, outcome, verdict>>

CloseAgainNoWait(c) ==
    /\ pc[c] = "idle" /\ once # "idle"
    /\ verdict' = [verdict EXCEPT ![c] = IF closeErr THEN "undelivered" ELSE "nil"]
    /\ Goto(c, "done")
    /\ UNCHANGED <<mu, shared, kafka, outcome>>

CloseAgain(c) ==
    /\ pc[c] = "idle" /\ once = "done"
    /\ verdict' = [verdict EXCEPT ![c] = IF closeErr THEN "undelivered" ELSE "nil"]
    /\ Goto(c, "done")
    /\ UNCHANGED <<mu, shared, kafka, outcome>>

CloseLockNoMutex(c) ==
    /\ pc[c] = "lock"
    /\ mu' = c
    /\ Goto(c, "locked")
    /\ UNCHANGED <<shared, kafka, outcome, verdict>>

CloseLock(c) ==
    /\ pc[c] = "lock" /\ mu = Nobody
    /\ mu' = c
    /\ Goto(c, "locked")
    /\ UNCHANGED <<shared, kafka, outcome, verdict>>

CloseMark(c) ==
    /\ pc[c] = "locked"
    /\ closing' = TRUE
    /\ mu' = Nobody
    /\ Goto(c, "wait")
    /\ UNCHANGED <<fatalErr, inFlight, once, closeErr, left, kafka, outcome, verdict>>

CloseWaitNot(c) ==
    /\ pc[c] = "wait"
    /\ Goto(c, "flush")
    /\ UNCHANGED <<mu, shared, kafka, outcome, verdict>>

CloseWait(c) ==
    /\ pc[c] = "wait" /\ inFlight = 0
    /\ Goto(c, "flush")
    /\ UNCHANGED <<mu, shared, kafka, outcome, verdict>>

\* Flush returns when the queue is empty or after its ten seconds.
CloseFlush(c) ==
    /\ pc[c] = "flush"
    /\ left' = Queued
    /\ Goto(c, "destroy")
    /\ UNCHANGED <<mu, closing, fatalErr, inFlight, once, closeErr, kafka, outcome, verdict>>

\* client.Close: what is still queued is lost.
CloseDestroy(c) ==
    /\ pc[c] = "destroy"
    /\ client' = "closed"
    /\ message' = [p \in Publishes |-> IF p \in Queued THEN "dropped" ELSE message[p]]
    /\ Goto(c, "finish")
    /\ UNCHANGED <<mu, shared, log, outcome, verdict>>

CloseFinish(c) ==
    /\ pc[c] = "finish"
    /\ closeErr' = (left # {})
    /\ once' = "done"
    /\ verdict' = [verdict EXCEPT ![c] = IF left # {} THEN "undelivered" ELSE "nil"]
    /\ Goto(c, "done")
    /\ UNCHANGED <<mu, closing, fatalErr, inFlight, left, kafka, outcome>>

CloseStep(c) ==
    \/ CloseAgain(c) \/ CloseMark(c) \/ CloseWait(c) \/ CloseFlush(c)
    \/ CloseDestroy(c) \/ CloseFinish(c)

-----------------------------------------------------------------------------
(* watchEvents: fatal events change state, the others are only logged.  The *)
(* loop ends with the Events channel, closed by client.Close.               *)

WatchFatal ==
    /\ pc[Watcher] = "range"
    /\ Goto(Watcher, "lock")
    /\ UNCHANGED <<mu, shared, kafka, outcome, verdict>>

WatchLock ==
    /\ pc[Watcher] = "lock" /\ mu = Nobody
    /\ mu' = Watcher
    /\ Goto(Watcher, "locked")
    /\ UNCHANGED <<shared, kafka, outcome, verdict>>

WatchRecord ==
    /\ pc[Watcher] = "locked"
    /\ fatalErr' = TRUE
    /\ mu' = Nobody
    /\ Goto(Watcher, "range")
    /\ UNCHANGED <<closing, inFlight, once, closeErr, left, kafka, outcome, verdict>>

WatchEnd ==
    /\ pc[Watcher] = "range" /\ client = "closed"
    /\ Goto(Watcher, "done")
    /\ UNCHANGED <<mu, shared, kafka, outcome, verdict>>

-----------------------------------------------------------------------------
(* The client and the broker (external) *)

BrokerAppend(p) ==
    /\ client = "open" /\ message[p] = "queued" /\ p \notin log
    /\ log' = log \cup {p}
    /\ UNCHANGED <<pc, mu, shared, client, message, outcome, verdict>>

ClientReport(p) ==
    /\ client = "open" /\ message[p] = "queued"
    /\ \E r \in {"failed"} \cup (IF p \in log THEN {"acked"} ELSE {}) :
          message' = [message EXCEPT ![p] = r]
    /\ UNCHANGED <<pc, mu, shared, client, log, outcome, verdict>>

\* Everything has returned: the process is free to exit.
Terminated ==
    /\ \A g \in Goroutines : pc[g] = "done"
    /\ UNCHANGED vars

Next ==
    \/ \E p \in Publishes : \/ PublishLock(p) \/ PublishAbandon(p) \/ PublishStep(p)
                            \/ BrokerAppend(p) \/ ClientReport(p)
    \/ \E c \in Closes : CloseEnter(c) \/ CloseLock(c) \/ CloseStep(c)
    \/ WatchFatal \/ WatchLock \/ WatchRecord \/ WatchEnd
    \/ Terminated

Spec == Init /\ [][Next]_vars

\* Runnable goroutines run; a sync.Mutex hands itself to a starving waiter; the
\* client reports every message (message.timeout.ms is finite).  No context is
\* assumed to end, and nobody is assumed to call Close.
Fairness ==
    /\ \A p \in Publishes : /\ SF_vars(PublishLock(p)) /\ WF_vars(PublishStep(p))
                            /\ WF_vars(ClientReport(p))
    /\ \A c \in Closes : SF_vars(CloseLock(c)) /\ WF_vars(CloseStep(c))
    /\ WF_vars(WatchRecord)

FairSpec == Spec /\ Fairness

-----------------------------------------------------------------------------
(* Properties *)

\* Every variable holds a value of its type; the WaitGroup never goes negative.
TypeOK ==
    /\ pc \in [Goroutines -> PublishPC \cup ClosePC \cup WatchPC]
    /\ \A p \in Publishes : pc[p] \in PublishPC
    /\ \A c \in Closes : pc[c] \in ClosePC
    /\ pc[Watcher] \in WatchPC
    /\ mu \in Goroutines \cup {Nobody}
    /\ closing \in BOOLEAN /\ fatalErr \in BOOLEAN /\ closeErr \in BOOLEAN
    /\ inFlight \in Nat
    /\ once \in {"idle", "running", "done"}
    /\ left \subseteq Publishes
    /\ client \in {"open", "closed"}
    /\ message \in [Publishes -> {"none", "queued", "acked", "failed", "dropped"}]
    /\ log \subseteq Publishes
    /\ outcome \in [Publishes -> Outcomes]
    /\ verdict \in [Closes -> {"none", "nil", "undelivered"}]

\* "Every successful Add must have one matching Done, including errors and
\* context cancellation" (kafka.go:137): the counter is the number of calls
\* between the two.
InFlightExact == inFlight = Cardinality(Inside)

\* No publish calls Produce on a closed client, or waits for a report that a
\* closed client will never give (kafka.go:122, kafka.go:194).
ClientOutlivesPublishes == Inside # {} => client = "open"

\* Close returning nil, whichever caller asks, means the client is released
\* and no accepted message was lost in it (kafka.go:197-205).
NilCloseLosesNothing ==
    \A c \in Closes : verdict[c] = "nil" =>
        /\ client = "closed"
        /\ \A p \in Publishes : message[p] # "dropped"

\* A Publish that returns a position has its record in the log, and one that
\* reports it never queued the message has left no record behind.
OutcomeHonest ==
    \A p \in Publishes :
        /\ outcome[p] = "delivered" => p \in log
        /\ outcome[p] \in {"closing", "unavailable", "enqueueErr"} => p \notin log

\* Whoever waits has somebody to wait for, who is not waiting in turn: the mutex
\* has a holder in its critical section, the WaitGroup a publish, closeOnce a
\* Close in its body, and a delivery channel its report or a message of a client
\* that is open.  No circle can close over kafka.go:120, 98, 157, 188 and 195.
NobodyWaitsInVain ==
    /\ mu # Nobody => pc[mu] \in {"locked", "checked", "added"}
    /\ inFlight # 0 => Inside # {}
    /\ once = "running" =>
          \E c \in Closes : pc[c] \in {"lock", "locked", "wait", "flush", "destroy", "finish"}
    /\ \A p \in Publishes : pc[p] = "waiting" =>
          message[p] \in {"acked", "failed"} \/ (message[p] = "queued" /\ client = "open")

\* Once shutdown or a fatal error is recorded no call gets in any more: the
\* set of calls Close waits for only shrinks (kafka.go:128, kafka.go:189).
NoLateEntry == [][(closing \/ fatalErr) => Inside' \subseteq Inside]_vars

\* The producer is a gate: this is the promise its callers rely on.
Gate == INSTANCE ShutdownGate WITH
    Calls  <- Publishes,
    gate   <- IF client = "closed" THEN "shut"
              ELSE IF closing THEN "draining" ELSE "open",
    inside <- Inside,
    left   <- {p \in Publishes : pc[p] = "done"}

ImplementsGate == Gate!Spec

\* Every Publish returns, whatever happens to the producer meanwhile.
PublishReturns == \A p \in Publishes : <>(pc[p] = "done")

\* Every Close that was called returns (kafka.go:189: new publishes must not
\* extend the shutdown indefinitely).
CloseReturns == \A c \in Closes : pc[c] = "lock" ~> pc[c] = "done"
=============================================================================
