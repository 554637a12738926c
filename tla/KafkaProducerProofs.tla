------------------------ MODULE KafkaProducerProofs ------------------------
(***************************************************************************)
(* Proofs about KafkaProducer, for every finite set of publishes and any   *)
(* set of closes.  Along the argument: the mutex makes "not closing" still *)
(* true when a publish is counted, so once Close has set closing and seen  *)
(* the counter at zero nobody is inside and nobody can come in; what is    *)
(* queued then can only shrink between Flush and client.Close.             *)
(***************************************************************************)
EXTENDS KafkaProducer, FiniteSetTheorems, TLAPS

Holding(g) == pc[g] \in {"locked", "checked", "added"}
Running(c) == pc[c] \in {"lock", "locked", "wait", "flush", "destroy", "finish"}
Dropped    == {p \in Publishes : message[p] = "dropped"}

\* A goroutine holds p.mu exactly while it is in a critical section.
MutexInv == \A g \in Goroutines : Holding(g) <=> mu = g

\* One Close runs the body of closeOnce, exactly while the Once is running.
OnceInv ==
    /\ once = "running" => \E c \in Closes : Running(c)
    /\ \A c \in Closes : Running(c) => once = "running"
    /\ \A c, d \in Closes : Running(c) /\ Running(d) => c = d

\* No publish is between its check and its Add once closing or fatalErr is set,
\* and the later stages of Close come after closing.
ClosingInv ==
    /\ closing \/ fatalErr => \A p \in Publishes : pc[p] # "checked"
    /\ \A c \in Closes : pc[c] \in {"wait", "flush", "destroy", "finish"} => closing
    /\ once = "done" => closing
    /\ client = "closed" => closing

\* Past the wait nobody is inside.
DrainedInv ==
    /\ \A c \in Closes : pc[c] \in {"flush", "destroy", "finish"} => Inside = {}
    /\ client = "closed" => Inside = {}
    /\ once = "done" => Inside = {}

\* What Close knows about the client and its messages at each stage.
FlushInv ==
    /\ client = "open" => Dropped = {}
    /\ once = "idle" => client = "open"
    /\ \A c \in Closes : Running(c) /\ pc[c] # "finish" => client = "open"
    /\ \A c \in Closes : pc[c] = "destroy" => Queued \subseteq left
    /\ \A c \in Closes : pc[c] = "finish" => client = "closed" /\ Dropped \subseteq left
    /\ once = "done" => client = "closed" /\ (Dropped # {} => closeErr)
    /\ \A c \in Closes : verdict[c] = "nil" => once = "done" /\ ~closeErr

\* How far a message can have come, given where its Publish stands.
MessageInv ==
    \A p \in Publishes :
        /\ message[p] = "none" => p \notin log
        /\ message[p] = "acked" => p \in log
        /\ pc[p] \in {"lock", "locked", "checked", "added", "produce"} =>
              message[p] = "none" /\ outcome[p] = "none"
        /\ outcome[p] \in {"closing", "unavailable", "enqueueErr"} =>
              message[p] = "none" /\ pc[p] \in {"returning", "done"}
        /\ outcome[p] = "delivered" => p \in log
        /\ pc[p] = "waiting" => message[p] # "none"

IInv == /\ TypeOK /\ InFlightExact /\ MutexInv /\ OnceInv
        /\ ClosingInv /\ DrainedInv /\ FlushInv /\ MessageInv

-----------------------------------------------------------------------------
(* Lemmas *)

\* The goroutines of one kind are not those of another.
LEMMA Apart ==
    /\ \A p \in Publishes, c \in Closes : p # c
    /\ \A p \in Publishes : p # Watcher /\ p # Nobody
    /\ \A c \in Closes : c # Watcher /\ c # Nobody
    /\ Watcher # Nobody
  BY CallsDistinct

\* Where a step of one goroutine leaves the set of counted calls.
LEMMA InsideGoto ==
    ASSUME TypeOK, NEW g \in Goroutines, NEW l, Goto(g, l)
    PROVE  Inside' = IF g \in Publishes /\ l \in {"added", "produce", "waiting", "returning"}
                     THEN Inside \cup {g} ELSE Inside \ {g}
  BY CallsDistinct DEF TypeOK, Goto, Inside, Goroutines

\* The counted calls are finitely many.
LEMMA InsideFinite ==
    /\ IsFiniteSet(Inside)
    /\ Cardinality(Inside) \in Nat
    /\ Cardinality(Inside) = 0 <=> Inside = {}
  <1>1. IsFiniteSet(Inside)
    BY CallsDistinct, FS_Subset DEF Inside
  <1>2. QED
    BY <1>1, FS_CardinalityType, FS_EmptySet

\* The inductive invariant holds initially.
LEMMA InitIInv == Init => IInv
  <1> SUFFICES ASSUME Init PROVE IInv
    OBVIOUS
  <1>1. Inside = {}
    BY DEF Init, Inside, Goroutines
  <1>2. TypeOK
    BY CallsDistinct DEF Init, TypeOK, Goroutines, PublishPC, ClosePC, WatchPC, Outcomes
  <1>3. InFlightExact
    BY <1>1, FS_EmptySet DEF Init, InFlightExact
  <1>4. MutexInv
    BY CallsDistinct DEF Init, MutexInv, Holding, Goroutines
  <1>5. OnceInv /\ ClosingInv /\ DrainedInv
    BY <1>1, CallsDistinct DEF Init, OnceInv, ClosingInv, DrainedInv, Running, Goroutines
  <1>6. FlushInv /\ MessageInv
    BY CallsDistinct DEF Init, FlushInv, MessageInv, Dropped, Queued, Goroutines
  <1>7. QED
    BY <1>2, <1>3, <1>4, <1>5, <1>6 DEF IInv

\* Only Add puts a call inside and only Done takes one out.
LEMMA InsideStep ==
    TypeOK /\ [Next]_vars =>
        \/ \E p \in Publishes : PublishAdd(p) /\ p \notin Inside /\ Inside' = Inside \cup {p}
        \/ \E p \in Publishes : PublishDone(p) /\ p \in Inside /\ Inside' = Inside \ {p}
        \/ Inside' = Inside /\ inFlight' = inFlight
  <1> DEFINE same == Inside' = Inside /\ inFlight' = inFlight
  <1> SUFFICES ASSUME TypeOK, [Next]_vars
               PROVE  \/ \E p \in Publishes : PublishAdd(p) /\ p \notin Inside /\ Inside' = Inside \cup {p}
                      \/ \E p \in Publishes : PublishDone(p) /\ p \in Inside /\ Inside' = Inside \ {p}
                      \/ same
    OBVIOUS
  <1>1. ASSUME NEW p \in Publishes, PublishAdd(p)
        PROVE  p \notin Inside /\ Inside' = Inside \cup {p}
    BY <1>1, InsideGoto DEF PublishAdd, Goroutines, Inside
  <1>2. ASSUME NEW p \in Publishes, PublishDone(p)
        PROVE  p \in Inside /\ Inside' = Inside \ {p}
    BY <1>2, InsideGoto DEF PublishDone, Goroutines, Inside
  <1>3. ASSUME NEW p \in Publishes,
               \/ PublishLock(p) \/ PublishRefuse(p) \/ PublishCheck(p)
               \/ PublishUnlock(p) \/ PublishProduce(p)
               \/ PublishAbandon(p) \/ PublishReport(p)
        PROVE  same
    <2>1. PICK l : /\ Goto(p, l) /\ inFlight' = inFlight
                   /\ p \in Inside <=> l \in {"added", "produce", "waiting", "returning"}
      BY <1>3 DEF PublishLock, PublishRefuse, PublishCheck, PublishUnlock,
                  PublishProduce, PublishAbandon, PublishReport, shared, Inside
    <2>2. QED
      BY <2>1, InsideGoto DEF Goroutines
  <1>4. ASSUME NEW c \in Closes, CloseEnter(c) \/ CloseLock(c) \/ CloseStep(c)
        PROVE  same
    <2>1. c \notin Publishes /\ inFlight' = inFlight /\ \E l : Goto(c, l)
      BY <1>4, CallsDistinct DEF CloseEnter, CloseLock, CloseStep, CloseAgain,
         CloseMark, CloseWait, CloseFlush, CloseDestroy, CloseFinish, shared
    <2>2. QED
      BY <2>1, InsideGoto DEF Goroutines, Inside
  <1>5. ASSUME WatchFatal \/ WatchLock \/ WatchRecord \/ WatchEnd
        PROVE  same
    <2>1. Watcher \notin Publishes /\ inFlight' = inFlight /\ \E l : Goto(Watcher, l)
      BY <1>5, CallsDistinct DEF WatchFatal, WatchLock, WatchRecord, WatchEnd, shared
    <2>2. QED
      BY <2>1, InsideGoto DEF Goroutines, Inside
  <1>6. ASSUME UNCHANGED <<pc, inFlight>>
        PROVE  same
    BY <1>6 DEF Inside
  <1>7. QED
    BY <1>1, <1>2, <1>3, <1>4, <1>5, <1>6
       DEF Next, PublishStep, BrokerAppend, ClientReport, Terminated, vars, shared

\* The counter follows the calls counted by it, so Done finds it positive.
LEMMA CountStep == IInv /\ [Next]_vars => InFlightExact' /\ inFlight' \in Nat
  <1> SUFFICES ASSUME IInv, [Next]_vars
               PROVE  InFlightExact' /\ inFlight' \in Nat
    OBVIOUS
  <1> USE DEF InFlightExact
  <1>0. TypeOK /\ InFlightExact /\ IsFiniteSet(Inside) /\ inFlight \in Nat
    BY InsideFinite DEF IInv, TypeOK
  <1>1. ASSUME NEW p \in Publishes, PublishAdd(p), p \notin Inside, Inside' = Inside \cup {p}
        PROVE  InFlightExact' /\ inFlight' \in Nat
    BY <1>0, <1>1, FS_AddElement DEF PublishAdd
  <1>2. ASSUME NEW p \in Publishes, PublishDone(p), p \in Inside, Inside' = Inside \ {p}
        PROVE  InFlightExact' /\ inFlight' \in Nat
    BY <1>0, <1>2, FS_RemoveElement, InsideFinite DEF PublishDone
  <1>3. CASE Inside' = Inside /\ inFlight' = inFlight
    BY <1>0, <1>3
  <1>4. QED
    BY <1>0, <1>1, <1>2, <1>3, InsideStep

\* A step moves one goroutine at most.
LEMMA TypeStep == IInv /\ [Next]_vars => TypeOK'
  <1> SUFFICES ASSUME IInv, [Next]_vars
               PROVE  TypeOK'
    OBVIOUS
  <1> USE Apart DEF TypeOK, Goto, Goroutines, PublishPC, ClosePC, WatchPC, Outcomes
  <1>0. TypeOK /\ inFlight' \in Nat
    BY CountStep DEF IInv
  <1>1. ASSUME NEW p \in Publishes, PublishLock(p) \/ PublishRefuse(p) \/ PublishCheck(p)
        PROVE  TypeOK'
    BY <1>0, <1>1 DEF PublishLock, PublishRefuse, PublishCheck, shared, kafka
  <1>2. ASSUME NEW p \in Publishes, PublishAdd(p) \/ PublishUnlock(p) \/ PublishDone(p)
        PROVE  TypeOK'
    BY <1>0, <1>2 DEF PublishAdd, PublishUnlock, PublishDone, shared, kafka
  <1>3. ASSUME NEW p \in Publishes, PublishProduce(p) \/ PublishAbandon(p) \/ PublishReport(p)
        PROVE  TypeOK'
    BY <1>0, <1>3 DEF PublishProduce, PublishAbandon, PublishReport, shared, kafka
  <1>4. ASSUME NEW p \in Publishes, BrokerAppend(p) \/ ClientReport(p)
        PROVE  TypeOK'
    BY <1>0, <1>4 DEF BrokerAppend, ClientReport, shared
  <1>5. ASSUME NEW c \in Closes, CloseEnter(c) \/ CloseLock(c) \/ CloseMark(c) \/ CloseWait(c)
        PROVE  TypeOK'
    <2>1. CASE CloseEnter(c)
      BY <1>0, <2>1 DEF CloseEnter, shared, kafka
    <2>2. CASE CloseLock(c)
      BY <1>0, <2>2 DEF CloseLock, shared, kafka
    <2>3. CASE CloseMark(c)
      BY <1>0, <2>3 DEF CloseMark, shared, kafka
    <2>4. CASE CloseWait(c)
      BY <1>0, <2>4 DEF CloseWait, shared, kafka
    <2>5. QED
      BY <1>5, <2>1, <2>2, <2>3, <2>4
  <1>6. ASSUME NEW c \in Closes, CloseFlush(c) \/ CloseDestroy(c)
        PROVE  TypeOK'
    <2>1. CASE CloseFlush(c)
      BY <1>0, <2>1 DEF CloseFlush, Queued, shared, kafka
    <2>2. CASE CloseDestroy(c)
      BY <1>0, <2>2 DEF CloseDestroy, shared, kafka
    <2>3. QED
      BY <1>6, <2>1, <2>2
  <1>10. ASSUME NEW c \in Closes, CloseAgain(c) \/ CloseFinish(c)
         PROVE  TypeOK'
    <2>1. verdict' \in [Closes -> {"none", "nil", "undelivered"}]
      BY <1>0, <1>10 DEF CloseAgain, CloseFinish
    <2>2. CASE CloseAgain(c)
      BY <1>0, <2>1, <2>2 DEF CloseAgain, shared, kafka
    <2>3. CASE CloseFinish(c)
      BY <1>0, <2>1, <2>3 DEF CloseFinish, kafka
    <2>4. QED
      BY <1>10, <2>2, <2>3
  <1>7. ASSUME WatchFatal \/ WatchLock \/ WatchRecord \/ WatchEnd
        PROVE  TypeOK'
    <2>1. CASE WatchFatal
      BY <1>0, <2>1 DEF WatchFatal, shared, kafka
    <2>2. CASE WatchLock
      BY <1>0, <2>2 DEF WatchLock, shared, kafka
    <2>3. CASE WatchRecord
      BY <1>0, <2>3 DEF WatchRecord, shared, kafka
    <2>4. CASE WatchEnd
      BY <1>0, <2>4 DEF WatchEnd, shared, kafka
    <2>5. QED
      BY <1>7, <2>1, <2>2, <2>3, <2>4
  <1>8. CASE UNCHANGED vars
    BY <1>0, <1>8 DEF vars, shared, kafka
  <1>9. QED
    BY <1>1, <1>2, <1>3, <1>4, <1>5, <1>6, <1>7, <1>8, <1>10
       DEF Next, PublishStep, CloseStep, Terminated

\* Only the holder leaves a critical section, and only a free mutex is taken.
LEMMA MutexStep == IInv /\ [Next]_vars => MutexInv'
  <1> SUFFICES ASSUME IInv, [Next]_vars
               PROVE  MutexInv'
    OBVIOUS
  <1> USE Apart DEF MutexInv, Holding, Goto, Goroutines
  <1>0. /\ MutexInv /\ pc \in [Goroutines -> PublishPC \cup ClosePC \cup WatchPC]
        /\ \A c \in Closes : pc[c] \in ClosePC
    BY DEF IInv, TypeOK
  <1>1. ASSUME NEW p \in Publishes, PublishLock(p) \/ PublishRefuse(p) \/ PublishCheck(p)
        PROVE  MutexInv'
    BY <1>0, <1>1 DEF PublishLock, PublishRefuse, PublishCheck
  <1>2. ASSUME NEW p \in Publishes, PublishAdd(p) \/ PublishUnlock(p) \/ PublishDone(p)
        PROVE  MutexInv'
    BY <1>0, <1>2 DEF PublishAdd, PublishUnlock, PublishDone
  <1>3. ASSUME NEW p \in Publishes, PublishProduce(p) \/ PublishAbandon(p) \/ PublishReport(p)
        PROVE  MutexInv'
    BY <1>0, <1>3 DEF PublishProduce, PublishAbandon, PublishReport
  <1>4. ASSUME NEW p \in Publishes, BrokerAppend(p) \/ ClientReport(p)
        PROVE  MutexInv'
    BY <1>0, <1>4 DEF BrokerAppend, ClientReport
  <1>5. ASSUME NEW c \in Closes, CloseLock(c) \/ CloseMark(c)
        PROVE  MutexInv'
    BY <1>0, <1>5 DEF CloseLock, CloseMark
  <1>6. ASSUME NEW c \in Closes,
               \/ CloseEnter(c) \/ CloseAgain(c) \/ CloseWait(c) \/ CloseFlush(c)
               \/ CloseDestroy(c) \/ CloseFinish(c)
        PROVE  MutexInv'
    BY <1>0, <1>6 DEF CloseEnter, CloseAgain, CloseWait, CloseFlush, CloseDestroy, CloseFinish
  <1>7. ASSUME WatchFatal \/ WatchLock \/ WatchRecord \/ WatchEnd
        PROVE  MutexInv'
    BY <1>0, <1>7 DEF WatchFatal, WatchLock, WatchRecord, WatchEnd
  <1>8. CASE UNCHANGED vars
    BY <1>0, <1>8 DEF vars
  <1>9. QED
    BY <1>1, <1>2, <1>3, <1>4, <1>5, <1>6, <1>7, <1>8
       DEF Next, PublishStep, CloseStep, Terminated

\* closeOnce.Do lets one Close in, for good.
LEMMA OnceStep == IInv /\ [Next]_vars => OnceInv'
  <1> SUFFICES ASSUME IInv, [Next]_vars
               PROVE  OnceInv'
    OBVIOUS
  <1> USE Apart DEF OnceInv, Running, Goto, Goroutines
  <1>0. OnceInv /\ pc \in [Goroutines -> PublishPC \cup ClosePC \cup WatchPC]
    BY DEF IInv, TypeOK
  <1>1. ASSUME NEW g \in Goroutines \ Closes, NEW l, Goto(g, l), once' = once
        PROVE  OnceInv'
    BY <1>0, <1>1
  <1>2. ASSUME NEW p \in Publishes, PublishLock(p) \/ PublishAbandon(p) \/ PublishStep(p)
        PROVE  OnceInv'
    <2>1. once' = once /\ \E l : Goto(p, l)
      BY <1>2 DEF PublishLock, PublishAbandon, PublishStep, PublishRefuse, PublishCheck, PublishAdd,
                  PublishUnlock, PublishProduce, PublishReport, PublishDone, shared
    <2>2. QED
      BY <1>1, <2>1
  <1>3. ASSUME WatchFatal \/ WatchLock \/ WatchRecord \/ WatchEnd
        PROVE  OnceInv'
    <2>1. once' = once /\ \E l : Goto(Watcher, l)
      BY <1>3 DEF WatchFatal, WatchLock, WatchRecord, WatchEnd, shared
    <2>2. QED
      BY <1>1, <2>1
  <1>4. ASSUME NEW c \in Closes, CloseEnter(c) \/ CloseAgain(c)
        PROVE  OnceInv'
    BY <1>0, <1>4 DEF CloseEnter, CloseAgain, shared
  <1>5. ASSUME NEW c \in Closes, CloseFinish(c)
        PROVE  OnceInv'
    BY <1>0, <1>5 DEF CloseFinish
  <1>6. ASSUME NEW c \in Closes,
               CloseLock(c) \/ CloseMark(c) \/ CloseWait(c) \/ CloseFlush(c) \/ CloseDestroy(c)
        PROVE  OnceInv'
    BY <1>0, <1>6 DEF CloseLock, CloseMark, CloseWait, CloseFlush, CloseDestroy, shared
  <1>7. ASSUME pc' = pc, once' = once
        PROVE  OnceInv'
    BY <1>0, <1>7
  <1>8. QED
    BY <1>2, <1>3, <1>4, <1>5, <1>6, <1>7
       DEF Next, CloseStep, BrokerAppend, ClientReport, Terminated, vars, shared

\* Close marks p.closing while it holds the mutex, so no publish is between
\* its check and its Add then, and none passes the check later.
LEMMA ClosingStep == IInv /\ [Next]_vars => ClosingInv'
  <1> SUFFICES ASSUME IInv, [Next]_vars
               PROVE  ClosingInv'
    OBVIOUS
  <1> USE Apart DEF ClosingInv, Goto, Goroutines
  <1>0. ClosingInv /\ pc \in [Goroutines -> PublishPC \cup ClosePC \cup WatchPC]
    BY DEF IInv, TypeOK
  <1>1. ASSUME NEW p \in Publishes, PublishLock(p) \/ PublishRefuse(p) \/ PublishCheck(p)
        PROVE  ClosingInv'
    BY <1>0, <1>1 DEF PublishLock, PublishRefuse, PublishCheck, shared, kafka
  <1>2. ASSUME NEW p \in Publishes, PublishAdd(p) \/ PublishUnlock(p) \/ PublishDone(p)
        PROVE  ClosingInv'
    BY <1>0, <1>2 DEF PublishAdd, PublishUnlock, PublishDone, shared, kafka
  <1>3. ASSUME NEW p \in Publishes, PublishProduce(p) \/ PublishAbandon(p) \/ PublishReport(p)
        PROVE  ClosingInv'
    BY <1>0, <1>3 DEF PublishProduce, PublishAbandon, PublishReport, shared, kafka
  <1>4. ASSUME NEW c \in Closes, CloseMark(c)
        PROVE  ClosingInv'
    <2>1. \A p \in Publishes : pc[p] # "checked"
      BY <1>4 DEF IInv, MutexInv, Holding, CloseMark
    <2>2. QED
      BY <1>0, <1>4, <2>1 DEF CloseMark, kafka
  <1>5. ASSUME NEW c \in Closes,
               \/ CloseEnter(c) \/ CloseAgain(c) \/ CloseLock(c) \/ CloseWait(c)
               \/ CloseFlush(c) \/ CloseDestroy(c) \/ CloseFinish(c)
        PROVE  ClosingInv'
    BY <1>0, <1>5 DEF CloseEnter, CloseAgain, CloseLock, CloseWait, CloseFlush,
                      CloseDestroy, CloseFinish, shared, kafka
  <1>6. ASSUME WatchFatal \/ WatchLock \/ WatchEnd
        PROVE  ClosingInv'
    BY <1>0, <1>6 DEF WatchFatal, WatchLock, WatchEnd, shared, kafka
  <1>7. ASSUME WatchRecord
        PROVE  ClosingInv'
    <2>1. \A p \in Publishes : pc[p] # "checked"
      BY <1>7 DEF IInv, MutexInv, Holding, WatchRecord
    <2>2. QED
      BY <1>0, <1>7, <2>1 DEF WatchRecord, kafka
  <1>8. ASSUME UNCHANGED <<pc, closing, fatalErr, once, client>>
        PROVE  ClosingInv'
    BY <1>0, <1>8
  <1>9. QED
    BY <1>1, <1>2, <1>3, <1>4, <1>5, <1>6, <1>7, <1>8
       DEF Next, PublishStep, CloseStep, BrokerAppend, ClientReport, Terminated, vars, shared, kafka

\* Once closing is set the counted calls only get fewer, and Close goes past
\* its wait only when there are none.
LEMMA DrainedStep == IInv /\ [Next]_vars => DrainedInv'
  <1> SUFFICES ASSUME IInv, [Next]_vars
               PROVE  DrainedInv'
    OBVIOUS
  <1> USE Apart DEF DrainedInv
  <1>0. /\ DrainedInv /\ ClosingInv /\ TypeOK
        /\ pc \in [Goroutines -> PublishPC \cup ClosePC \cup WatchPC]
    BY DEF IInv, TypeOK
  <1>1. ASSUME NEW g \in Goroutines \ Closes, NEW l, Goto(g, l), once' = once,
               client' = client, l \notin {"added", "produce", "waiting", "returning"}
        PROVE  DrainedInv'
    BY <1>0, <1>1, InsideGoto DEF Goto, Goroutines
  <1>2. ASSUME NEW p \in Publishes, NEW l, Goto(p, l), once' = once, client' = client, p \in Inside
        PROVE  DrainedInv'
    BY <1>0, <1>2, InsideGoto DEF Goto, Goroutines
  <1>3. ASSUME NEW p \in Publishes, PublishAdd(p)
        PROVE  DrainedInv'
    <2>1. ~closing /\ once' = once /\ client' = client
      BY <1>0, <1>3 DEF PublishAdd, ClosingInv, kafka
    <2>2. /\ \A c \in Closes : pc'[c] \notin {"flush", "destroy", "finish"}
          /\ client # "closed" /\ once # "done"
      BY <1>0, <1>3, <2>1 DEF PublishAdd, ClosingInv, Goto, Goroutines
    <2>3. QED
      BY <2>1, <2>2
  <1>4. ASSUME NEW p \in Publishes, PublishLock(p) \/ PublishRefuse(p) \/ PublishCheck(p) \/ PublishDone(p)
        PROVE  DrainedInv'
    BY <1>1, <1>4 DEF PublishLock, PublishRefuse, PublishCheck, PublishDone, shared, kafka, Goroutines
  <1>5. ASSUME NEW p \in Publishes,
               PublishUnlock(p) \/ PublishProduce(p) \/ PublishAbandon(p) \/ PublishReport(p)
        PROVE  DrainedInv'
    BY <1>2, <1>5 DEF PublishUnlock, PublishProduce, PublishAbandon, PublishReport, shared, kafka, Inside
  <1>6. ASSUME NEW c \in Closes, CloseEnter(c) \/ CloseAgain(c) \/ CloseLock(c) \/ CloseMark(c)
        PROVE  DrainedInv'
    <2>1. Inside' = Inside /\ client' = client
      BY <1>0, <1>6, InsideGoto DEF CloseEnter, CloseAgain, CloseLock, CloseMark, kafka, Goroutines, Inside
    <2>2. once' = "done" => once = "done"
      BY <1>6 DEF CloseEnter, CloseAgain, CloseLock, CloseMark, shared
    <2>3. \A d \in Closes : pc'[d] \in {"flush", "destroy", "finish"} =>
             pc[d] \in {"flush", "destroy", "finish"}
      BY <1>0, <1>6 DEF CloseEnter, CloseAgain, CloseLock, CloseMark, Goto, Goroutines
    <2>4. QED
      BY <1>0, <2>1, <2>2, <2>3
  <1>7. ASSUME NEW c \in Closes,
               CloseWait(c) \/ CloseFlush(c) \/ CloseDestroy(c) \/ CloseFinish(c)
        PROVE  DrainedInv'
    <2>1. Inside = {}
      BY <1>0, <1>7, InsideFinite DEF CloseWait, CloseFlush, CloseDestroy, CloseFinish,
                                      IInv, InFlightExact
    <2>2. Inside' = Inside
      BY <1>0, <1>7, InsideGoto DEF CloseWait, CloseFlush, CloseDestroy, CloseFinish, Goroutines, Inside
    <2>3. QED
      BY <2>1, <2>2
  <1>8. ASSUME WatchFatal \/ WatchLock \/ WatchRecord \/ WatchEnd
        PROVE  DrainedInv'
    BY <1>1, <1>8 DEF WatchFatal, WatchLock, WatchRecord, WatchEnd, shared, kafka, Goroutines
  <1>9. ASSUME UNCHANGED <<pc, once, client>>
        PROVE  DrainedInv'
    BY <1>0, <1>9 DEF Inside
  <1>10. QED
    BY <1>3, <1>4, <1>5, <1>6, <1>7, <1>8, <1>9
       DEF Next, PublishStep, CloseStep, BrokerAppend, ClientReport, Terminated, vars, shared, kafka

\* Between Flush and client.Close nobody produces: what is dropped was among
\* the messages Flush gave up on.
LEMMA FlushStep == IInv /\ [Next]_vars => FlushInv'
  <1> SUFFICES ASSUME IInv, [Next]_vars
               PROVE  FlushInv'
    OBVIOUS
  <1> USE Apart DEF FlushInv, Running, Dropped, Queued, Goto, Goroutines
  <1>0. /\ FlushInv /\ OnceInv /\ DrainedInv
        /\ pc \in [Goroutines -> PublishPC \cup ClosePC \cup WatchPC]
        /\ message \in [Publishes -> {"none", "queued", "acked", "failed", "dropped"}]
        /\ verdict \in [Closes -> {"none", "nil", "undelivered"}]
        /\ client \in {"open", "closed"} /\ closeErr \in BOOLEAN
    BY DEF IInv, TypeOK
  <1>1. ASSUME NEW g \in Goroutines \ Closes, NEW l, Goto(g, l),
               UNCHANGED <<once, closeErr, left, client, message, verdict>>
        PROVE  FlushInv'
    BY <1>0, <1>1
  <1>2. ASSUME NEW p \in Publishes,
               \/ PublishLock(p) \/ PublishRefuse(p) \/ PublishCheck(p) \/ PublishAdd(p)
               \/ PublishUnlock(p) \/ PublishAbandon(p) \/ PublishReport(p) \/ PublishDone(p)
        PROVE  FlushInv'
    BY <1>1, <1>2 DEF PublishLock, PublishRefuse, PublishCheck, PublishAdd, PublishUnlock,
                      PublishAbandon, PublishReport, PublishDone, shared, kafka
  <1>3. ASSUME NEW p \in Publishes, PublishProduce(p)
        PROVE  FlushInv'
    <2>1. /\ client # "closed" /\ once # "done"
          /\ \A c \in Closes : pc[c] \notin {"destroy", "finish"}
      BY <1>0, <1>3 DEF PublishProduce, DrainedInv, Inside
    <2>2. Dropped' = {}
      BY <1>0, <1>3, <2>1 DEF PublishProduce, kafka
    <2>3. QED
      BY <1>0, <1>3, <2>1, <2>2 DEF PublishProduce, shared, kafka
  <1>4. ASSUME NEW p \in Publishes, ClientReport(p)
        PROVE  FlushInv'
    <2>1. Dropped' \subseteq Dropped /\ Queued' \subseteq Queued
      BY <1>0, <1>4 DEF ClientReport
    <2>2. QED
      BY <1>0, <1>4, <2>1 DEF ClientReport, shared
  <1>5. ASSUME NEW c \in Closes,
               CloseEnter(c) \/ CloseLock(c) \/ CloseMark(c) \/ CloseWait(c)
        PROVE  FlushInv'
    BY <1>0, <1>5 DEF CloseEnter, CloseLock, CloseMark, CloseWait, shared, kafka
  <1>6. ASSUME NEW c \in Closes, CloseAgain(c)
        PROVE  FlushInv'
    BY <1>0, <1>6 DEF CloseAgain, shared, kafka
  <1>7. ASSUME NEW c \in Closes, CloseFlush(c)
        PROVE  FlushInv'
    <2>1. \A d \in Closes : pc[d] = "finish" => d = c
      BY <1>0, <1>7 DEF CloseFlush, OnceInv, Running
    <2>2. QED
      BY <1>0, <1>7, <2>1 DEF CloseFlush, shared, kafka
  <1>8. ASSUME NEW c \in Closes, CloseDestroy(c)
        PROVE  FlushInv'
    <2>1. once = "running" /\ \A d \in Closes : Running(d) => d = c
      BY <1>0, <1>8 DEF CloseDestroy, OnceInv
    <2>2. Dropped' \subseteq left' /\ Queued' = {}
      BY <1>0, <1>8 DEF CloseDestroy, shared
    <2>3. QED
      BY <1>0, <1>8, <2>1, <2>2 DEF CloseDestroy, shared
  <1>9. ASSUME NEW c \in Closes, CloseFinish(c)
        PROVE  FlushInv'
    <2>1. /\ once = "running" /\ \A d \in Closes : pc[d] \in {"destroy", "finish"} => d = c
      BY <1>0, <1>9 DEF CloseFinish, OnceInv, Running
    <2>2. QED
      BY <1>0, <1>9, <2>1 DEF CloseFinish, kafka
  <1>10. ASSUME WatchFatal \/ WatchLock \/ WatchRecord \/ WatchEnd
         PROVE  FlushInv'
    BY <1>1, <1>10 DEF WatchFatal, WatchLock, WatchRecord, WatchEnd, shared, kafka
  <1>11. ASSUME UNCHANGED <<pc, once, closeErr, left, client, message, verdict>>
         PROVE  FlushInv'
    BY <1>0, <1>11
  <1>12. QED
    BY <1>2, <1>3, <1>4, <1>5, <1>6, <1>7, <1>8, <1>9, <1>10, <1>11
       DEF Next, PublishStep, CloseStep, BrokerAppend, Terminated, vars, shared, kafka

\* A message moves forward: none, queued, then acked, failed or dropped.
LEMMA MessageStep == IInv /\ [Next]_vars => MessageInv'
  <1> SUFFICES ASSUME IInv, [Next]_vars
               PROVE  MessageInv'
    OBVIOUS
  <1> USE Apart DEF MessageInv, Goto, Goroutines
  <1>0. /\ MessageInv
        /\ pc \in [Goroutines -> PublishPC \cup ClosePC \cup WatchPC]
        /\ message \in [Publishes -> {"none", "queued", "acked", "failed", "dropped"}]
        /\ outcome \in [Publishes -> Outcomes]
    BY DEF IInv, TypeOK
  <1>1. ASSUME NEW p \in Publishes,
               \/ PublishLock(p) \/ PublishCheck(p) \/ PublishAdd(p)
               \/ PublishUnlock(p) \/ PublishDone(p)
        PROVE  MessageInv'
    BY <1>0, <1>1 DEF PublishLock, PublishCheck, PublishAdd, PublishUnlock, PublishDone, kafka
  <1>2. ASSUME NEW p \in Publishes, PublishRefuse(p)
        PROVE  MessageInv'
    BY <1>0, <1>2 DEF PublishRefuse, kafka
  <1>3. ASSUME NEW p \in Publishes, PublishProduce(p)
        PROVE  MessageInv'
    BY <1>0, <1>3 DEF PublishProduce
  <1>4. ASSUME NEW p \in Publishes, PublishAbandon(p) \/ PublishReport(p)
        PROVE  MessageInv'
    BY <1>0, <1>4 DEF PublishAbandon, PublishReport, kafka
  <1>5. ASSUME NEW p \in Publishes, BrokerAppend(p) \/ ClientReport(p)
        PROVE  MessageInv'
    BY <1>0, <1>5 DEF BrokerAppend, ClientReport
  <1>6. ASSUME NEW g \in Goroutines \ Publishes, NEW l, Goto(g, l),
               UNCHANGED <<message, log, outcome>>
        PROVE  MessageInv'
    BY <1>0, <1>6
  <1>7. ASSUME NEW c \in Closes,
               \/ CloseEnter(c) \/ CloseAgain(c) \/ CloseLock(c) \/ CloseMark(c)
               \/ CloseWait(c) \/ CloseFlush(c) \/ CloseFinish(c)
        PROVE  MessageInv'
    BY <1>6, <1>7 DEF CloseEnter, CloseAgain, CloseLock, CloseMark, CloseWait, CloseFlush,
                      CloseFinish, kafka
  <1>8. ASSUME NEW c \in Closes, CloseDestroy(c)
        PROVE  MessageInv'
    BY <1>0, <1>8 DEF CloseDestroy, Queued
  <1>9. ASSUME WatchFatal \/ WatchLock \/ WatchRecord \/ WatchEnd
        PROVE  MessageInv'
    BY <1>6, <1>9 DEF WatchFatal, WatchLock, WatchRecord, WatchEnd, kafka
  <1>10. ASSUME UNCHANGED <<pc, message, log, outcome>>
         PROVE  MessageInv'
    BY <1>0, <1>10
  <1>11. QED
    BY <1>1, <1>2, <1>3, <1>4, <1>5, <1>7, <1>8, <1>9, <1>10
       DEF Next, PublishStep, CloseStep, Terminated, vars, kafka

-----------------------------------------------------------------------------
(* Theorems *)

\* The inductive invariant holds of every reachable state.
THEOREM Invariance == Spec => []IInv
  <1>1. IInv /\ [Next]_vars => IInv'
    BY TypeStep, CountStep, MutexStep, OnceStep, ClosingStep, DrainedStep, FlushStep,
       MessageStep DEF IInv
  <1>2. QED
    BY InitIInv, <1>1, PTL DEF Spec

\* Every variable keeps its type; in particular Done never takes the WaitGroup
\* below zero, where sync.WaitGroup would panic.
THEOREM TypeCorrect == Spec => []TypeOK
  BY Invariance, PTL DEF IInv

\* The WaitGroup counts exactly the calls between Add and Done.
THEOREM CounterExact == Spec => []InFlightExact
  BY Invariance, PTL DEF IInv

\* The client is open as long as a publish may use it or waits for its report.
THEOREM ClientOutlives == Spec => []ClientOutlivesPublishes
  <1>1. IInv => ClientOutlivesPublishes
    BY DEF IInv, DrainedInv, TypeOK, ClientOutlivesPublishes
  <1>2. QED
    BY Invariance, <1>1, PTL

\* A nil result of any Close means a released client and no lost message.
THEOREM NilCloseIsClean == Spec => []NilCloseLosesNothing
  <1>1. IInv => NilCloseLosesNothing
    BY DEF IInv, FlushInv, NilCloseLosesNothing, Dropped
  <1>2. QED
    BY Invariance, <1>1, PTL

\* Publish tells its caller the truth about the record, or that it is unknown.
THEOREM OutcomesAreHonest == Spec => []OutcomeHonest
  <1>1. IInv => OutcomeHonest
    BY DEF IInv, MessageInv, OutcomeHonest
  <1>2. QED
    BY Invariance, <1>1, PTL

\* Shutdown and fatal errors close the door: nobody gets in behind them.
THEOREM NobodyEntersLate == Spec => NoLateEntry
  <1>1. IInv /\ [Next]_vars => ((closing \/ fatalErr) => Inside' \subseteq Inside)
    <2> SUFFICES ASSUME IInv, [Next]_vars, closing \/ fatalErr
                 PROVE  Inside' \subseteq Inside
      OBVIOUS
    <2>1. \A p \in Publishes : ~PublishAdd(p)
      BY DEF IInv, ClosingInv, PublishAdd
    <2>2. QED
      BY <2>1, InsideStep DEF IInv
  <1>2. QED
    BY Invariance, <1>1, PTL DEF NoLateEntry, Spec

\* Deadlock freedom of mutex, WaitGroup, Once and delivery channels, however
\* many publishes and closes there are.
THEOREM WaitsAreAnswered == Spec => []NobodyWaitsInVain
  <1>1. IInv => NobodyWaitsInVain
    <2> SUFFICES ASSUME IInv PROVE NobodyWaitsInVain
      OBVIOUS
    <2>1. mu # Nobody => pc[mu] \in {"locked", "checked", "added"}
      BY DEF IInv, TypeOK, MutexInv, Holding
    <2>2. inFlight # 0 => Inside # {}
      BY InsideFinite DEF IInv, InFlightExact
    <2>3. once = "running" =>
            \E c \in Closes : pc[c] \in {"lock", "locked", "wait", "flush", "destroy", "finish"}
      BY DEF IInv, OnceInv, Running
    <2>4. ASSUME NEW p \in Publishes, pc[p] = "waiting"
          PROVE  message[p] \in {"acked", "failed"} \/ (message[p] = "queued" /\ client = "open")
      <3>1. client = "open"
        BY <2>4 DEF IInv, TypeOK, DrainedInv, Inside
      <3>2. message[p] \notin {"none", "dropped"}
        BY <2>4, <3>1 DEF IInv, MessageInv, FlushInv, Dropped
      <3>3. QED
        BY <3>1, <3>2 DEF IInv, TypeOK
    <2>5. QED
      BY <2>1, <2>2, <2>3, <2>4 DEF NobodyWaitsInVain
  <1>2. QED
    BY Invariance, <1>1, PTL

-----------------------------------------------------------------------------
(* The producer implements the gate *)

gateNow == IF client = "closed" THEN "shut" ELSE IF closing THEN "draining" ELSE "open"
leftNow == {p \in Publishes : pc[p] = "done"}

\* A step that changes neither the gate, nor who is inside, nor who has left
\* is a stutter of the gate.
LEMMA GateStutter ==
    gateNow' = gateNow /\ Inside' = Inside /\ leftNow' = leftNow => UNCHANGED Gate!vars
  BY DEF gateNow, leftNow, Gate!vars

\* Where a step of one goroutine leaves the set of calls that have returned.
LEMMA LeftGoto ==
    ASSUME TypeOK, NEW g \in Goroutines, NEW l, Goto(g, l)
    PROVE  leftNow' = IF g \in Publishes /\ l = "done" THEN leftNow \cup {g} ELSE leftNow \ {g}
  BY CallsDistinct DEF TypeOK, Goto, leftNow, Goroutines

\* Each step of the producer is a step of the gate or leaves it as it was.
LEMMA GateStep == IInv /\ [Next]_vars => [Gate!Next]_(Gate!vars)
  <1> SUFFICES ASSUME IInv, [Next]_vars
               PROVE  Gate!Next \/ UNCHANGED Gate!vars
    OBVIOUS
  <1> USE Apart
  <1>0. TypeOK
    BY DEF IInv
  <1>1. ASSUME NEW p \in Publishes, PublishRefuse(p)
        PROVE  Gate!TurnAway(p)
    <2>1. p \notin Inside /\ p \notin leftNow /\ gateNow' = gateNow
      BY <1>1 DEF PublishRefuse, Inside, leftNow, gateNow, shared, kafka
    <2>2. Inside' = Inside /\ leftNow' = leftNow \cup {p}
      BY <1>0, <1>1, <2>1, InsideGoto, LeftGoto DEF PublishRefuse, Goroutines
    <2>3. QED
      BY <2>1, <2>2 DEF Gate!TurnAway, leftNow, gateNow
  <1>2. ASSUME NEW p \in Publishes, PublishAdd(p)
        PROVE  Gate!Enter(p)
    <2>1. p \notin Inside /\ p \notin leftNow /\ gateNow = "open" /\ gateNow' = gateNow
      BY <1>2 DEF PublishAdd, Inside, leftNow, gateNow, shared, kafka, IInv, ClosingInv
    <2>2. Inside' = Inside \cup {p} /\ leftNow' = leftNow
      BY <1>0, <1>2, <2>1, InsideGoto, LeftGoto DEF PublishAdd, Goroutines
    <2>3. QED
      BY <2>1, <2>2 DEF Gate!Enter, leftNow, gateNow
  <1>3. ASSUME NEW p \in Publishes, PublishDone(p)
        PROVE  Gate!Leave(p)
    <2>1. p \in Inside /\ gateNow' = gateNow
      BY <1>3 DEF PublishDone, Inside, gateNow, kafka
    <2>2. Inside' = Inside \ {p} /\ leftNow' = leftNow \cup {p}
      BY <1>0, <1>3, InsideGoto, LeftGoto DEF PublishDone, Goroutines
    <2>3. QED
      BY <2>1, <2>2 DEF Gate!Leave, leftNow, gateNow
  <1>4. ASSUME NEW p \in Publishes,
               \/ PublishLock(p) \/ PublishCheck(p) \/ PublishUnlock(p)
               \/ PublishProduce(p) \/ PublishAbandon(p) \/ PublishReport(p)
        PROVE  UNCHANGED Gate!vars
    <2>1. PICK l : /\ Goto(p, l) /\ l # "done" /\ pc[p] # "done"
                   /\ p \in Inside <=> l \in {"added", "produce", "waiting", "returning"}
      BY <1>4 DEF PublishLock, PublishCheck, PublishUnlock, PublishProduce, PublishAbandon,
                  PublishReport, Inside
    <2>2. Inside' = Inside /\ leftNow' = leftNow
      BY <1>0, <2>1, InsideGoto, LeftGoto DEF Goroutines, leftNow
    <2>3. gateNow' = gateNow
      BY <1>4 DEF PublishLock, PublishCheck, PublishUnlock, PublishProduce, PublishAbandon,
                  PublishReport, gateNow, shared, kafka
    <2>4. QED
      BY <2>2, <2>3, GateStutter
  <1>5. ASSUME NEW g \in Goroutines \ Publishes, NEW l, Goto(g, l)
        PROVE  Inside' = Inside /\ leftNow' = leftNow
    BY <1>0, <1>5, InsideGoto, LeftGoto DEF Inside, leftNow
  <1>6. ASSUME NEW c \in Closes, CloseMark(c)
        PROVE  Gate!Drain \/ UNCHANGED Gate!vars
    <2>1. Inside' = Inside /\ leftNow' = leftNow
      BY <1>5, <1>6 DEF CloseMark, Goroutines
    <2>2. gateNow' = gateNow \/ (gateNow = "open" /\ gateNow' = "draining")
      BY <1>6 DEF CloseMark, gateNow, kafka
    <2>3. QED
      BY <2>1, <2>2, GateStutter DEF Gate!Drain, gateNow, leftNow
  <1>7. ASSUME NEW c \in Closes, CloseDestroy(c)
        PROVE  Gate!Shut
    <2>1. Inside' = Inside /\ leftNow' = leftNow
      BY <1>5, <1>7 DEF CloseDestroy, Goroutines
    <2>2. Inside = {} /\ gateNow = "draining" /\ gateNow' = "shut"
      BY <1>7 DEF CloseDestroy, gateNow, IInv, DrainedInv, ClosingInv, FlushInv, Running
    <2>3. QED
      BY <2>1, <2>2 DEF Gate!Shut, gateNow, leftNow
  <1>8. ASSUME NEW c \in Closes,
               \/ CloseEnter(c) \/ CloseAgain(c) \/ CloseLock(c) \/ CloseWait(c)
               \/ CloseFlush(c) \/ CloseFinish(c)
        PROVE  UNCHANGED Gate!vars
    <2>1. gateNow' = gateNow /\ \E l : Goto(c, l)
      BY <1>8 DEF CloseEnter, CloseAgain, CloseLock, CloseWait, CloseFlush, CloseFinish,
                  gateNow, shared, kafka
    <2>2. QED
      BY <1>5, <2>1, GateStutter DEF Goroutines
  <1>9. ASSUME WatchFatal \/ WatchLock \/ WatchRecord \/ WatchEnd
        PROVE  UNCHANGED Gate!vars
    <2>1. gateNow' = gateNow /\ \E l : Goto(Watcher, l)
      BY <1>9 DEF WatchFatal, WatchLock, WatchRecord, WatchEnd, gateNow, shared, kafka
    <2>2. QED
      BY <1>5, <2>1, GateStutter DEF Goroutines
  <1>10. ASSUME UNCHANGED <<pc, closing, client>>
         PROVE  UNCHANGED Gate!vars
    BY <1>10, GateStutter DEF gateNow, leftNow, Inside
  <1>11. QED
    BY <1>1, <1>2, <1>3, <1>4, <1>6, <1>7, <1>8, <1>9, <1>10
       DEF Gate!Next, Next, PublishStep, CloseStep, BrokerAppend, ClientReport, Terminated,
           vars, shared, kafka

\* The producer implements the gate: its safety is that of ShutdownGate.
THEOREM Refinement == Spec => ImplementsGate
  <1>1. Init => Gate!Init
    BY CallsDistinct DEF Init, Gate!Init, Inside, Goroutines
  <1>2. QED
    BY Invariance, <1>1, GateStep, PTL DEF Spec, ImplementsGate, Gate!Spec
=============================================================================
