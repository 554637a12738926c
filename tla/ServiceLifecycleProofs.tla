----------------------- MODULE ServiceLifecycleProofs -----------------------
(* Theorems about ServiceLifecycle, UserCache and ConfigLoad, for any requests, *)
(* rows and configurations.                                                     *)
EXTENDS ServiceLifecycle, TLAPS

Starting == {"load", "topics", "db", "migrate", "redis", "producer", "listen", "serve"}
Ending   == {"closeProducer", "waitProducer", "closeRedis", "closeDB", "exited"}

\* What the gRPC server and the goroutine that stops it are at, by the
\* statement of main.
ServerInv ==
    /\ main \in Starting \cup {"failed"} => server = "none"
    /\ server = "none" => Running = {} /\ stopper = "none" /\ main \notin Ending
    /\ main = "wait" => server \in {"serving", "broken"} /\ stopper = "none"
    /\ main = "draining" => /\ server \in {"serving", "broken", "draining"}
                            /\ stopper # "none" /\ health = "NOT_SERVING"
    /\ stopper \in {"draining", "done"} => server \in {"draining", "stopped"}
    /\ stopper = "done" => Running = {}

\* How main got past the server: it was stopped by force, broken, or drained.
EndingInv ==
    main \in Ending =>
        /\ server = "stopped" \/ (server = "broken" /\ stopper = "none") \/ stopper = "done"
        /\ server = "broken" \/ health = "NOT_SERVING"

\* Which dependencies are open, by the statement of main.
DepsInv ==
    /\ main \in {"wait", "draining", "closeProducer", "waitProducer"}
          => redis = "open" /\ db = "open"
    /\ main \in {"producer", "listen", "serve"} => redis = "open" /\ db = "open"
    /\ main \in {"migrate", "redis"} => db = "open"
    /\ main \in Starting \cup {"wait", "draining", "closeProducer", "failed"} => gate = "open"
    /\ main = "waitProducer" => gate = "draining"
    /\ main \in {"closeRedis", "closeDB", "exited"} => gate = "shut"
    /\ gate = "shut" => inside = {}
    /\ met # {} => main \in Ending /\ server \in {"stopped", "broken"}

IInv == TypeOK /\ ServerInv /\ EndingInv /\ DepsInv

\* What is cached has a TTL, unless this run has cached it and its TTL is none.
\* (Before it serves, the service caches nothing.)
CopiesInv == cache # Nothing /\ (ttl > 0 \/ server = "none") => timed

-----------------------------------------------------------------------------
(* Configuration *)

\* A file that can be read gives what the environment lacks; one that cannot
\* be read ends Load.
LEMMA LoadFileResult ==
    ASSUME NEW env, NEW file
    PROVE  /\ file.state = "missing" => LoadFile([env |-> env, error |-> FALSE], file)
                                           = [env |-> env, error |-> FALSE]
           /\ file.state = "error" => LoadFile([env |-> env, error |-> FALSE], file)
                                           = [env |-> env, error |-> TRUE]
           /\ file.state = "read" => LoadFile([env |-> env, error |-> FALSE], file)
                                           = [env |-> SetAbsent(env, file), error |-> FALSE]
BY DEF LoadFile

\* An error is not made good by another file.
LEMMA LoadFileAfterError ==
    ASSUME NEW env, NEW file
    PROVE  LoadFile([env |-> env, error |-> TRUE], file) = [env |-> env, error |-> TRUE]
BY DEF LoadFile

\* The value a variable has after a file was loaded.
LEMMA LoadFileValue ==
    ASSUME NEW env, NEW file, NEW v \in DOMAIN env
    PROVE  /\ SetAbsent(env, file)[v] = IF env[v] = Absent THEN file.vars[v] ELSE env[v]
           /\ v \in DOMAIN SetAbsent(env, file)
BY DEF SetAbsent

\* The order of the files, and what Load leaves alone, decide where a setting
\* comes from.
LEMMA Precedes ==
    ASSUME NEW env \in Envs, NEW local \in Files, NEW dotEnv \in Files
    PROVE  LET loaded == loadOptionalDotEnvFiles(env, local, dotEnv) IN
           /\ loaded.error <=> "error" \in {local.state, dotEnv.state}
           /\ ~loaded.error =>
                 RedisUserTTL(loaded)
                     = getEnvInt(Given(env, local, dotEnv, "REDIS_USER_TTL"), 86400)
<1> DEFINE v   == "REDIS_USER_TTL"
           one == IF local.state = "read" THEN SetAbsent(env, local) ELSE env
           two == IF dotEnv.state = "read" THEN SetAbsent(one, dotEnv) ELSE one
           err == "error" \in {local.state, dotEnv.state}
           loaded == loadOptionalDotEnvFiles(env, local, dotEnv)
<1>1. /\ local.state \in {"missing", "error", "read"} /\ dotEnv.state \in {"missing", "error", "read"}
      /\ v \in DOMAIN env
  BY ConfigConstants
<1>2. LoadFile([env |-> env, error |-> FALSE], local) = [env |-> one, error |-> local.state = "error"]
  BY <1>1, LoadFileResult
<1>3. CASE local.state = "error"
  <2>1. loaded = [env |-> env, error |-> TRUE]
    <3>1. LoadFile([env |-> env, error |-> FALSE], local) = [env |-> env, error |-> TRUE]
      BY <1>3, LoadFileResult
    <3> QED
      BY <3>1, LoadFileAfterError DEF loadOptionalDotEnvFiles
  <2>2. loaded.error = TRUE
    BY <2>1
  <2> QED
    BY <1>3, <2>2
<1>4. CASE local.state # "error"
  <2>1. LoadFile([env |-> env, error |-> FALSE], local) = [env |-> one, error |-> FALSE]
    BY <1>1, <1>4, LoadFileResult
  <2>2. loaded = LoadFile([env |-> one, error |-> FALSE], dotEnv)
    BY <2>1 DEF loadOptionalDotEnvFiles
  <2>3. v \in DOMAIN one /\ one[v] = IF local.state = "read" /\ env[v] = Absent
                                    THEN local.vars[v] ELSE env[v]
    BY <1>1, LoadFileValue
  <2> HIDE DEF one
  <2>4. two[v] = IF dotEnv.state = "read" /\ one[v] = Absent THEN dotEnv.vars[v] ELSE one[v]
    BY <2>3, LoadFileValue
  <2>5. CASE dotEnv.state = "error"
    <3>1. loaded = [env |-> one, error |-> TRUE]
      BY <2>2, <2>5, LoadFileResult
    <3>2. loaded.error = TRUE
      BY <3>1
    <3> QED
      BY <2>5, <3>2
  <2>6. CASE dotEnv.state # "error"
    <3>1. loaded = [env |-> two, error |-> FALSE]
      BY <1>1, <2>2, <2>6, LoadFileResult
    <3> HIDE DEF two, loaded
    <3>2. loaded.error = FALSE /\ loaded.env = two
      BY <3>1
    <3>3. two[v] = Given(env, local, dotEnv, v)
      BY <1>1, <1>4, <2>3, <2>4, <2>6 DEF Given
    <3>4. RedisUserTTL(loaded) = getEnvInt(Given(env, local, dotEnv, v), 86400)
      BY <3>2, <3>3 DEF RedisUserTTL
    <3> QED
      BY <1>4, <2>6, <3>2, <3>4 DEF loaded
  <2> QED
    BY <2>5, <2>6
<1> QED
  BY <1>3, <1>4

\* An integer setting is an integer whatever the files say.
LEMMA TTLIsInt ==
    ASSUME NEW env \in Envs, NEW local \in Files, NEW dotEnv \in Files,
           ~loadOptionalDotEnvFiles(env, local, dotEnv).error
    PROVE  RedisUserTTL(loadOptionalDotEnvFiles(env, local, dotEnv)) \in Int
<1> DEFINE g == Given(env, local, dotEnv, "REDIS_USER_TTL")
<1>1. g \in Setting
  BY ConfigConstants DEF Given, Setting
<1>2. getEnvInt(g, 86400) \in Int
  BY <1>1 DEF getEnvInt, Setting, Absent
<1> QED
  BY <1>2, Precedes

\* The precedence the comment promises (load-env.go:152-153).
THEOREM Precedence == Spec => []SettingsByPrecedence
<1>1. SettingsByPrecedence
  BY Precedes DEF SettingsByPrecedence
<1> QED
  BY <1>1, PTL

-----------------------------------------------------------------------------
(* The inductive invariant *)

\* The statements of main.
LEMMA MainType == {StartUp[i] : i \in DOMAIN StartUp} = Starting
BY DEF StartUp, Starting

\* Requests run on as they did.
LEMMA RunningSame ==
    ASSUME UNCHANGED <<reader, sender>>
    PROVE  Running' = Running
BY DEF Running

\* The user's row and its copies keep their types if they keep their values.
LEMMA UserSame ==
    ASSUME TypeOKUser, UNCHANGED <<row, cache, timed, reader, got>>, ttl' \in Int
    PROVE  TypeOKUser'
BY DEF TypeOKUser

\* The invariant holds at the start.
LEMMA InvInit == Init => IInv
<1> SUFFICES ASSUME Init PROVE IInv
  OBVIOUS
<1> USE DEF Init, InitUser, Producer!Init
<1>1. main = "load" /\ Running = {}
  BY DEF Running
<1>2. TypeOK
  <2>1. TypeOKUser
    <3>1. timed \in BOOLEAN /\ (timed => cache # Nothing)
      OBVIOUS
    <3>2. /\ reader = [r \in Readers |-> "idle"] /\ got = [r \in Readers |-> NoRow]
          /\ row \in Versions \cup {NoRow} /\ cache \in {Nothing, Garbled} /\ ttl = 0
      OBVIOUS
    <3> HIDE DEF Init, InitUser
    <3> QED
      BY <3>1, <3>2 DEF TypeOKUser
  <2>2. main \in {StartUp[i] : i \in DOMAIN StartUp}
    BY <1>1, MainType DEF Starting
  <2> QED
    BY <2>1, <2>2 DEF TypeOK
<1> QED
  BY <1>1, <1>2 DEF IInv, ServerInv, EndingInv, DepsInv, Starting, Ending

\* The start-up opens the dependencies in this order.
LEMMA StartUpOrder ==
    ASSUME OpenNext
    PROVE  \/ Open("topics", "db") \/ Open("db", "migrate") \/ Open("migrate", "redis")
           \/ Open("redis", "producer") \/ Open("producer", "listen") \/ Open("listen", "serve")
<1>1. PICK i \in 2..Len(StartUp) - 1 : Open(StartUp[i], StartUp[i + 1])
  BY DEF OpenNext
<1>2. Len(StartUp) = 8
  BY DEF StartUp
<1>3. i \in {2, 3, 4, 5, 6, 7}
  BY <1>2
<1> QED
  BY <1>1, <1>3 DEF StartUp

\* A step of main keeps the invariant.
LEMMA MainStep ==
    ASSUME IInv, Main
    PROVE  IInv'
<1> USE MainType, RunningSame, UserSame
    DEF Starting, Ending, requests, gateVars, rowVars, cacheVars, readerVars, userVars,
        IInv, TypeOK, ServerInv, EndingInv, DepsInv
<1>0. TypeOKUser /\ ttl \in Int
  BY DEF TypeOKUser
<1>1. CASE Load
  <2>1. ttl' \in Int
    BY <1>0, <1>1, TTLIsInt DEF Load
  <2>2. /\ main = "load" /\ main' \in {"failed", "topics"}
        /\ UNCHANGED <<signalled, health, server, stopper, watch, redis, db, gate, inside, left,
                       sender, met, row, cache, timed, reader, got>>
    BY <1>1 DEF Load
  <2> QED
    BY <1>0, <2>1, <2>2
<1>2. CASE OpenNext
  BY <1>0, <1>2, StartUpOrder DEF Open
<1>3. CASE Serve
  BY <1>0, <1>3 DEF Serve
<1>4. CASE ServeFailed
  BY <1>0, <1>4 DEF ServeFailed
<1>5. CASE SignalReceived
  BY <1>0, <1>5 DEF SignalReceived
<1>6. CASE GracefulDone
  BY <1>0, <1>6 DEF GracefulDone
<1>7. CASE TimeOut
  BY <1>0, <1>7 DEF TimeOut
<1>8. CASE CloseProducer
  BY <1>0, <1>8 DEF CloseProducer, Producer!Drain
<1>9. CASE WaitProducer
  BY <1>0, <1>9 DEF WaitProducer, Producer!Shut
<1>10. CASE CloseRedis
  BY <1>0, <1>10 DEF CloseRedis
<1>11. CASE CloseDB
  BY <1>0, <1>11 DEF CloseDB
<1> QED
  BY <1>1, <1>2, <1>3, <1>4, <1>5, <1>6, <1>7, <1>8, <1>9, <1>10, <1>11 DEF Main

\* So does a step of the gRPC server, its clients, or a signal.
LEMMA ServerStep ==
    ASSUME IInv, Signal \/ ListenerFails \/ WatchHealth \/ StopWatching \/ Drain \/ Drained
    PROVE  IInv'
<1> USE MainType, RunningSame, UserSame
    DEF Starting, Ending, requests, gateVars, rowVars, cacheVars, readerVars, userVars, Alive, Accepts,
        IInv, TypeOK, ServerInv, EndingInv, DepsInv
<1>0. TypeOKUser /\ ttl \in Int
  BY DEF TypeOKUser
<1>1. CASE Signal
  BY <1>0, <1>1 DEF Signal
<1>2. CASE ListenerFails
  BY <1>0, <1>2 DEF ListenerFails
<1>3. CASE WatchHealth \/ StopWatching
  <2>1. watch' \in BOOLEAN
    BY <1>3 DEF WatchHealth, StopWatching
  <2>2. UNCHANGED <<main, signalled, health, server, stopper, redis, db, gate, inside, left,
                    sender, met, row, cache, timed, reader, got, ttl>>
    BY <1>3 DEF WatchHealth, StopWatching
  <2> QED
    BY <1>0, <2>1, <2>2
<1>4. CASE Drain
  BY <1>0, <1>4 DEF Drain
<1>5. CASE Drained
  BY <1>0, <1>5 DEF Drained
<1> QED
  BY <1>1, <1>2, <1>3, <1>4, <1>5

\* A request runs only while the server is up; if it finds a dependency closed,
\* main is past the server, which was not drained.
LEMMA MeetsClosed ==
    ASSUME IInv, Alive, Running # {},
           redis # "open" \/ db # "open" \/ gate # "open"
    PROVE  main \in Ending /\ server \in {"stopped", "broken"}
<1>1. main \in Starting \cup Ending \cup {"wait", "draining"}
  BY MainType DEF Alive, IInv, TypeOK, Starting, Ending
<1>2. server # "none" /\ stopper # "done"
  BY DEF IInv, ServerInv
<1>3. main \in Ending
  BY <1>1, <1>2 DEF IInv, ServerInv, DepsInv, Starting, Ending
<1> QED
  BY <1>2, <1>3 DEF IInv, EndingInv

\* The parts of the invariant that requests cannot disturb: a step that only
\* moves requests, while the server is up and has not been drained.
LEMMA RequestFrame ==
    ASSUME IInv, UNCHANGED process, server # "none", stopper # "done",
           gate' = gate, gate = "shut" => inside' = {},
           met' # met => main \in Ending /\ server \in {"stopped", "broken"}
    PROVE  ServerInv' /\ EndingInv' /\ DepsInv'
BY DEF process, IInv, ServerInv, EndingInv, DepsInv

\* A request that begins.
LEMMA StartStep ==
    ASSUME IInv, \/ \E r \in Readers : StartReader(r)
                 \/ \E p \in Publishers : StartSender(p)
    PROVE  IInv'
<1>1. server \in {"serving", "broken"} /\ stopper # "done"
  BY DEF StartReader, StartSender, Accepts, IInv, ServerInv
<1>2. CASE \E r \in Readers : StartReader(r)
  <2>1. PICK r \in Readers : StartReader(r)
    BY <1>2
  <2>2. /\ UNCHANGED <<process, gate, inside, left, sender, met, row, cache, timed, got, ttl>>
        /\ reader[r] = "idle"
        /\ \E l \in {"get", "load"} : reader' = [reader EXCEPT ![r] = l]
    BY <2>1 DEF StartReader, GetUser, SignIn, Call, gateVars, requests, rowVars, cacheVars
  <2>3. TypeOKUser'
    BY <2>2 DEF IInv, TypeOK, TypeOKUser
  <2>4. TypeOK'
    BY <2>2, <2>3 DEF process, IInv, TypeOK
  <2>5. ServerInv' /\ EndingInv' /\ DepsInv'
    BY <1>1, <2>2, RequestFrame DEF IInv, DepsInv
  <2> QED
    BY <2>4, <2>5 DEF IInv
<1>3. CASE \E p \in Publishers : StartSender(p)
  <2>1. PICK p \in Publishers : StartSender(p)
    BY <1>3
  <2>2. /\ UNCHANGED <<process, gate, inside, left, met, row, cache, timed, reader, got, ttl>>
        /\ sender[p] = "idle" /\ sender' = [sender EXCEPT ![p] = "lookup"]
    BY <2>1 DEF StartSender, SenderGoes, gateVars, userVars, rowVars, cacheVars, readerVars
  <2>3. TypeOK'
    BY <2>2, UserSame DEF process, IInv, TypeOK, TypeOKUser
  <2>4. ServerInv' /\ EndingInv' /\ DepsInv'
    BY <1>1, <2>2, RequestFrame DEF IInv, DepsInv
  <2> QED
    BY <2>3, <2>4 DEF IInv
<1> QED
  BY <1>2, <1>3

\* A call of GetUser or a sign-in.
LEMMA ReaderStep ==
    ASSUME IInv, NEW r \in Readers, ReaderCalls(r)
    PROVE  IInv'
<1>1. /\ Alive /\ UNCHANGED <<process, gate, inside, left, sender>>
      /\ r \in Running
  BY DEF ReaderCalls, GetCached, LoadRow, FillCache, gateVars, Running
<1>2. server # "none" /\ stopper # "done"
  BY <1>1 DEF IInv, ServerInv
<1>3. met' \subseteq met \cup {r} /\ (met' # met => redis # "open" \/ db # "open")
  BY DEF ReaderCalls, Uses, requests
<1>4. met' # met => main \in Ending /\ server \in {"stopped", "broken"}
  BY <1>1, <1>3, MeetsClosed
<1>5. TypeOKUser'
  <2>1. PICK ok \in BOOLEAN : GetCached(r, ok) \/ LoadRow(r, ok) \/ FillCache(r, ok)
    BY DEF ReaderCalls
  <2>2. CASE GetCached(r, ok)
    BY <2>2 DEF GetCached, Call, rowVars, cacheVars, IInv, TypeOK, TypeOKUser
  <2>3. CASE LoadRow(r, ok)
    BY <2>3 DEF LoadRow, Call, rowVars, cacheVars, IInv, TypeOK, TypeOKUser
  <2>4. CASE FillCache(r, ok)
    <3>1. got[r] \in Versions /\ cache' \in {cache, got[r]}
      BY <2>4 DEF FillCache, cacheVars, IInv, TypeOK, TypeOKUser
    <3>2. timed' \in BOOLEAN /\ (timed' => cache' # Nothing)
      <4>1. got[r] # Nothing
        BY <3>1, CacheConstants DEF Nothing
      <4>2. CASE ok
        <5>1. cache' = got[r] /\ timed' = (ttl > 0)
          BY <2>4, <4>2 DEF FillCache
        <5> QED
          BY <4>1, <5>1
      <4>3. CASE ~ok
        BY <2>4, <4>3 DEF FillCache, cacheVars, IInv, TypeOK, TypeOKUser
      <4> QED
        BY <4>2, <4>3
    <3>3. UNCHANGED <<row, ttl>> /\ reader' = [reader EXCEPT ![r] = "idle"]
          /\ got' = [got EXCEPT ![r] = NoRow]
      BY <2>4 DEF FillCache, Call, rowVars
    <3> QED
      BY <3>1, <3>2, <3>3 DEF IInv, TypeOK, TypeOKUser
  <2> QED
    BY <2>1, <2>2, <2>3, <2>4
<1>6. TypeOK'
  BY <1>1, <1>3, <1>5 DEF process, IInv, TypeOK
<1>7. ServerInv' /\ EndingInv' /\ DepsInv'
  BY <1>1, <1>2, <1>4, RequestFrame DEF IInv, DepsInv
<1> QED
  BY <1>6, <1>7 DEF IInv

\* A call of SendOTP, Publish included.
LEMMA SenderStep ==
    ASSUME IInv, NEW p \in Publishers, SenderCalls(p) \/ Publish(p) \/ Published(p)
    PROVE  IInv'
<1> DEFINE Calling == {"lookup", "store", "publish", "inside", "remove"}
<1>1. /\ Alive /\ UNCHANGED <<process, row, cache, timed, reader, got, ttl, gate>>
      /\ sender[p] \in Calling
  BY DEF SenderCalls, Publish, Published, gateVars, userVars, rowVars, cacheVars, readerVars,
         Producer!Enter, Producer!TurnAway, Producer!Leave
<1>2. server # "none" /\ stopper # "done" /\ Running # {}
  BY <1>1 DEF IInv, ServerInv, Running
<1>3. /\ met' \subseteq met \cup {p}
      /\ met' # met => redis # "open" \/ db # "open" \/ gate # "open"
  BY DEF SenderCalls, Publish, Published, Uses
<1>4. met' # met => main \in Ending /\ server \in {"stopped", "broken"}
  BY <1>1, <1>2, <1>3, MeetsClosed
<1>5. \E l \in Calling \cup {"done"} :
          /\ sender' = [sender EXCEPT ![p] = l]
          /\ inside' = IF l = "inside" THEN inside \cup {p} ELSE inside \ {p}
          /\ left' \subseteq left \cup {p}
          /\ l = "inside" => gate = "open"
  <2>1. CASE SenderCalls(p)
    BY <2>1 DEF SenderCalls, SenderGoes, gateVars, IInv, TypeOK
  <2>2. CASE Publish(p)
    BY <2>2 DEF Publish, SenderGoes, Producer!Enter, Producer!TurnAway, IInv, TypeOK
  <2>3. CASE Published(p)
    BY <2>3 DEF Published, SenderGoes, Producer!Leave
  <2> QED
    BY <2>1, <2>2, <2>3
<1>6. TypeOK'
  <2>1. TypeOKUser'
    BY <1>1, UserSame DEF IInv, TypeOK, TypeOKUser
  <2>2. /\ inside' = {q \in Publishers : sender'[q] = "inside"} /\ left' \subseteq Publishers
        /\ sender' \in [Publishers -> {"idle", "lookup", "store", "publish", "inside", "remove", "done"}]
    BY <1>5 DEF IInv, TypeOK
  <2> QED
    BY <1>1, <1>3, <2>1, <2>2 DEF process, IInv, TypeOK
<1>7. gate = "shut" => inside' = {}
  BY <1>5 DEF IInv, DepsInv
<1>8. ServerInv' /\ EndingInv' /\ DepsInv'
  BY <1>1, <1>2, <1>4, <1>7, RequestFrame
<1> QED
  BY <1>6, <1>8 DEF IInv

\* Every step keeps the invariant.
LEMMA InvStep == IInv /\ [Next]_vars => IInv'
<1> SUFFICES ASSUME IInv, [Next]_vars PROVE IInv'
  OBVIOUS
<1>1. CASE Main
  BY <1>1, MainStep
<1>2. CASE Signal \/ ListenerFails \/ WatchHealth \/ StopWatching \/ Drain \/ Drained
  BY <1>2, ServerStep
<1>3. CASE Request
  BY <1>3, StartStep, ReaderStep, SenderStep DEF Request
<1>4. CASE Environment \/ UNCHANGED vars
  <2>1. UNCHANGED <<process, gate, inside, left, sender, met, reader, got, ttl>>
    BY <1>4 DEF Environment, Expire, ChangeRow, vars, gateVars, requests, userVars, readerVars, rowVars
  <2>2. TypeOKUser'
    <3>1. CASE Environment
      <4>1. /\ row' \in Versions \cup {NoRow} /\ cache' \in {cache, Nothing}
            /\ timed' \in BOOLEAN /\ (timed' => cache' # Nothing)
        <5>1. CASE Expire
          <6>1. UNCHANGED row /\ cache' = Nothing /\ timed' = FALSE
            BY <5>1 DEF Expire, rowVars
          <6> QED
            BY <6>1 DEF IInv, TypeOK, TypeOKUser
        <5>2. CASE ChangeRow
          <6>1. row' \in Versions \cup {NoRow} /\ UNCHANGED <<cache, timed>>
            BY <5>2 DEF ChangeRow, cacheVars
          <6> QED
            BY <6>1 DEF IInv, TypeOK, TypeOKUser
        <5> QED
          BY <3>1, <5>1, <5>2 DEF Environment
      <4> QED
        BY <2>1, <4>1 DEF IInv, TypeOK, TypeOKUser
    <3>2. CASE UNCHANGED vars
      BY <3>2, UserSame DEF vars, userVars, rowVars, cacheVars, readerVars, IInv, TypeOK, TypeOKUser
    <3> QED
      BY <1>4, <3>1, <3>2
  <2>3. TypeOK'
    BY <2>1, <2>2 DEF process, IInv, TypeOK
  <2>4. Running' = Running
    BY <2>1, RunningSame
  <2> QED
    BY <2>1, <2>3, <2>4 DEF process, IInv, ServerInv, EndingInv, DepsInv
<1> QED
  BY <1>1, <1>2, <1>3, <1>4 DEF Next

\* The invariant holds throughout.
LEMMA Invariance == Spec => []IInv
BY InvInit, InvStep, PTL DEF Spec

-----------------------------------------------------------------------------
(* Theorems *)

\* Types of the process, its requests and its configuration (main.go:27-162).
THEOREM TypeCorrect == Spec => []TypeOK
<1>1. IInv => TypeOK
  BY DEF IInv
<1> QED
  BY <1>1, Invariance, PTL

\* However many requests run, only a forced stop or a broken listener closes a
\* dependency under one of them (main.go:132-159).
THEOREM StopIsClean == Spec => []GracefulStopIsClean
<1>1. IInv => GracefulStopIsClean
  <2> SUFFICES ASSUME IInv PROVE GracefulStopIsClean
    OBVIOUS
  <2>1. met # {} => server \in {"stopped", "broken"}
    BY DEF IInv, DepsInv
  <2>2. ASSUME gate # "open", server # "broken" PROVE health = "NOT_SERVING"
    <3>1. main \in Ending
      BY <2>2, MainType DEF IInv, TypeOK, DepsInv, Starting, Ending
    <3> QED
      BY <2>2, <3>1 DEF IInv, EndingInv
  <2> QED
    BY <2>1, <2>2 DEF GracefulStopIsClean
<1> QED
  BY <1>1, Invariance, PTL

\* Redis and the database outlive the publishes that are inside the producer
\* (main.go:66-86).
THEOREM PublishesKeepRest == Spec => []PublishKeepsRest
<1>1. IInv => PublishKeepsRest
  <2> SUFFICES ASSUME IInv, Alive, inside # {} PROVE redis = "open" /\ db = "open"
    BY DEF PublishKeepsRest
  <2>1. Running # {}
    BY DEF IInv, TypeOK, Running
  <2>2. main \notin Starting \cup {"failed", "exited"}
    BY <2>1 DEF IInv, ServerInv, Alive
  <2>3. main \in {"wait", "draining", "closeProducer", "waitProducer"}
    BY <2>2, MainType DEF IInv, TypeOK, DepsInv, Starting
  <2> QED
    BY <2>3 DEF IInv, DepsInv
<1> QED
  BY <1>1, Invariance, PTL

-----------------------------------------------------------------------------
(* The cache *)

\* What a step does to the cache and the handlers that use it, while the row
\* stays as it is.
Spreads ==
    /\ Stale' \subseteq Stale
    /\ cache' \in {cache, row, Nothing} \/ \E r \in Stale : cache' = got[r]

\* A step that is not a handler's leaves its row and the cache alone, but for
\* the TTL that runs out.
LEMMA CacheSame ==
    ASSUME UNCHANGED <<reader, got, row>>, cache' \in {cache, Nothing}
    PROVE  Spreads
BY DEF Spreads, Stale

\* main and the gRPC server leave the cache alone; main sets the TTL before it
\* serves.
LEMMA ProcessCache ==
    ASSUME IInv, CopiesInv,
           \/ Main \/ Signal \/ ListenerFails
           \/ WatchHealth \/ StopWatching \/ Drain \/ Drained
    PROVE  UNCHANGED <<row, cache, timed, reader, got>> /\ CopiesInv'
<1>1. UNCHANGED <<row, cache, timed, reader, got>>
  BY DEF Main, Load, OpenNext, Open, Serve, ServeFailed, SignalReceived, GracefulDone, TimeOut,
     CloseProducer, WaitProducer, CloseRedis, CloseDB, Signal, ListenerFails, WatchHealth,
     StopWatching, Drain, Drained, userVars, rowVars, cacheVars, readerVars
<1>2. \/ main = "load"
      \/ ttl' = ttl /\ (server' = "none" => server = "none")
  BY DEF Main, Load, OpenNext, Open, Serve, ServeFailed, SignalReceived, GracefulDone, TimeOut,
     CloseProducer, WaitProducer, CloseRedis, CloseDB, Signal, ListenerFails, WatchHealth,
     StopWatching, Drain, Drained, userVars
<1>3. main = "load" => server = "none"
  BY DEF IInv, ServerInv, Starting
<1> QED
  BY <1>1, <1>2, <1>3 DEF CopiesInv

\* GetUser and the sign-ins cache what they have read, with the TTL.
LEMMA ReaderCache ==
    ASSUME IInv, CopiesInv, NEW r \in Readers, StartReader(r) \/ ReaderCalls(r)
    PROVE  (row' = row => Spreads) /\ CopiesInv' /\ ttl' = ttl
<1>1. TypeOKUser /\ reader \in [Readers -> {"idle", "get", "load", "fill"}]
      /\ got \in [Readers -> Versions \cup {NoRow}]
  BY DEF IInv, TypeOK, TypeOKUser
<1>2. CASE StartReader(r)
  BY <1>1, <1>2 DEF StartReader, GetUser, SignIn, Call, process, rowVars, cacheVars, Spreads, Stale,
     CopiesInv
<1>3. CASE ReaderCalls(r)
  <2>1. server # "none" /\ UNCHANGED <<server, ttl, row>>
    BY <1>1, <1>3 DEF ReaderCalls, GetCached, LoadRow, FillCache, process, rowVars, Running, IInv,
       ServerInv
  <2>2. PICK ok \in BOOLEAN : GetCached(r, ok) \/ LoadRow(r, ok) \/ FillCache(r, ok)
    BY <1>3 DEF ReaderCalls
  <2>3. CASE GetCached(r, ok)
    BY <1>1, <2>1, <2>3 DEF GetCached, Call, cacheVars, Spreads, Stale, CopiesInv
  <2>4. CASE LoadRow(r, ok)
    BY <1>1, <2>1, <2>4 DEF LoadRow, Call, cacheVars, Spreads, Stale, CopiesInv
  <2>5. CASE FillCache(r, ok)
    <3>1. \/ UNCHANGED <<cache, timed>>
          \/ cache' = got[r] /\ timed' = (ttl > 0)
      BY <2>5 DEF FillCache, cacheVars
    <3>2. Stale' \subseteq Stale
      BY <1>1, <2>1, <2>5 DEF FillCache, Call, Stale
    <3>3. got[r] = row \/ r \in Stale
      BY <2>5 DEF FillCache, Stale
    <3>4. CopiesInv'
      BY <2>1, <3>1 DEF CopiesInv
    <3> QED
      BY <2>1, <3>1, <3>2, <3>3, <3>4 DEF Spreads
  <2> QED
    BY <2>2, <2>3, <2>4, <2>5
<1> QED
  BY <1>2, <1>3

\* Every step.
LEMMA CacheStep ==
    ASSUME IInv, CopiesInv, [Next]_vars
    PROVE  /\ row' = row => Spreads
           /\ CopiesInv'
           /\ ttl' = ttl \/ UNCHANGED <<cache, timed>>
<1>1. CASE \/ Main \/ Signal \/ ListenerFails \/ WatchHealth \/ StopWatching \/ Drain \/ Drained
  BY <1>1, ProcessCache, CacheSame
<1>2. CASE \E r \in Readers : StartReader(r) \/ ReaderCalls(r)
  BY <1>2, ReaderCache
<1>3. CASE \/ \E p \in Publishers : StartSender(p) \/ SenderCalls(p) \/ Publish(p) \/ Published(p)
           \/ UNCHANGED vars
  <2>1. UNCHANGED <<server, ttl, row, cache, timed, reader, got>>
    BY <1>3 DEF StartSender, SenderCalls, Publish, Published, vars, process, userVars, rowVars,
       cacheVars, readerVars
  <2> QED
    BY <2>1, CacheSame DEF CopiesInv
<1>4. CASE Environment
  <2>1. UNCHANGED <<server, ttl, reader, got>>
    BY <1>4 DEF Environment, Expire, ChangeRow, process, readerVars
  <2>2. (cache' = Nothing \/ UNCHANGED <<cache, timed>>) /\ cache' \in {cache, Nothing}
    BY <1>4 DEF Environment, Expire, ChangeRow, cacheVars
  <2> QED
    BY <2>1, <2>2, CacheSame DEF CopiesInv
<1> QED
  BY <1>1, <1>2, <1>3, <1>4 DEF Next, Request

\* However many handlers read and cache while the row changes, outdated rows
\* come from those that read before the change only, and with a positive TTL
\* none stays for good (handler.go:28-59).
THEOREM StaleCopiesStayFew == Spec => StaleCopiesDoNotSpread
<1>1. Init => CopiesInv
  BY DEF Init, InitUser, CopiesInv
<1>2. IInv /\ CopiesInv /\ [Next]_vars => CopiesInv'
  BY CacheStep
<1>3. IInv /\ CopiesInv /\ [Next]_vars =>
         (row' = row =>
            /\ Stale' \subseteq Stale
            /\ cache' \in {cache, row, Nothing} \/ \E r \in Stale : cache' = got[r]
            /\ ttl > 0 /\ cache' # Nothing => timed')
  BY CacheStep DEF Spreads, CopiesInv
<1> QED
  BY <1>1, <1>2, <1>3, Invariance, PTL DEF Spec, StaleCopiesDoNotSpread
=============================================================================
