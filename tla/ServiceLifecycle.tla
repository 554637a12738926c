-------------------------- MODULE ServiceLifecycle --------------------------
(***************************************************************************)
(* A run of user-service/server/main.go: load the configuration, open the  *)
(* dependencies, serve, and on a signal or a failed listener close them    *)
(* again, in the order of the deferred calls, under the requests that are  *)
(* still running.  The mains of booking, payment and search do the same    *)
(* with fewer dependencies.                                                *)
(*                                                                         *)
(* Composes UserCache (GetUser and the sign-ins) and ShutdownGate (the     *)
(* Kafka producer, entered by SendOTP).  The gRPC server is external.      *)
(***************************************************************************)
EXTENDS UserCache, ConfigLoad

CONSTANTS Publishers,  \* SendOTP requests
          Envs, Files  \* environments and .env files Load may meet

ASSUME ConfigConstants ==
    /\ \A env \in Envs :
          "REDIS_USER_TTL" \in DOMAIN env /\ env["REDIS_USER_TTL"] \in Setting
    /\ \A file \in Files :
          /\ file.state \in {"missing", "error", "read"}
          /\ "REDIS_USER_TTL" \in DOMAIN file.vars /\ file.vars["REDIS_USER_TTL"] \in Setting

VARIABLES main,      \* next statement of main
          signalled, \* runCtx is done
          health,    \* what the health service answers
          server,    \* the gRPC server
          stopper,   \* the goroutine that calls GracefulStop
          watch,     \* a client has a health Watch stream open
          redis, db, \* the clients: "none", "open", "closed"
          gate, inside, left, \* the Kafka producer
          sender,    \* "idle" or the next call of each SendOTP, "done"
          met        \* requests that called a dependency main had closed

Producer == INSTANCE ShutdownGate WITH Calls <- Publishers

process == <<main, signalled, health, server, stopper, watch, redis, db>>
gateVars == <<gate, inside, left>>
requests == <<sender, met>>
vars == <<process, gateVars, requests, userVars>>

StartUp == <<"load", "topics", "db", "migrate", "redis", "producer", "listen", "serve">>
Closing == <<"closeProducer", "waitProducer", "closeRedis", "closeDB">>

Alive == main \notin {"exited", "failed"}
Running ==
    {r \in Readers : reader[r] # "idle"} \cup {p \in Publishers : sender[p] \notin {"idle", "done"}}

\* New requests: until the server drains or stops.  When Serve has failed, its
\* connections still bring some.
Accepts == Alive /\ server \in {"serving", "broken"}

Init ==
    /\ main = "load" /\ signalled = FALSE
    /\ health = "unset" /\ server = "none" /\ stopper = "none" /\ watch = FALSE
    /\ redis = "none" /\ db = "none"
    /\ Producer!Init
    /\ sender = [p \in Publishers |-> "idle"] /\ met = {}
    /\ InitUser /\ ttl = 0

-----------------------------------------------------------------------------
(* main *)

Load ==
    /\ main = "load"
    /\ \E env \in Envs, local \in Files, dotEnv \in Files :
          LET loaded == loadOptionalDotEnvFiles(env, local, dotEnv) IN
          IF loaded.error THEN main' = "failed" /\ UNCHANGED ttl
          ELSE main' = "topics" /\ ttl' = RedisUserTTL(loaded)
    /\ UNCHANGED <<signalled, health, server, stopper, watch, redis, db, gateVars, requests,
                   rowVars, cacheVars, readerVars>>

\* One dependency after the other.  A failure, also one the signal causes
\* through startupCtx, is log.Fatalf: nothing is closed.
Open(step, next) ==
    /\ main = step
    /\ \/ /\ main' = next
          /\ db' = IF step = "db" THEN "open" ELSE db
          /\ redis' = IF step = "redis" THEN "open" ELSE redis
       \/ main' = "failed" /\ UNCHANGED <<redis, db>>
    /\ UNCHANGED <<signalled, health, server, stopper, watch, gateVars, requests, userVars>>

OpenNext == \E i \in 2 .. Len(StartUp) - 1 : Open(StartUp[i], StartUp[i + 1])

Serve ==
    /\ main = "serve"
    /\ health' = "SERVING" /\ server' = "serving" /\ main' = "wait"
    /\ UNCHANGED <<signalled, stopper, watch, redis, db, gateVars, requests, userVars>>

\* case <-serveErr: neither Stop nor the health service is called.
ServeFailed ==
    /\ main = "wait" /\ server = "broken"
    /\ main' = "closeProducer"
    /\ UNCHANGED <<signalled, health, server, stopper, watch, redis, db, gateVars, requests, userVars>>

\* case <-runCtx.Done(): not serving any more; GracefulStop in a goroutine.
SignalReceived ==
    /\ main = "wait" /\ signalled
    /\ health' = "NOT_SERVING" /\ stopper' = "started" /\ main' = "draining"
    /\ UNCHANGED <<signalled, server, watch, redis, db, gateVars, requests, userVars>>

GracefulDoneAtOnce ==
    /\ main = "draining" /\ stopper \in {"started", "draining", "done"}
    /\ main' = "closeProducer"
    /\ UNCHANGED <<signalled, health, server, stopper, watch, redis, db, gateVars, requests, userVars>>

GracefulDone ==
    /\ main = "draining" /\ stopper = "done"
    /\ main' = "closeProducer"
    /\ UNCHANGED <<signalled, health, server, stopper, watch, redis, db, gateVars, requests, userVars>>

TimeOutNever == FALSE /\ UNCHANGED vars

\* Ten seconds are over: Stop cancels the requests and does not wait for them.
TimeOut ==
    /\ main = "draining"
    /\ server' = "stopped" /\ watch' = FALSE /\ main' = "closeProducer"
    /\ UNCHANGED <<signalled, health, stopper, redis, db, gateVars, requests, userVars>>

CloseProducerAndRedis ==
    /\ main = "closeProducer"
    /\ Producer!Drain /\ redis' = "closed" /\ main' = "waitProducer"
    /\ UNCHANGED <<signalled, health, server, stopper, watch, db, requests, userVars>>

\* The deferred calls.  The producer waits for the publishes inside it.
CloseProducer ==
    /\ main = "closeProducer"
    /\ Producer!Drain /\ main' = "waitProducer"
    /\ UNCHANGED <<signalled, health, server, stopper, watch, redis, db, requests, userVars>>

WaitProducer ==
    /\ main = "waitProducer"
    /\ Producer!Shut /\ main' = "closeRedis"
    /\ UNCHANGED <<signalled, health, server, stopper, watch, redis, db, requests, userVars>>

CloseRedis ==
    /\ main = "closeRedis"
    /\ redis' = "closed" /\ main' = "closeDB"
    /\ UNCHANGED <<signalled, health, server, stopper, watch, db, gateVars, requests, userVars>>

CloseDB ==
    /\ main = "closeDB"
    /\ db' = "closed" /\ main' = "exited"
    /\ UNCHANGED <<signalled, health, server, stopper, watch, redis, gateVars, requests, userVars>>

Main ==
    \/ Load \/ OpenNext \/ Serve \/ ServeFailed \/ SignalReceived \/ GracefulDone \/ TimeOut
    \/ CloseProducer \/ WaitProducer \/ CloseRedis \/ CloseDB

-----------------------------------------------------------------------------
(* The gRPC server, and signals *)

\* Ctrl-C or SIGTERM, at any time; before NotifyContext it ends the process.
Signal ==
    /\ Alive /\ ~signalled
    /\ signalled' = TRUE
    /\ main' = IF main = "load" THEN "failed" ELSE main
    /\ UNCHANGED <<health, server, stopper, watch, redis, db, gateVars, requests, userVars>>

\* Accept fails for good.
ListenerFails ==
    /\ Alive /\ server = "serving"
    /\ server' = "broken"
    /\ UNCHANGED <<main, signalled, health, stopper, watch, redis, db, gateVars, requests, userVars>>

WatchHealth ==
    /\ Accepts /\ ~watch /\ watch' = TRUE
    /\ UNCHANGED <<main, signalled, health, server, stopper, redis, db, gateVars, requests, userVars>>

StopWatching ==
    /\ Alive /\ watch /\ watch' = FALSE
    /\ UNCHANGED <<main, signalled, health, server, stopper, redis, db, gateVars, requests, userVars>>

\* GracefulStop turns new requests away and returns when those that run, and
\* the streams, have ended.
Drain ==
    /\ Alive /\ stopper = "started"
    /\ stopper' = "draining"
    /\ server' = IF server = "stopped" THEN server ELSE "draining"
    /\ UNCHANGED <<main, signalled, health, watch, redis, db, gateVars, requests, userVars>>

Drained ==
    /\ Alive /\ stopper = "draining" /\ Running = {} /\ ~watch
    /\ stopper' = "done"
    /\ UNCHANGED <<main, signalled, health, server, watch, redis, db, gateVars, requests, userVars>>

-----------------------------------------------------------------------------
(* Requests *)

\* A call to a dependency fails, if only because the request's context ended;
\* it cannot succeed once the dependency is closed.
Uses(r, open, ok) == (ok => open) /\ met' = IF open THEN met ELSE met \cup {r}

StartReader(r) ==
    /\ Accepts /\ (GetUser(r) \/ SignIn(r))
    /\ UNCHANGED <<process, gateVars, requests>>

ReaderCalls(r) ==
    /\ Alive
    /\ \E ok \in BOOLEAN :
          \/ GetCached(r, ok) /\ Uses(r, redis = "open", ok)
          \/ LoadRow(r, ok) /\ Uses(r, db = "open", ok)
          \/ FillCache(r, ok) /\ Uses(r, redis = "open", ok)
    /\ UNCHANGED <<process, gateVars, sender>>

SenderGoes(p, l) == sender' = [sender EXCEPT ![p] = l]

StartSender(p) ==
    /\ Accepts /\ sender[p] = "idle"
    /\ SenderGoes(p, "lookup")
    /\ UNCHANGED <<process, gateVars, met, userVars>>

\* SendOTP looks the email up, stores the session, publishes the event, and
\* removes the session if that failed.
SenderCalls(p) ==
    /\ Alive
    /\ \E ok \in BOOLEAN :
          \/ /\ sender[p] = "lookup" /\ Uses(p, db = "open", ok)
             /\ SenderGoes(p, IF ok THEN "store" ELSE "done")
          \/ /\ sender[p] = "store" /\ Uses(p, redis = "open", ok)
             /\ SenderGoes(p, IF ok THEN "publish" ELSE "done")
          \/ /\ sender[p] = "remove" /\ Uses(p, redis = "open", ok)
             /\ SenderGoes(p, "done")
    /\ UNCHANGED <<process, gateVars, userVars>>

\* Publish: let in, or turned away by Close or a fatal error.
Publish(p) ==
    /\ Alive /\ sender[p] = "publish"
    /\ \/ Producer!Enter(p) /\ SenderGoes(p, "inside") /\ UNCHANGED met
       \/ /\ Producer!TurnAway(p) /\ SenderGoes(p, "remove")
          /\ met' = IF gate = "open" THEN met ELSE met \cup {p}
    /\ UNCHANGED <<process, userVars>>

\* The delivery report, or the end of the request's context.
Published(p) ==
    /\ Alive /\ sender[p] = "inside"
    /\ Producer!Leave(p)
    /\ \E l \in {"remove", "done"} : SenderGoes(p, l)
    /\ UNCHANGED <<process, met, userVars>>

Request ==
    \/ \E r \in Readers : StartReader(r) \/ ReaderCalls(r)
    \/ \E p \in Publishers : StartSender(p) \/ SenderCalls(p) \/ Publish(p) \/ Published(p)

Environment == (Expire \/ ChangeRow) /\ UNCHANGED <<process, gateVars, requests>>

Next ==
    \/ Main \/ Signal \/ ListenerFails \/ WatchHealth \/ StopWatching \/ Drain \/ Drained
    \/ Request \/ Environment

Spec == Init /\ [][Next]_vars

\* main does not hang, timers fire, requests have deadlines, Redis expires keys.
Fairness ==
    /\ WF_vars(Main) /\ WF_vars(Drain) /\ WF_vars(Drained)
    /\ \A r \in Readers : WF_vars(ReaderCalls(r))
    /\ \A p \in Publishers : WF_vars(SenderCalls(p)) /\ WF_vars(Publish(p)) /\ WF_vars(Published(p))
    /\ WF_vars(Expire /\ Environment)

FairSpec == Spec /\ Fairness

-----------------------------------------------------------------------------
(* Properties *)

\* Every variable holds a value of its type.
TypeOK ==
    /\ main \in {StartUp[i] : i \in DOMAIN StartUp}
                \cup {"wait", "draining", "closeProducer", "waitProducer", "closeRedis",
                      "closeDB", "exited", "failed"}
    /\ signalled \in BOOLEAN /\ watch \in BOOLEAN
    /\ health \in {"unset", "SERVING", "NOT_SERVING"}
    /\ server \in {"none", "serving", "broken", "draining", "stopped"}
    /\ stopper \in {"none", "started", "draining", "done"}
    /\ redis \in {"none", "open", "closed"} /\ db \in {"none", "open", "closed"}
    /\ gate \in {"open", "draining", "shut"}
    /\ inside = {p \in Publishers : sender[p] = "inside"} /\ left \subseteq Publishers
    /\ sender \in [Publishers -> {"idle", "lookup", "store", "publish", "inside", "remove", "done"}]
    /\ met \subseteq Readers \cup Publishers
    /\ TypeOKUser

\* A request finds a dependency closed under it only after the graceful stop
\* timed out or the listener failed; unless it was the listener, the health
\* service has said so before (main.go:132-159).
GracefulStopIsClean ==
    /\ met # {} => server \in {"stopped", "broken"}
    /\ gate # "open" /\ server # "broken" => health = "NOT_SERVING"

\* Even then a publish that is inside the producer keeps Redis and the database
\* open: main waits for it before it closes them (main.go:66-86).
PublishKeepsRest == Alive /\ inside # {} => redis = "open" /\ db = "open"

\* A signal ends the process, whatever requests and streams are open
\* (main.go:128-159).
SignalEnds == signalled ~> ~Alive

\* What Load is about to read: .env.local goes before .env, and the environment
\* before both, whatever is in them (load-env.go:152-153); a file that cannot be
\* read is an error.
SettingsByPrecedence ==
    main = "load" => \A env \in Envs, local, dotEnv \in Files :
        LET loaded == loadOptionalDotEnvFiles(env, local, dotEnv) IN
        /\ loaded.error <=> "error" \in {local.state, dotEnv.state}
        /\ ~loaded.error =>
              RedisUserTTL(loaded) = getEnvInt(Given(env, local, dotEnv, "REDIS_USER_TTL"), 86400)

\* Handlers that are about to cache a row that has changed since they read it.
Stale == {r \in Readers : reader[r] = "fill" /\ got[r] # row}

\* Outdated rows do not spread: while the row stays as it is, no handler becomes
\* stale and only the stale ones bring an old copy in; with a positive TTL no copy
\* is there for good, were it of an earlier run of the service (handler.go:28-59,
\* load-env.go:162-174).
StaleCopiesDoNotSpread ==
    [][row' = row =>
          /\ Stale' \subseteq Stale
          /\ cache' \in {cache, row, Nothing} \/ \E r \in Stale : cache' = got[r]
          /\ ttl > 0 /\ cache' # Nothing => timed']_vars

\* Once the row has changed for the last time, an outdated or garbled copy of
\* it goes away for good, if the configured TTL is positive (handler.go:28-59).
StaleCopiesGo ==
    <>[](ttl > 0) /\ <>[][UNCHANGED row]_vars => <>[](cache \in {row, Nothing})
=============================================================================
