# Go-IRCTC backend: specifications, model checks and proofs

TLA+ modules for the parts of this repository where several requests,
goroutines, processes or stores meet: the Kafka producer and consumer wrappers,
email signup, Google sign-in, refresh sessions, the user cache, the life of
user-service from its configuration to its last deferred close, and the
notification service. TLC checks them on small instances; TLAPS proves theorems
about them for every value of their constants. `PROJECT.json` lists the runs, the
mutants every property is known to refute, the source lines every definition
stands for, findings, hazards and theorems.

    tlc -workers 2 -config KafkaProducer.cfg KafkaProducer.tla
    tlapm KafkaProducerProofs.tla

## The system

Five gRPC services, of which two do work. **user-service** keeps accounts in
PostgreSQL and short-lived state in Redis, and publishes events to Kafka.
**notification-service** consumes those events and sends mails. booking, payment
and search are stubs that answer a constant. They share `utils/`.

| component | state | operations | talks to |
|---|---|---|---|
| Kafka producer wrapper (`utils/kafka.go`) | mutex, `closing`, `fatalErr`, WaitGroup `inFlight`, `closeOnce`, `closeErr`, the librdkafka client | `Publish`, `Close`, `watchEvents` | request handlers, `main`, broker |
| Email signup (`handler.go`, `utils.go`) | Redis: session per code, two counters per email; PostgreSQL: users | `SendOTP`, `VerifyOTP` | Redis, PostgreSQL, producer |
| Refresh sessions | Redis: one jti per user and device fingerprint | `Login`, `RotateRefreshToken` (and the end of `VerifyGoogleIDToken`) | Redis, JWT |
| Google sign-in | users, auth_providers | `VerifyGoogleIDToken` | Google, PostgreSQL, Redis |
| User cache | Redis `user:<id>` | `GetUser`; written by both sign-ins | Redis, PostgreSQL |
| Kafka consumer wrapper and handlers | stored and committed offsets | `Consume`, `ConsumeNotification`, `Close` | broker, mailer |
| Mailer | none that outlives a call | `New`, `SendEmail` | mail provider |
| Lifecycles (five `main.go`) | contexts, health status, deferred closes | start, signal, graceful stop | all of the above |
| Configuration | the process environment | `Load` | `.env.local`, `.env` |
| Interceptors, models | none that outlives a call | JWT checks, fingerprints | |

What is hard in it:

* **Concurrency in one process.** Publishes, closes and the event watcher share
  one client; Close must outwait the publishes and nobody may enter behind it.
  `main` closes what handlers may still use.
* **Concurrency through stores.** Handlers run at once, in one process or in
  several, and check a Redis key in one call and change it in another;
  transactions read what others have committed and meet in the unique indexes.
* **Partial failure.** Results of INCR, EXPIRE, DEL and SET are ignored; a
  publish, a COMMIT or a mail can end with an unknown outcome; a process can die
  between two calls.
* **Delivery.** Offsets are stored after the handler and committed later; a
  handler error ends the process; a code is with its user before the handler
  that sent it knows.

What makes each component right:

* producer: the client outlives every publish; a nil `Close` lost nothing; what
  `Publish` returns agrees with the log; nobody waits for what cannot come, and
  every call returns.
* signup: limits are overshot by a bounded amount; counters expire; a code that
  reaches its user was not withdrawn; accounts belong to addresses that got a code.
* refresh sessions: the holder of the current token is turned away only when a
  GET fails; only stale or foreign tokens revoke; a token is replaced a bounded number of times,
  and none that lost its place gets it back.
* Google sign-in: accounts and identities come and stay together; an answer is
  final; one identity has one account; to others a sign-in takes effect at once or
  not at all; transactions do not wait in a circle; who tries again gets in.
* consumer: nothing committed was skipped; duplicates come only from restarts and
  lost group sessions; what is committed is never mailed again; valid events with
  no rejected one before them are mailed in the end.
* both services together: codes are mailed before accounts are made of them,
  accounts before they are welcomed; neither has two events; an acknowledged code
  is never lost on the way, and is mailed.
* lifecycle: after a graceful stop no request has met a closed dependency; a
  publish keeps the rest open; a signal ends the process; settings come from the
  first source that has them; a stale copy of a user does not spread and goes away.

## Modules

| module | models | steps |
|---|---|---|
| `ShutdownGate` | what the producer promises: calls enter while open, drain, then shut | abstract |
| `KafkaProducer` | `utils/kafka.go`, type `KafkaProducer` | one access to shared state: a lock, a test under it, `Add`, `Unlock`, `Produce`, one branch of the `select`, `Done`, ... |
| `OtpSignup` | `SendOTP`, `VerifyOTP` | one call to Redis, PostgreSQL or the producer, with every way it can fail |
| `SessionRegister` | what refresh sessions promise: one token per device, successors of current tokens only, none back | abstract |
| `RefreshSession` | `Login`, `RotateRefreshToken` | one call to Redis |
| `AccountDirectory` | what sign-ins promise the readers of the database: each takes effect at once | abstract |
| `GoogleSignIn` | `VerifyGoogleIDToken`, beside the INSERT of `VerifyOTP` | one SQL statement, or an INSERT's entry in a unique index |
| `Mailer` | `New`, `SendEmail` and the answers of the two providers | operators |
| `AtLeastOnce` | what the consumer promises: mails in order, acknowledged only when mailed | abstract |
| `NotificationConsumer` | `KafkaConsumer`, the handlers, `main` of notification-service | one poll, handler call, `StoreMessage`, commit, lost or renewed group session, or step of `main` |
| `SignupJourney` | what both services promise an address: code, account, welcome, in that order | abstract |
| `NotificationPipeline` | `OtpSignup` and `NotificationConsumer` over the two topics | those of either |
| `ConfigLoad` | `Load` of `load-env.go`, for one integer setting | operators |
| `UserCache` | `GetUser`, and the cache writes of the two sign-ins | one call to Redis or PostgreSQL |
| `ServiceLifecycle` | `main` of user-service, over `ConfigLoad`, `UserCache` and `ShutdownGate` | one statement of `main`, one call of a request |
| `MC...` | instances of the module of the same name | |
| `...Proofs` | theorems about the module of the same name | |

Two compositions put modules together by INSTANCE or EXTENDS. In
`NotificationPipeline` a step in which an event reaches the broker (`Deliver`, the
welcome of `VerifyWelcome`) appends it to the consumer's log (`Handover`), and a handler accepts a code only
after it was mailed (`CodesAreSecret`). In `ServiceLifecycle` the producer is
`ShutdownGate`, which `KafkaProducer` is proved to implement, so `main` waits for
the publishes inside it without the producer's own steps being repeated.

How they correspond to the code:

* **KafkaProducer.** `pc` is the place of each goroutine; `mu`, `closing`,
  `fatalErr`, `inFlight`, `once`, `closeErr` are the fields of the struct.
  `client`, `message` and `log` are librdkafka and the broker: a message is
  queued, maybe appended, then reported acked or failed, and a failed report may
  concern a record that was appended. `outcome` and `verdict` are what the calls
  returned. The watcher takes fatal events at any time.
* **OtpSignup.** `fate`, `owner` are the session keys; `rate`, `attempts` the
  counters, with the sets of those that have a TTL; `account` the users row;
  `event` the OTP event; `reply` what `SendOTP` told its caller. A publish is two
  steps of the handler: the client takes the event (`SendPublish`), and the handler
  reads the report or gives up (`SendReport`). The event reaches the log at any time
  after the first (`Deliver`), so a code can be mailed, or the process die, while
  `SendOTP` still waits. A code and its
  hash stand behind the session id, so "the HMACs agree" is a free choice of
  `VerifyCheck`. Each fault is a member of `Faults`, so a run or a theorem names
  the failures it allows.
* **RefreshSession.** `current` is the Redis key of a device, `home` the device
  a token was issued to, `valid` the tokens whose JWT is not expired. `retired`
  records the tokens that lost their place, `redeemed` counts the successors
  stored for a token. `Issue` is the signing and the
  SET at the end of a login and of a rotation. A key outlives the JWT it was set
  for, since both get `RefreshTokenExp` and the SET comes later.
* **GoogleSignIn.** `users`, `links` are the rows of the two tables, those of
  open transactions included; `open` says which rows a transaction has inserted,
  so `Committed` is what others read. An INSERT that meets an open row of the
  same key has no step until that transaction ends. `auth_providers` has two unique
  indexes, which a row enters one after the other (`InsertLink`, `LinkAccount`): a
  handler that waits at the second is already waited for at the first. PostgreSQL
  enters them in the order they were created, the same for all. `target` is `targetUser`,
  which the closure sets before the COMMIT; `Commit` may fail, also after it
  took effect. `by` records who created a user and is read by no action.
* **NotificationConsumer, Mailer.** `pos`, `stored`, `committed` are the offsets
  of the client; `log` the topics (one partition each, `EnsureTopics`); `up`,
  `cancelled` the main goroutine. `MainClose` may happen while the loop stands
  anywhere, as `main` does not wait for the goroutine of `Consume`. The commit of
  stored offsets in the background is librdkafka's, and external. So is the group
  session: it can be lost whenever the client has the partitions (`LoseSession`),
  with or without a last commit of what was stored. `SubscribeTopics` is given no
  rebalance callback, so it is a later `Poll` that takes the new assignment
  (`Rejoin`), from the committed offset on: the same process goes back. Meanwhile
  `StoreMessage` may fail or be in vain. `recent` are the events mailed since the
  partitions were last assigned. `Poll` hands over events of any topic; the code
  says nothing about their order. An answer of the provider is a reply, which may
  be garbled or (from Resend, where `SendEmail` does not look) lack the id, and
  whether the mail was taken; `SendEmail` sees the reply only.
* **NotificationPipeline.** An OTP event is its session and address, a welcome
  event its address. `Unparsable` are the addresses `SendOTP` publishes for and
  `IsEmailValid` refuses.
* **ServiceLifecycle.** `main` is the next statement; `server`, `stopper`,
  `watch` are the gRPC server, the goroutine that calls `GracefulStop` and a
  health Watch stream; `redis`, `db`, `gate` the dependencies; `met` the requests
  that called one `main` had closed. A request's call may always fail and cannot
  succeed on a closed client (`Uses`).
* **UserCache.** `cache` is the key of one user, `timed` whether it has a TTL,
  `got` the row a handler has read and not yet written to the cache. Nothing in
  the service changes a row; `ChangeRow` stands for whatever else may.
* **ConfigLoad.** `LoadFile` is one turn of the loop over the two files: a missing
  file is skipped, one that cannot be read ends `Load`, and of one that is read
  only variables the environment lacks are taken, an empty one included.

## Runs

| run | bounds | shows |
|---|---|---|
| `producer_calls` | 2 publishes, 2 closes | types, the lifetime of the client, honest results, no late entry, nobody waits in vain, refinement of `ShutdownGate`, every call returns |
| `otp_limits` | 2 handlers, 4 codes, 1 email, limits 2 and 1 | by how much limits are overshot; counters expire; used codes have accounts |
| `otp_faults` | 2 handlers, 2 codes, 2 emails, every fault but false reports, guesses only while none is counted | a code that reaches its user was not withdrawn; who gets an account and how many welcomes |
| `otp_lockout` | 2 handlers, 2 codes | lockouts end |
| `otp_overrate` | 2 handlers, 2 codes | violation: see Findings |
| `consumer_delivery` | 2 topics, 2 events each, valid or not, every fault (mails, fatal errors, commits, group sessions, crashes) | no skip, duplicates only from restarts and lost sessions, commits are final, refinement of `AtLeastOnce`, every event no rejected one stands before is mailed |
| `consumer_poison` | 1 topic, 2 events | violation |
| `refresh_safety` | 2 rotations, 2 devices, 4 tokens, every fault | who is turned away, what revokes, how often a token is replaced, refinement of `SessionRegister` |
| `refresh_reuse` | the same, no faults | violation |
| `google_signin` | 2 clients with any claims over 1 provider, 2 subjects, 2 emails; 2 ids; every fault | refinement of `AccountDirectory`, one account per identity, waits are short, retries succeed |
| `pipeline` | 1 handler, 2 codes for 1 address; publishes and mails fail, the consumer is stopped and started | refinement of `SignupJourney`, acknowledged codes are not lost and are mailed |
| `service_lifecycle` | 1 GetUser or sign-in, 1 SendOTP, a row that takes 2 contents, every environment and pair of files for one setting of 5 values | who meets a closed dependency, precedence of settings, the process ends, stale copies do not spread and go |

Why the bounds are enough to be worth running: two publishes are needed for one
to be inside while the other comes late; a second Close shows the waiters of
`closeOnce`. Two handlers show every race between a check and its count; four
codes let the limit of two be reached, overshot, and met again after it expired.
Two events on a topic show one overtaking another; the second topic shows what a
rejected event of one does to the other. A topic without a handler
(`Unsupported`) is one whose events are all rejected; no run has one, as an invalid
event takes the same way. Four tokens let
two logins and two rotations, or a chain of three rotations, happen. Two
sign-ins with two ids meet as the same person, as one email with two persons and
as one person with two emails. One handler is enough in the pipeline, whose
question is what the consumer may do between two of its steps; what two handlers
do to each other is asked of `OtpSignup` alone. Every address is parsable in that
run: what one that is not does is `consumer_poison`. One reader and one sender
can each be caught between any two of their calls by the signal, the timer or
the listener. What holds for more than that is the theorems' part. `MaxTries`
(callers stop guessing once more wrong codes are counted), `MaxLog`, `Sessions`,
`Tokens` and `Uids` are bounds of the models, not of the code. Deadlock is
checked in every run; `Terminated` and `Rest` are the states in which the program
has nothing to do (or, in `RefreshSession`, has used up the bounded tokens).

**Fairness.** In `KafkaProducer` runnable goroutines run, a lock waiter gets the
mutex sooner or later (Go's mutex hands itself to a starving waiter: strong
fairness), and librdkafka reports every message (`message.timeout.ms` is
finite). No context is assumed to end. In `OtpSignup` handlers run on (each call
is bounded by the five-second context) and Redis expires what has a TTL. In
`NotificationConsumer` the loop and `main` run on and the service is started
again (the compose file and the operator are outside the repository's code);
what fails or is cut off now and then does not fail every time: a mail, the step
from the mail to the stored offset, a commit, the handing over of some event
(strong fairness). A lost session is joined again. No topic is promised its turn: a
rejected event of another topic may be polled first after every restart, which is
why `MailedUnlessBlocked` excepts events while the log holds one (`Blocked`). With
topics that grow for ever, which `MaxLog` excludes, an event could also wait for
ever behind those of another topic. `NotificationPipeline` adds that handlers end. In
`GoogleSignIn` handlers run on, PostgreSQL wakes the waiters of a transaction
that ended, a client tries again until it is answered, and a statement that is
tried again and again succeeds at times (strong fairness). In
`ServiceLifecycle` `main` does not hang, its ten-second timer fires, requests
have deadlines, and Redis expires keys; no stream is assumed to be closed and no
listener to fail or to last.

## Findings

Each of the first three is a `violation` run, with the quoted line in
`PROJECT.json`.

* Requests that run at once exceed the five codes of the user-service README
  (`otp_overrate`); the overshoot is bounded (`RateBounded`).
* An event the handler rejects ends the consumer at every restart
  (`consumer_poison`); events with no rejected one before them are mailed
  (`MailedUnlessBlocked`).
* A refresh token presented twice at once is answered twice (`refresh_reuse`);
  at most as often as rotations are in flight (`RedeemedBounded`).
* `user-service/README.md:11` says that the lookup of `GetUser` is not
  implemented; `handleGetUser` implements it (no run: there is nothing to check).

What a reader of the code should know besides, and no line of the repository
speaks against: a crash between INCR and EXPIRE, or a failed EXPIRE, leaves a counter
without an expiry, and an email over its limit locked out (`CountersExpire` and
`LockoutEnds` need their absence); a crash or a failed INSERT after a code was used
leaves its owner without an account (`ConsumedHasAccount` needs their absence);
a failed delivery report for a record that reached the log withdraws a code that
is mailed (`MailHasSession` needs its absence); a GET that fails turns away the
holder of a current refresh token (`handler.go:241`), and a SET that fails gives out
a token that does not work; a token that was never used, only superseded
by a login, revokes that login's session (a stale token in the sense of
`OnlyStaleRevokes`); a rotation that read the session before it was revoked brings
it back when it stores its successor; when `Serve` fails, `main` closes the
dependencies without stopping the server, and the health service goes on
answering SERVING (the exception in `GracefulStopIsClean`); with a
`REDIS_USER_TTL` of zero a cached user never goes away (the assumption of
`StaleCopiesGo`).

## Proofs

Every theorem holds for any number of handlers, topics, emails, configurations
and so on, under the named assumption of its module and the faults it names.

`KafkaProducerProofs`, from `CallsDistinct` (finitely many publishes; calls,
watcher and the free mutex differ). The inductive invariant `IInv` adds to the
types: only the holder of the mutex is in a critical section (`MutexInv`); one
Close runs the body of `closeOnce` (`OnceInv`); between a publish's check and its
`Add` nobody sets `closing`, as it holds the mutex (`ClosingInv`); past the wait
nobody is inside (`DrainedInv`); what is dropped was among what `Flush` gave up on
(`FlushInv`); messages only move forward (`MessageInv`). The properties are not
inductive without it: that the client outlives the publishes rests on `Add`
happening before the unlock and on Close marking under the same lock. From it
follow the safety invariants, `NoLateEntry`, that the WaitGroup counts exactly the
calls inside, and the refinement: every step is a step of `ShutdownGate` or
leaves its state alone. `NobodyWaitsInVain` is what safety can say about deadlock:
for each of the four things a goroutine can wait for, `IInv` names one that will
let it go and is not waiting itself, as long as the steps of the goroutines and of
librdkafka are taken. That they are taken is fairness, and left to TLC.

`OtpSignupProofs`, from `SignupConstants`. Each theorem names the faults it
excludes. The bounds on the counters need a sum: the counter plus the handlers
that passed the check and have not counted (`RateInv`, `AttemptsInv`). That a
code sent was not withdrawn needs that one handler works on a session until
`SendOTP` answers (`SenderInv`). That an email is welcomed once needs that the
unique index lets one handler create the account (`WelcomeInv`).

`RefreshSessionProofs`, from `SessionConstants`. `FreshTokensWork` is inductive
only for tokens whether or not their JWT has expired (`FreshInv`), since a
rotation may be under way with a token that expires meanwhile. `RedeemedBounded`
needs the sum of the successors stored and the rotations about to store
(`BoundInv`). `SpentStaySpent` is inductive with the types, because a token that is
handed out is new; with it every step is one of `SessionRegister` or not seen
there: the GET that finds the token current is the `Grant`, the SET its
`Succeed`, and what happens between the two is the register's freedom, too.

`NotificationConsumerProofs`, from `ConsumerConstants` and `MailerStarts`. What
is committed was mailed because what is stored was (`StoredMailed`), which needs
that the loop has at most one event in hand, the one after the stored offset
(`InHand`), and that `SendEmail` returns nil only for a mail that was taken
(`NilIsTaken`). That nothing is mailed twice between two assignments needs that what was
mailed is behind the stored offset or in hand (`RecentStored`); a restart and a
rejoin start both anew (`AssignStep`). `CommitIsFinal` and the refinement of
`AtLeastOnce` follow step by step. `CommittedMailed` is that invariant as the
pipeline needs it: an event behind the committed offset has a mail.

`GoogleSignInProofs`, from `SignInConstants`. `Mine` says, per handler, what its
transaction has inserted and found by the statement it stands at; with the
uniqueness of identities among all rows, open ones included, and of a user's
identity among those in the second index (`UniqueLinks`), it
makes `NothingHalfDone` and `AnswersAreCommitted` inductive. That one identity is
answered with one account then follows from the two. `WaitsAreShort` needs only
`IInv`: every handler enters the indexes in one order, of users, of identities, of
accounts, and who holds a row in one stands at a later one or before its COMMIT;
a chain of waiting handlers is at most three long. The refinement of `AccountDirectory` maps the tables to what
is committed: each statement is unseen (an open row is in nobody's view, `Unseen`),
COMMIT is `Create` or `Join`, according to whether the transaction made the user,
and a rollback, a lost answer or a crash is a stutter.

`ServiceLifecycleProofs`, from `ConfigConstants` and `CacheConstants`.
`Precedence` is about `ConfigLoad` alone: two files, each missing, unreadable or
read, and any values. The rest ties what the server and its stopper are at
(`ServerInv`), how `main` got past it (`EndingInv`) and what is open (`DepsInv`)
to the statement of `main`: a finished `GracefulStop` means that no request runs,
and none starts afterwards. `StaleCopiesDoNotSpread` goes step by step over the
requests (`CopiesInv`: with a positive TTL, no copy lacks one): while the row
does not change, what a handler reads is the row, so only handlers that had read
before can still write an older one.

`NotificationPipelineProofs`, from `PipelineConstants`. It instantiates the proofs
of the two parts: every step of the composition is a step of `OtpSignup` and of
`NotificationConsumer` or leaves one of them alone (`SignupParts`,
`ServiceParts`), so their invariants hold of the whole as they stand. New is that
the log holds only events of codes that were sent and of accounts `VerifyOTP`
created (`LogInv`), and that a code a handler found right was mailed
(`CheckedInv`). For `AcknowledgedNotLost`, `DeliveredInv` says that every code that
was sent has its event in the topic, and the consumer's `CommittedMailed` that an
event behind the committed offset has its mail. For `EventsOnce`, a step that publishes (`Publishes`)
appends what the log does not hold yet, since the session had not been published
and the account not been welcomed (`AppendsOnce`). `SameSignup` and `SameService` say that the instances the
specification and the proofs use are the same.

The runs and the theorems divide the work. Every safety property a run checks is
a theorem too. Some theorems need no run of their own, because a run checks
something that gives them: the types (`TypeCorrect` in five modules, part of
`IInv` in two; TLC checks those of `KafkaProducer`, where a negative WaitGroup
would be a panic), `NothingHalfDone` and `AnswersAreCommitted` (consequences of
`ImplementsDirectory`), `SpentStaySpent` (of `ImplementsRegister`), and
`EventsOnce`, which for welcomes is `OneWelcome` seen in the log and for codes
rests on each session being published by the one handler that stored it.

Only model-checked: the liveness properties (`PublishReturns`, `CloseReturns`,
`LockoutEnds`, `MailedUnlessBlocked`, `RetrySucceeds`, `AcknowledgedIsMailed`,
`SignalEnds`, `StaleCopiesGo`), which rest on fairness and are outside what the
prover does.

## Not modelled

* booking, payment and search: stubs that answer a constant. Their `main.go` have
  the shape of user-service's with fewer dependencies; modelling them again would
  add no behaviour.
* Rendering of mails and HTML: layout, of inputs the handlers have checked.
* The log line of the interceptors; the arithmetic of JWT, bcrypt and HMAC, which
  are taken to do what they are for.
* Connecting, pool sizes, migrations and the creation of topics: start-up I/O,
  which in `ServiceLifecycle` succeeds or fails as one step each.
* The search for `go.mod` and settings other than one integer: each of them takes
  the way that one does.
* The client program, the OAuth script, tests, protocol and deployment files.

One process of user-service stands for several in `RefreshSession`, `OtpSignup`
and `GoogleSignIn`: their handlers meet only in the stores, wherever they run;
`Crash` stops all of them at once.

## Plan

Done: all of the modules above, first those the system stands on; every safety
property a run checks is also a theorem. Left, in the order of what they would add:

1. `KafkaProducer` itself in place of `ShutdownGate` in `ServiceLifecycle`: a lemma
   that what the lifecycle is proved to do with the gate it does with whatever
   implements it.
2. `pipeline` with two handlers and an address that does not parse, when a
   smaller state space for the consumer's restarts is found.
3. Two readers in `service_lifecycle`, for one that overwrites a newer copy with
   an older row (the theorem `StaleCopiesStayFew` already holds for any number).
4. Sessions of `RefreshSession` as the end of a Google sign-in.
