------------------------------ MODULE UserCache ------------------------------
(***************************************************************************)
(* GetUser of user-service, a read-through cache in Redis that Login and   *)
(* VerifyGoogleIDToken write as well, for one user.  No operation of the   *)
(* service changes a users row once it is there; what else has access to   *)
(* the database may.                                                       *)
(*                                                                         *)
(* Each step is one call; the argument ok says whether Redis or PostgreSQL *)
(* answered it.                                                            *)
(***************************************************************************)
EXTENDS Integers

CONSTANTS Readers,  \* handlers that can run at once
          Versions  \* contents a row can have

ASSUME CacheConstants == Versions \subseteq Nat \ {0}

VARIABLES row,     \* the users row, or NoRow
          cache,   \* the value of the user's key, or Nothing
          timed,   \* it has a TTL
          reader,  \* "idle" or the next call of each handler
          got,     \* the row it has read
          ttl      \* config.RedisUserTTL

rowVars    == <<row>>
cacheVars  == <<cache, timed>>
readerVars == <<reader, got>>
userVars   == <<rowVars, cacheVars, readerVars, ttl>>

NoRow   == 0
Nothing == 0
Garbled == -1  \* a payload that does not unmarshal

InitUser ==
    /\ row \in Versions \cup {NoRow}
    /\ cache \in {Nothing, Garbled} /\ timed = (cache # Nothing)
    /\ reader = [r \in Readers |-> "idle"] /\ got = [r \in Readers |-> NoRow]

Call(r, l) == reader' = [reader EXCEPT ![r] = l]

\* The interceptor lets only requests with a valid access token through to
\* GetUser; the user is the token's.
GetUser(r) ==
    /\ reader[r] = "idle"
    /\ Call(r, "get")
    /\ UNCHANGED <<rowVars, cacheVars, got, ttl>>

\* Login and VerifyGoogleIDToken read the row and cache it.
SignIn(r) ==
    /\ reader[r] = "idle"
    /\ Call(r, "load")
    /\ UNCHANGED <<rowVars, cacheVars, got, ttl>>

GetCachedAndRefresh(r, ok) ==
    /\ reader[r] = "get"
    /\ IF ok /\ cache \in Versions
       THEN Call(r, "fill") /\ got' = [got EXCEPT ![r] = cache]
       ELSE Call(r, "load") /\ UNCHANGED got
    /\ UNCHANGED <<rowVars, cacheVars, ttl>>

\* A hit is the answer.
GetCached(r, ok) ==
    /\ reader[r] = "get"
    /\ Call(r, IF ok /\ cache \in Versions THEN "idle" ELSE "load")
    /\ UNCHANGED <<rowVars, cacheVars, got, ttl>>

\* A user that is not found, or a database that fails, is an error.
LoadRow(r, ok) ==
    /\ reader[r] = "load"
    /\ IF ok /\ row # NoRow
       THEN Call(r, "fill") /\ got' = [got EXCEPT ![r] = row]
       ELSE Call(r, "idle") /\ UNCHANGED got
    /\ UNCHANGED <<rowVars, cacheVars, ttl>>

\* SET; its failure is not the caller's.  A TTL that is not positive is none.
FillCache(r, ok) ==
    /\ reader[r] = "fill"
    /\ IF ok THEN cache' = got[r] /\ timed' = (ttl > 0) ELSE UNCHANGED cacheVars
    /\ Call(r, "idle") /\ got' = [got EXCEPT ![r] = NoRow]
    /\ UNCHANGED <<rowVars, ttl>>

\* The TTL runs out.
Expire ==
    /\ timed
    /\ cache' = Nothing /\ timed' = FALSE
    /\ UNCHANGED <<rowVars, readerVars, ttl>>

\* A migration, or another client of the database.
ChangeRow ==
    /\ row' \in (Versions \cup {NoRow}) \ {row}
    /\ UNCHANGED <<cacheVars, readerVars, ttl>>

TypeOKUser ==
    /\ row \in Versions \cup {NoRow} /\ ttl \in Int
    /\ cache \in Versions \cup {Nothing, Garbled} /\ timed \in BOOLEAN
    /\ timed => cache # Nothing
    /\ reader \in [Readers -> {"idle", "get", "load", "fill"}]
    /\ got \in [Readers -> Versions \cup {NoRow}]
    /\ \A r \in Readers : reader[r] = "fill" => got[r] # NoRow
=============================================================================
