------------------------------ MODULE ConfigLoad ------------------------------
(***************************************************************************)
(* utils/env/load-env.go: Load reads .env.local and .env into the process  *)
(* environment, then the settings from there.                              *)
(*                                                                         *)
(* A value is <<"int", n>>, <<"text">> (not an integer), <<"empty">> or    *)
(* Absent.  A file is [state |-> "missing", "error" or "read", vars |->    *)
(* what it gives each variable]; "error" is a file that cannot be          *)
(* inspected or parsed, of which godotenv sets nothing.                    *)
(***************************************************************************)
EXTENDS Integers, Sequences

Absent  == <<"absent">>
Setting == {Absent, <<"empty">>, <<"text">>} \cup ({"int"} \X Int)

\* godotenv.Load: variables the environment has, also empty ones, stay.
SetAbsent(env, file) ==
    [v \in DOMAIN env |-> IF env[v] = Absent THEN file.vars[v] ELSE env[v]]

LoadFile(loaded, file) ==
    IF loaded.error \/ file.state = "missing" THEN loaded
    ELSE IF file.state = "error" THEN [env |-> loaded.env, error |-> TRUE]
    ELSE [env |-> SetAbsent(loaded.env, file), error |-> FALSE]

LoadDotEnvFirst(env, local, dotEnv) ==
    LoadFile(LoadFile([env |-> env, error |-> FALSE], dotEnv), local)

loadOptionalDotEnvFiles(env, local, dotEnv) ==
    LoadFile(LoadFile([env |-> env, error |-> FALSE], local), dotEnv)

getEnvInt(value, fallback) == IF value[1] = "int" THEN value[2] ELSE fallback

RedisUserTTL(loaded) == getEnvInt(loaded.env["REDIS_USER_TTL"], 86400)

-----------------------------------------------------------------------------
(* Reference: the first source that has a variable decides *)

Given(env, local, dotEnv, v) ==
    CASE env[v] # Absent                                     -> env[v]
      [] env[v] = Absent /\ local.state = "read" /\ local.vars[v] # Absent -> local.vars[v]
      [] OTHER -> IF dotEnv.state = "read" THEN dotEnv.vars[v] ELSE Absent
=============================================================================
