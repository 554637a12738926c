------------------------- MODULE MCServiceLifecycle -------------------------
(* An instance of ServiceLifecycle for TLC. *)
EXTENDS ServiceLifecycle

Values     == {Absent, <<"empty">>, <<"text">>, <<"int", 60>>, <<"int", 0>>}
Settings   == [{"REDIS_USER_TTL"} -> Values]
EnvsDef    == Settings
FilesDef   == [state : {"missing", "error"}, vars : {[v \in {"REDIS_USER_TTL"} |-> Absent]}]
                 \cup [state : {"read"}, vars : Settings]
=============================================================================
