---------------------------- MODULE MCOtpSignup ----------------------------
(* Instances of OtpSignup for TLC. *)
EXTENDS OtpSignup, TLC

\* All but the failed report of a persisted record.
TrueReports == FaultKinds \ {"falseReport"}

\* Counters are read and counted exactly, and get their TTL; an INCR
\* may be lost, a DEL or a publish fail.
ExactCounters == {"incr", "del", "kafka"}

\* Handlers, session ids and emails are interchangeable; only for runs without
\* liveness.
Symmetry == Permutations(Procs) \cup Permutations(Sessions) \cup Permutations(Emails)
=============================================================================
