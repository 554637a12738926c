----------------------------- MODULE AtLeastOnce -----------------------------
(***************************************************************************)
(* What the notification service promises the publishers of its topics:    *)
(* the mails of a topic go out in the order of its events, and an event is *)
(* acknowledged only when it and all before it were mailed.  Between the   *)
(* mail and the acknowledgement it may be mailed again.                    *)
(***************************************************************************)
EXTENDS Naturals, Sequences

CONSTANTS Topics, Kinds

VARIABLES log,     \* events published, per topic
          mailed,  \* events mailed, as <<topic, position>>
          acked    \* events acknowledged, per topic

vars == <<log, mailed, acked>>

Init == log = [t \in Topics |-> <<>>] /\ mailed = {} /\ acked = [t \in Topics |-> 0]

Publish(t, k) ==
    /\ log' = [log EXCEPT ![t] = Append(@, k)]
    /\ UNCHANGED <<mailed, acked>>

Mail(t, i) ==
    /\ i \in acked[t] + 1 .. Len(log[t])
    /\ \A j \in 1 .. i - 1 : <<t, j>> \in mailed
    /\ mailed' = mailed \cup {<<t, i>>}
    /\ UNCHANGED <<log, acked>>

\* Several events of several topics at once.
Acknowledge ==
    /\ \A t \in Topics :
          /\ acked'[t] \in acked[t] .. Len(log[t])
          /\ \A i \in 1 .. acked'[t] : <<t, i>> \in mailed
    /\ UNCHANGED <<log, mailed>>

Next ==
    \/ \E t \in Topics : \/ \E k \in Kinds : Publish(t, k)
                         \/ \E i \in 1 .. Len(log[t]) : Mail(t, i)
    \/ Acknowledge

Spec == Init /\ [][Next]_vars
=============================================================================
