---------------------------- MODULE ShutdownGate ----------------------------
(***************************************************************************)
(* What KafkaProducer (utils/kafka.go) promises the goroutines that share  *)
(* it: a call is let in only while the gate is open; closing it turns      *)
(* later calls away but lets the ones inside finish; the client behind the *)
(* gate is shut down only once nobody is inside.                           *)
(***************************************************************************)
CONSTANT Calls

VARIABLES gate,     \* "open", "draining" (Close has begun) or "shut"
          inside,   \* calls using the client
          left      \* calls that have returned, served or turned away

vars == <<gate, inside, left>>

Init == gate = "open" /\ inside = {} /\ left = {}

Enter(c) ==
    /\ gate = "open"
    /\ c \notin inside \cup left
    /\ inside' = inside \cup {c}
    /\ UNCHANGED <<gate, left>>

TurnAway(c) ==
    /\ c \notin inside \cup left
    /\ left' = left \cup {c}
    /\ UNCHANGED <<gate, inside>>

Leave(c) ==
    /\ c \in inside
    /\ inside' = inside \ {c}
    /\ left' = left \cup {c}
    /\ UNCHANGED gate

Drain ==
    /\ gate = "open"
    /\ gate' = "draining"
    /\ UNCHANGED <<inside, left>>

Shut ==
    /\ gate = "draining"
    /\ inside = {}
    /\ gate' = "shut"
    /\ UNCHANGED <<inside, left>>

Next ==
    \/ \E c \in Calls : Enter(c) \/ TurnAway(c) \/ Leave(c)
    \/ Drain
    \/ Shut

Spec == Init /\ [][Next]_vars

\* Every call inside leaves, and a draining gate shuts once it is empty.
Fairness == (\A c \in Calls : WF_vars(Leave(c))) /\ WF_vars(Shut)

FairSpec == Spec /\ Fairness
=============================================================================
