---------------------------- MODULE SignupJourney ----------------------------
(***************************************************************************)
(* What user-service and notification-service promise each email address   *)
(* together: a code is mailed to it, only then can an account be made of   *)
(* the code, and only such an account is welcomed.  Google may make the    *)
(* account instead, which is not welcomed.                                 *)
(***************************************************************************)
CONSTANT Emails

VARIABLES coded,    \* addresses a code was mailed to
          account,  \* "none", "otp" or "google" for each address
          welcomed  \* addresses a welcome was mailed to

vars == <<coded, account, welcomed>>

Init == coded = {} /\ account = [e \in Emails |-> "none"] /\ welcomed = {}

MailCode(e) ==
    /\ coded' = coded \cup {e}
    /\ UNCHANGED <<account, welcomed>>

Create(e, by) ==
    /\ account[e] = "none"
    /\ by = "otp" => e \in coded
    /\ account' = [account EXCEPT ![e] = by]
    /\ UNCHANGED <<coded, welcomed>>

MailWelcome(e) ==
    /\ account[e] = "otp"
    /\ welcomed' = welcomed \cup {e}
    /\ UNCHANGED <<coded, account>>

Next == \E e \in Emails : MailCode(e) \/ MailWelcome(e) \/ \E by \in {"otp", "google"} : Create(e, by)

Spec == Init /\ [][Next]_vars
=============================================================================
