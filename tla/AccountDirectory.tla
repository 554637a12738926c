--------------------------- MODULE AccountDirectory ---------------------------
(***************************************************************************)
(* What the sign-ins of user-service promise about accounts and Google     *)
(* identities together: each takes effect at once.  An identity comes with *)
(* the account made for it, or joins the account of the email Google       *)
(* vouches for along with it; neither ever goes away, and no email, person *)
(* or account has two of the other.                                        *)
(***************************************************************************)
CONSTANTS Providers, Subjects, Emails, Uids

VARIABLES vouched,     \* the claims of the ID tokens Google has signed
          accounts,    \* users, by id and email
          identities,  \* persons at a provider, and their accounts
          answered     \* identities a client was given tokens for

vars == <<vouched, accounts, identities, answered>>

Claims == [provider : Providers, subject : Subjects, email : Emails]

Identity(claim, u) == [provider |-> claim.provider, subject |-> claim.subject, user |-> u]

NewEmail(e) == \A r \in accounts : r.email # e
NewId(u)    == u \in Uids /\ \A r \in accounts : r.id # u
NewIdentity(i) ==
    \A j \in identities : j.provider = i.provider => j.subject # i.subject /\ j.user # i.user

Init == vouched \subseteq Claims /\ accounts = {} /\ identities = {} /\ answered = {}

\* By a code sent to the address.
Register(e, u) ==
    /\ NewEmail(e) /\ NewId(u)
    /\ accounts' = accounts \cup {[id |-> u, email |-> e, by |-> "otp"]}
    /\ UNCHANGED <<vouched, identities, answered>>

\* By Google, for an email without an account.
Create(claim, u) ==
    /\ NewEmail(claim.email) /\ NewId(u) /\ NewIdentity(Identity(claim, u))
    /\ accounts' = accounts \cup {[id |-> u, email |-> claim.email, by |-> "google"]}
    /\ identities' = identities \cup {Identity(claim, u)}
    /\ UNCHANGED <<vouched, answered>>

\* For an email that has an account.
Join(claim, u) ==
    /\ \E r \in accounts : r.id = u /\ r.email = claim.email
    /\ NewIdentity(Identity(claim, u))
    /\ identities' = identities \cup {Identity(claim, u)}
    /\ UNCHANGED <<vouched, accounts, answered>>

Answer(claim, u) ==
    /\ Identity(claim, u) \in identities
    /\ answered' = answered \cup {Identity(claim, u)}
    /\ UNCHANGED <<vouched, accounts, identities>>

Next ==
    \/ \E e \in Emails, u \in Uids : Register(e, u)
    \/ \E claim \in vouched, u \in Uids : Create(claim, u) \/ Join(claim, u) \/ Answer(claim, u)

Spec == Init /\ [][Next]_vars
=============================================================================
