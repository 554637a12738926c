----------------------------- MODULE GoogleSignIn -----------------------------
(***************************************************************************)
(* VerifyGoogleIDToken in user-service/server/internal/handler.go: a       *)
(* transaction that finds, links or creates the account of a Google        *)
(* identity, run by several clients at once and beside VerifyOTP.          *)
(*                                                                         *)
(* A step is one statement, an INSERT of two unique indexes one for each.  *)
(* PostgreSQL reads what is committed when the statement starts; an INSERT *)
(* that meets a row of an open transaction in a unique index waits for     *)
(* that transaction, and fails if it commits.                              *)
(***************************************************************************)
EXTENDS Naturals

CONSTANTS Clients,   \* sign-ins that can run at once
          Providers, \* issuers
          Subjects,  \* Google's ids of people
          Emails,
          Uids,      \* ids uuid.NewString can return (bound)
          Faults,    \* "read", "insert", "commit", "crash"
          None

Claims == [provider : Providers, subject : Subjects, email : Emails]

ASSUME SignInConstants ==
    /\ Faults \subseteq {"read", "insert", "commit", "crash"}
    /\ None \notin Uids

VARIABLES users,    \* rows of users, those of open transactions included
          links,    \* rows of auth_providers, likewise
          open,     \* the rows each open transaction has inserted
          pc,       \* "idle" or the next statement
          claim,    \* the verified claims of each client's ID token
          target,   \* targetUser
          answered  \* identities and accounts clients got tokens for

tables == <<users, links, open>>
vars   == <<tables, pc, claim, target, answered>>

Users == [id : Uids, email : Emails, by : {"google", "otp"}]
Links == [provider : Providers, subject : Subjects, user : Uids]

May(f)       == f \in Faults
Committed(T) == {r \in T : \A c \in Clients : r \notin open[c]}
\* The rows that are in the second index of auth_providers as well.
Indexed      == {l \in links : \A c \in Clients : l \in open[c] => pc[c] # "linkAccount"}
Unused       == {u \in Uids : \A r \in users : r.id # u}

SameIdentity(l, c) == l.provider = claim[c].provider /\ l.subject = claim[c].subject
SameAccount(l, c)  == l.provider = claim[c].provider /\ l.user = target[c]
LinkOf(c)          == [provider |-> claim[c].provider, subject |-> claim[c].subject,
                       user |-> target[c]]

Goto(c, l) == pc' = [pc EXCEPT ![c] = l]
Return(c)  == Goto(c, "idle") /\ target' = [target EXCEPT ![c] = None]

\* The transaction is rolled back and its error returned.
Fail(c) ==
    /\ users' = users \ open[c] /\ links' = links \ open[c]
    /\ open' = [open EXCEPT ![c] = {}]
    /\ Return(c)

\* The ID tokens are whatever Google has signed: one person may have several
\* emails over time, and one email several persons.
Init ==
    /\ users = {} /\ links = {} /\ answered = {}
    /\ open = [c \in Clients |-> {}]
    /\ pc = [c \in Clients |-> "idle"]
    /\ claim \in [Clients -> Claims]
    /\ target = [c \in Clients |-> None]

-----------------------------------------------------------------------------
(* The handler *)

\* The token and its claims are valid.
Begin(c) ==
    /\ pc[c] = "idle"
    /\ Goto(c, "findLink")
    /\ UNCHANGED <<tables, claim, target, answered>>

\* Case 1: the identity is known.
FindLink(c) ==
    /\ pc[c] = "findLink"
    /\ \/ \E l \in Committed(links) :
              /\ SameIdentity(l, c)
              /\ target' = [target EXCEPT ![c] = l.user]
              /\ Goto(c, "commit")
              /\ UNCHANGED tables
       \/ /\ \A l \in Committed(links) : ~SameIdentity(l, c)
          /\ Goto(c, "findUser")
          /\ UNCHANGED <<tables, target>>
       \/ May("read") /\ Fail(c)
    /\ UNCHANGED <<claim, answered>>

FindUserNever(c) ==
    /\ pc[c] = "findUser"
    /\ Goto(c, "insertUser")
    /\ UNCHANGED <<tables, target, claim, answered>>

\* Case 2: the email has an account.
FindUser(c) ==
    /\ pc[c] = "findUser"
    /\ \/ \E r \in Committed(users) :
              /\ r.email = claim[c].email
              /\ target' = [target EXCEPT ![c] = r.id]
              /\ Goto(c, "insertLink")
              /\ UNCHANGED tables
       \/ /\ \A r \in Committed(users) : r.email # claim[c].email
          /\ Goto(c, "insertUser")
          /\ UNCHANGED <<tables, target>>
       \/ May("read") /\ Fail(c)
    /\ UNCHANGED <<claim, answered>>

InsertUserOutside(c) ==
    /\ pc[c] = "insertUser"
    /\ \/ /\ \A r \in users : r.email # claim[c].email
          /\ \E u \in Unused :
                /\ users' = users \cup {[id |-> u, email |-> claim[c].email, by |-> "google"]}
                /\ target' = [target EXCEPT ![c] = u]
          /\ Goto(c, "insertLink")
          /\ UNCHANGED <<links, open>>
       \/ (\E r \in Committed(users) : r.email = claim[c].email) /\ Fail(c)
    /\ UNCHANGED <<claim, answered>>

\* Case 3: a new account, unique by email.
InsertUser(c) ==
    /\ pc[c] = "insertUser"
    /\ \/ /\ \A r \in users : r.email # claim[c].email
          /\ \E u \in Unused :
                LET row == [id |-> u, email |-> claim[c].email, by |-> "google"] IN
                /\ users' = users \cup {row}
                /\ open' = [open EXCEPT ![c] = @ \cup {row}]
                /\ target' = [target EXCEPT ![c] = u]
          /\ Goto(c, "insertLink")
          /\ UNCHANGED links
       \/ (\E r \in Committed(users) : r.email = claim[c].email) /\ Fail(c)
       \/ May("insert") /\ Fail(c)
    /\ UNCHANGED <<claim, answered>>

InsertLinkAnyway(c) ==
    /\ pc[c] = "insertLink"
    /\ links' = links \cup {LinkOf(c)}
    /\ open' = [open EXCEPT ![c] = @ \cup {LinkOf(c)}]
    /\ Goto(c, "linkAccount")
    /\ UNCHANGED <<users, claim, target, answered>>

\* The row of auth_providers of cases 2 and 3.  It enters the two unique indexes
\* one after the other, in the order all INSERTs keep: by provider and subject ...
InsertLink(c) ==
    /\ pc[c] = "insertLink"
    /\ \/ /\ \A l \in links : ~SameIdentity(l, c)
          /\ links' = links \cup {LinkOf(c)}
          /\ open' = [open EXCEPT ![c] = @ \cup {LinkOf(c)}]
          /\ Goto(c, "linkAccount")
          /\ UNCHANGED <<users, target>>
       \/ (\E l \in Committed(links) : SameIdentity(l, c)) /\ Fail(c)
       \/ May("insert") /\ Fail(c)
    /\ UNCHANGED <<claim, answered>>

\* ... and by provider and user.
LinkAccount(c) ==
    /\ pc[c] = "linkAccount"
    /\ \/ /\ \A l \in Indexed : ~SameAccount(l, c)
          /\ Goto(c, "commit")
          /\ UNCHANGED <<tables, target>>
       \/ (\E l \in Committed(links) : SameAccount(l, c)) /\ Fail(c)
    /\ UNCHANGED <<claim, answered>>

CommitLeaks(c) ==
    /\ pc[c] = "commit"
    /\ Goto(c, "answer")
    /\ UNCHANGED <<tables, claim, target, answered>>

\* COMMIT; it may fail, also after it took effect.
Commit(c) ==
    /\ pc[c] = "commit"
    /\ \/ /\ open' = [open EXCEPT ![c] = {}]
          /\ Goto(c, "answer")
          /\ UNCHANGED <<users, links, target>>
       \/ May("commit") /\ Fail(c)
       \/ /\ May("commit")
          /\ open' = [open EXCEPT ![c] = {}]
          /\ Return(c)
          /\ UNCHANGED <<users, links>>
    /\ UNCHANGED <<claim, answered>>

\* Tokens for targetUser; the session and the cache entry are other modules'.
Answer(c) ==
    /\ pc[c] = "answer"
    /\ answered' = answered \cup {LinkOf(c)}
    /\ Return(c)
    /\ UNCHANGED <<tables, claim>>

-----------------------------------------------------------------------------
(* VerifyOTP, and the process *)

\* db.Create of handleVerifyOTP, a transaction of its own.  (It waits and is
\* refused as InsertUser is.)
SignUp(e) ==
    /\ \A r \in users : r.email # e
    /\ \E u \in Unused : users' = users \cup {[id |-> u, email |-> e, by |-> "otp"]}
    /\ UNCHANGED <<links, open, pc, claim, target, answered>>

\* PostgreSQL rolls back what the dead process had open.
Crash ==
    /\ May("crash") /\ \E c \in Clients : pc[c] # "idle"
    /\ users' = Committed(users) /\ links' = Committed(links)
    /\ open' = [c \in Clients |-> {}]
    /\ pc' = [c \in Clients |-> "idle"] /\ target' = [c \in Clients |-> None]
    /\ UNCHANGED <<claim, answered>>

Handler(c) == FindLink(c) \/ FindUser(c) \/ InsertUser(c) \/ InsertLink(c)
              \/ LinkAccount(c) \/ Commit(c) \/ Answer(c)

Next ==
    \/ \E c \in Clients : Begin(c) \/ Handler(c)
    \/ \E e \in Emails : SignUp(e)
    \/ Crash

Spec == Init /\ [][Next]_vars

\* Handlers run on, PostgreSQL wakes the waiters of a transaction that ended,
\* and a client tries again until it is answered.  A statement that is tried
\* again and again does not fail always.
Fairness ==
    \A c \in Clients :
        /\ WF_vars(Begin(c)) /\ WF_vars(Handler(c))
        /\ SF_vars(FindLink(c) /\ pc'[c] # "idle") /\ SF_vars(FindUser(c) /\ pc'[c] # "idle")
        /\ SF_vars(InsertUser(c) /\ pc'[c] # "idle") /\ SF_vars(InsertLink(c) /\ pc'[c] # "idle")
        /\ SF_vars(LinkAccount(c) /\ pc'[c] # "idle") /\ SF_vars(Commit(c) /\ pc'[c] # "idle")

FairSpec == Spec /\ Fairness

-----------------------------------------------------------------------------
(* Properties *)

\* Whatever fails, an identity never stands without its account, nor does an
\* account a sign-in created without the identity it was created for: it could
\* not be signed in to (handler.go:296-354).
NothingHalfDone ==
    /\ \A l \in Committed(links) : \E r \in Committed(users) : r.id = l.user
    /\ \A r \in Committed(users) : r.by = "google" => \E l \in Committed(links) : l.user = r.id

\* Tokens are issued only for what is in the database, and stays there: also
\* when COMMIT fails after the closure has set targetUser (handler.go:345-355).
AnswersAreCommitted == answered \subseteq Committed(links)

\* However many sign-ins race, one identity is answered with one account, also
\* after its email has changed at Google (handler.go:298-311).
SameIdentitySameAccount ==
    \A a, b \in answered :
        a.provider = b.provider /\ a.subject = b.subject => a.user = b.user

\* Whose transaction c's INSERT waits for: one that holds a row in the unique
\* index it enters.
Waits(c, d) ==
    \/ pc[c] = "insertUser" /\ \E r \in users \cap open[d] : r.email = claim[c].email
    \/ pc[c] = "insertLink" /\ \E l \in links \cap open[d] : SameIdentity(l, c)
    \/ pc[c] = "linkAccount" /\ \E l \in Indexed \cap open[d] : SameAccount(l, c)

Entered(c) ==
    CASE pc[c] = "insertLink"  -> 1
      [] pc[c] = "linkAccount" -> 2
      [] pc[c] = "commit"      -> 3
      [] OTHER                 -> 0

\* Transactions cannot wait for each other in a circle, however many there are:
\* who is waited for has entered an index more than the one who waits, and who is
\* about to commit waits for nobody (handler.go:304-350, auth-provider.go:12-14).
WaitsAreShort ==
    \A c, d \in Clients : Waits(c, d) => Entered(c) < Entered(d) /\ Entered(c) < 3

Directory == INSTANCE AccountDirectory
    WITH vouched <- {claim[c] : c \in Clients},
         accounts <- Committed(users), identities <- Committed(links)

\* To who reads the database every sign-in takes effect at once, as in
\* AccountDirectory, whatever statements of others and failures come between its
\* own (handler.go:296-355).
ImplementsDirectory == Directory!Spec

\* A client that tries again comes to an answer of its own in the end, though its
\* first attempts may lose a race, unless its account has another identity of that
\* provider (handler.go:296-355).
RetrySucceeds ==
    \A c \in Clients :
        <>(\/ pc[c] = "answer"
           \/ \E l \in Committed(links), r \in Committed(users) :
                 /\ l.user = r.id /\ r.email = claim[c].email
                 /\ l.provider = claim[c].provider /\ l.subject # claim[c].subject)
=============================================================================
