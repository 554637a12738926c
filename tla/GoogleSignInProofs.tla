------------------------- MODULE GoogleSignInProofs -------------------------
(* Theorems about GoogleSignIn, for any clients, identities and emails. *)
EXTENDS GoogleSignIn, TLAPS

\* The rows other transactions can read.
CU == Committed(users)
CL == Committed(links)

\* Types; what a transaction has inserted is in the tables and its own.
TypeInv ==
    /\ users \subseteq Users /\ links \subseteq Links
    /\ open \in [Clients -> SUBSET (users \cup links)]
    /\ \A c, d \in Clients : c # d => open[c] \cap open[d] = {}
    /\ pc \in [Clients -> {"idle", "findLink", "findUser", "insertUser", "insertLink",
                           "linkAccount", "commit", "answer"}]
    /\ claim \in [Clients -> Claims]
    /\ target \in [Clients -> Uids \cup {None}]

\* The unique indexes, which the rows of open transactions are in as well.
UniqueUsers ==
    \A r, q \in users : r.id = q.id \/ r.email = q.email => r = q

UniqueLinks ==
    /\ \A l, m \in links : l.provider = m.provider /\ l.subject = m.subject => l = m
    /\ \A l, m \in Indexed : l.provider = m.provider /\ l.user = m.user => l = m

\* A row of the account a handler has chosen by its email; seen by all, or
\* inserted by the handler itself along with the given rows.
Account(c, rows) ==
    \E r \in users :
        /\ r.id = target[c] /\ r.email = claim[c].email
        /\ \/ r \in CU /\ open[c] = rows
           \/ r.by = "google" /\ open[c] = {r} \cup rows

\* What each handler has inserted and found so far.
Mine(c) ==
    /\ pc[c] \in {"idle", "findLink", "findUser", "insertUser", "answer"} => open[c] = {}
    /\ pc[c] = "insertLink" => target[c] \in Uids /\ Account(c, {})
    /\ pc[c] = "linkAccount" => LinkOf(c) \in links /\ Account(c, {LinkOf(c)})
    /\ pc[c] = "commit" =>
          \/ LinkOf(c) \in CL /\ open[c] = {}
          \/ LinkOf(c) \in links /\ Account(c, {LinkOf(c)})
    /\ pc[c] = "answer" => LinkOf(c) \in CL

IInv ==
    /\ TypeInv /\ UniqueUsers /\ UniqueLinks
    /\ \A c \in Clients : Mine(c)
    /\ NothingHalfDone /\ AnswersAreCommitted

-----------------------------------------------------------------------------
(* What steps do to the committed rows *)

\* Rows of the two tables differ.
LEMMA RowsDiffer == Users \cap Links = {}
<1> SUFFICES ASSUME NEW x \in Users, x \in Links PROVE FALSE
  OBVIOUS
<1>1. DOMAIN x = {"id", "email", "by"}
  BY DEF Users
<1>2. DOMAIN x = {"provider", "subject", "user"}
  BY DEF Links
<1> QED
  BY <1>1, <1>2

\* What a handler has found and inserted stays, whatever another does.
LEMMA OthersKeep ==
    ASSUME IInv, NEW d \in Clients,
           pc'[d] = pc[d], target'[d] = target[d], open'[d] = open[d], claim' = claim,
           CU \subseteq CU', CL \subseteq CL',
           users \cap open[d] \subseteq users', links \cap open[d] \subseteq links'
    PROVE  Mine(d)'
<1>1. LinkOf(d)' = LinkOf(d)
  BY DEF LinkOf
<1>2. \A rows : Account(d, rows) => Account(d, rows)'
  BY DEF Account, CU, Committed
<1>3. Mine(d)
  BY DEF IInv
<1>4. LinkOf(d) \in links /\ Account(d, {LinkOf(d)}) => LinkOf(d) \in links'
  BY DEF Account
<1> QED
  BY <1>1, <1>2, <1>3, <1>4 DEF Mine

\* Nothing happens to the tables.
LEMMA SameTables ==
    ASSUME UNCHANGED tables
    PROVE  CU' = CU /\ CL' = CL
BY DEF tables, CU, CL, Committed

\* A transaction that rolls back leaves the committed rows alone.
LEMMA RollbackRows ==
    ASSUME IInv, NEW c \in Clients,
           users' = users \ open[c], links' = links \ open[c],
           open' = [open EXCEPT ![c] = {}]
    PROVE  /\ CU' = CU /\ CL' = CL
           /\ \A d \in Clients \ {c} : /\ users \cap open[d] \subseteq users'
                                       /\ links \cap open[d] \subseteq links'
                                       /\ open[d] \subseteq users' \cup links'
<1>1. open \in [Clients -> SUBSET (users \cup links)]
  BY DEF IInv, TypeInv
<1>2. \A d \in Clients \ {c} : open'[d] = open[d] /\ open[d] \cap open[c] = {}
  BY DEF IInv, TypeInv
<1>3. open'[c] = {}
  BY <1>1
<1>4. \A d \in Clients : open[d] \subseteq users \cup links
  BY <1>1
<1> QED
  BY <1>2, <1>3, <1>4 DEF CU, CL, Committed

\* A transaction that commits adds its own rows to them.
LEMMA CommitRows ==
    ASSUME IInv, NEW c \in Clients, UNCHANGED <<users, links>>,
           open' = [open EXCEPT ![c] = {}]
    PROVE  CU' = CU \cup (users \cap open[c]) /\ CL' = CL \cup (links \cap open[c])
<1>1. open'[c] = {} /\ \A d \in Clients \ {c} : open'[d] = open[d] /\ open[d] \cap open[c] = {}
  BY DEF IInv, TypeInv
<1> QED
  BY <1>1 DEF CU, CL, Committed

\* An inserted row is not one of them.
LEMMA InsertRows ==
    ASSUME IInv, NEW c \in Clients, NEW row, row \notin users \cup links,
           \/ users' = users \cup {row} /\ links' = links
           \/ links' = links \cup {row} /\ users' = users,
           open' = [open EXCEPT ![c] = @ \cup {row}]
    PROVE  CU' = CU /\ CL' = CL
<1>1. open'[c] = open[c] \cup {row} /\ \A d \in Clients \ {c} : open'[d] = open[d]
  BY DEF IInv, TypeInv
<1> QED
  BY <1>1 DEF CU, CL, Committed

-----------------------------------------------------------------------------
(* The steps *)

\* The invariant holds at the start.
LEMMA InvInit == Init => IInv
<1> SUFFICES ASSUME Init PROVE IInv
  OBVIOUS
<1>1. CU = {} /\ CL = {}
  BY DEF Init, CU, CL, Committed
<1> QED
  BY <1>1 DEF Init, IInv, TypeInv, UniqueUsers, UniqueLinks, Indexed, Mine, NothingHalfDone, AnswersAreCommitted, CU, CL

\* A handler that only reads, and moves on.
LEMMA ReadStep ==
    ASSUME IInv, NEW c \in Clients, UNCHANGED <<tables, claim>>,
           NEW l \in {"idle", "findLink", "findUser", "insertUser", "insertLink", "commit", "answer"},
           Goto(c, l), NEW t \in Uids \cup {None}, target' = [target EXCEPT ![c] = t],
           pc[c] # "linkAccount" \/ UniqueLinks',
           Mine(c)', answered' \subseteq CL
    PROVE  IInv'
<1>1. CU' = CU /\ CL' = CL
  BY SameTables
<1>2. TypeInv' /\ UniqueUsers' /\ UniqueLinks'
  <2>1. pc' = [pc EXCEPT ![c] = l] /\ \A d \in Clients : pc'[d] = IF d = c THEN l ELSE pc[d]
    BY DEF Goto, IInv, TypeInv
  <2>2. pc[c] # "linkAccount" => Indexed' = Indexed
    BY <2>1 DEF tables, Indexed
  <2> QED
    BY <2>1, <2>2 DEF tables, IInv, TypeInv, UniqueUsers, UniqueLinks
<1>3. \A d \in Clients : Mine(d)'
  <2> SUFFICES ASSUME NEW d \in Clients, d # c PROVE Mine(d)'
    OBVIOUS
  <2>1. pc'[d] = pc[d] /\ target'[d] = target[d]
    BY DEF Goto, IInv, TypeInv
  <2> QED
    BY <1>1, <2>1, OthersKeep DEF tables
<1>4. NothingHalfDone' /\ AnswersAreCommitted'
  BY <1>1 DEF IInv, NothingHalfDone, AnswersAreCommitted, CU, CL
<1> QED
  BY <1>2, <1>3, <1>4 DEF IInv

\* A handler that fails.
LEMMA FailStep ==
    ASSUME IInv, NEW c \in Clients, Fail(c), UNCHANGED <<claim, answered>>
    PROVE  IInv'
<1>0. /\ users' = users \ open[c] /\ links' = links \ open[c] /\ open' = [open EXCEPT ![c] = {}]
      /\ pc' = [pc EXCEPT ![c] = "idle"] /\ target' = [target EXCEPT ![c] = None]
  BY DEF Fail, Return, Goto
<1>1. /\ CU' = CU /\ CL' = CL
      /\ \A d \in Clients \ {c} : /\ users \cap open[d] \subseteq users'
                                  /\ links \cap open[d] \subseteq links'
                                  /\ open[d] \subseteq users' \cup links'
  BY <1>0, RollbackRows
<1>2. open'[c] = {} /\ \A d \in Clients \ {c} : open'[d] = open[d]
  BY <1>0 DEF IInv, TypeInv
<1>3. TypeInv'
  <2>1. open' \in [Clients -> SUBSET (users' \cup links')]
    BY <1>0, <1>1, <1>2 DEF IInv, TypeInv
  <2>2. \A a, b \in Clients : a # b => open'[a] \cap open'[b] = {}
    BY <1>2 DEF IInv, TypeInv
  <2> QED
    BY <1>0, <2>1, <2>2 DEF IInv, TypeInv
<1>4. UniqueUsers' /\ UniqueLinks'
  <2>1. Indexed' \subseteq Indexed
    BY <1>0, <1>2 DEF Indexed, IInv, TypeInv
  <2> QED
    BY <1>0, <2>1 DEF IInv, UniqueUsers, UniqueLinks
<1>5. \A d \in Clients : Mine(d)'
  <2>1. Mine(c)'
    BY <1>0, <1>2 DEF Mine, IInv, TypeInv
  <2>2. ASSUME NEW d \in Clients \ {c} PROVE Mine(d)'
    <3>1. pc'[d] = pc[d] /\ target'[d] = target[d] /\ open'[d] = open[d]
      BY <1>0, <1>2 DEF IInv, TypeInv
    <3> QED
      BY <1>1, <3>1, OthersKeep
  <2> QED
    BY <2>1, <2>2
<1>6. NothingHalfDone' /\ AnswersAreCommitted'
  BY <1>1 DEF IInv, NothingHalfDone, AnswersAreCommitted, CU, CL
<1> QED
  BY <1>3, <1>4, <1>5, <1>6 DEF IInv

\* A handler that inserts a row and moves on.
LEMMA InsertStep ==
    ASSUME IInv, NEW c \in Clients, NEW row, row \notin users \cup links,
           NEW l, l # "idle", Goto(c, l), pc[c] \in {"insertUser", "insertLink"},
           \/ /\ row \in Users /\ users' = users \cup {row} /\ links' = links
              /\ \A q \in users : q.id # row.id /\ q.email # row.email
              /\ l = "insertLink"
           \/ /\ row \in Links /\ links' = links \cup {row} /\ users' = users
              /\ \A m \in links : m.provider = row.provider => m.subject # row.subject
              /\ l = "linkAccount",
           open' = [open EXCEPT ![c] = @ \cup {row}],
           NEW t \in Uids \cup {None}, target' = [target EXCEPT ![c] = t],
           UNCHANGED <<claim, answered>>, Mine(c)'
    PROVE  IInv'
<1>1. CU' = CU /\ CL' = CL
  BY InsertRows
<1>2. open'[c] = open[c] \cup {row} /\ \A d \in Clients \ {c} : open'[d] = open[d]
  BY DEF IInv, TypeInv
<1>3. \A d \in Clients : open[d] \subseteq users \cup links
  BY DEF IInv, TypeInv
<1>4. TypeInv'
  <2>1. open' \in [Clients -> SUBSET (users' \cup links')]
    BY <1>2, <1>3 DEF IInv, TypeInv
  <2>2. \A a, b \in Clients : a # b => open'[a] \cap open'[b] = {}
    BY <1>2, <1>3 DEF IInv, TypeInv
  <2> QED
    BY <2>1, <2>2 DEF Goto, IInv, TypeInv
<1>5. UniqueUsers' /\ UniqueLinks'
  <2>1. \A d \in Clients : pc'[d] = IF d = c THEN l ELSE pc[d]
    BY DEF Goto, IInv, TypeInv
  <2>2. Indexed' \subseteq Indexed
    BY <1>2, <2>1 DEF Indexed
  <2> QED
    BY <2>2 DEF IInv, UniqueUsers, UniqueLinks
<1>6. \A d \in Clients : Mine(d)'
  <2> SUFFICES ASSUME NEW d \in Clients, d # c PROVE Mine(d)'
    OBVIOUS
  <2>1. pc'[d] = pc[d] /\ target'[d] = target[d] /\ open'[d] = open[d]
    BY <1>2 DEF Goto, IInv, TypeInv
  <2> QED
    BY <1>1, <2>1, OthersKeep
<1>7. NothingHalfDone' /\ AnswersAreCommitted'
  BY <1>1 DEF IInv, NothingHalfDone, AnswersAreCommitted, CU, CL
<1> QED
  BY <1>4, <1>5, <1>6, <1>7 DEF IInv

\* COMMIT takes effect, whether the handler learns of it or not.
LEMMA CommitStep ==
    ASSUME IInv, NEW c \in Clients, pc[c] = "commit", UNCHANGED <<users, links, claim, answered>>,
           open' = [open EXCEPT ![c] = {}],
           \/ Goto(c, "answer") /\ UNCHANGED target
           \/ Return(c)
    PROVE  IInv'
<1>0. /\ \/ pc' = [pc EXCEPT ![c] = "answer"] /\ target' = target
         \/ pc' = [pc EXCEPT ![c] = "idle"] /\ target' = [target EXCEPT ![c] = None]
      /\ Mine(c)
  BY DEF Goto, Return, IInv
<1>1. CU' = CU \cup (users \cap open[c]) /\ CL' = CL \cup (links \cap open[c])
  BY CommitRows
<1>2. open'[c] = {} /\ \A d \in Clients \ {c} : open'[d] = open[d]
  BY DEF IInv, TypeInv
<1>3. TypeInv' /\ UniqueUsers' /\ UniqueLinks'
  <2>1. Indexed' = Indexed
    BY <1>0, <1>2 DEF Indexed, IInv, TypeInv
  <2> QED
    BY <1>0, <1>2, <2>1 DEF IInv, TypeInv, UniqueUsers, UniqueLinks
<1>4. \A d \in Clients \ {c} : Mine(d)'
  <2> SUFFICES ASSUME NEW d \in Clients \ {c} PROVE Mine(d)'
    OBVIOUS
  <2>1. pc'[d] = pc[d] /\ target'[d] = target[d] /\ open'[d] = open[d]
    BY <1>0, <1>2 DEF IInv, TypeInv
  <2> QED
    BY <1>1, <2>1, OthersKeep
<1>5. LinkOf(c) \in CL'
  <2>1. CASE LinkOf(c) \in CL
    BY <1>1, <2>1
  <2>2. CASE LinkOf(c) \in links /\ Account(c, {LinkOf(c)})
    BY <1>1, <2>2 DEF Account, CL, Committed
  <2> QED
    BY <1>0, <2>1, <2>2 DEF Mine
<1>6. Mine(c)'
  <2>1. CASE pc' = [pc EXCEPT ![c] = "answer"] /\ target' = target
    <3>1. LinkOf(c)' = LinkOf(c)
      BY <2>1 DEF LinkOf
    <3> QED
      BY <1>2, <1>5, <2>1, <3>1 DEF Mine, IInv, TypeInv
  <2>2. CASE pc' = [pc EXCEPT ![c] = "idle"]
    BY <1>2, <2>2 DEF Mine, IInv, TypeInv
  <2> QED
    BY <1>0, <2>1, <2>2
<1>7. AnswersAreCommitted'
  BY <1>1 DEF IInv, AnswersAreCommitted, CL
<1>8. NothingHalfDone'
  <2>1. CASE open[c] = {}
    BY <1>1, <2>1 DEF IInv, NothingHalfDone, CU, CL
  <2>2. CASE LinkOf(c) \in links /\ Account(c, {LinkOf(c)})
    <3>1. PICK r \in users :
              /\ r.id = target[c]
              /\ (r \in CU /\ open[c] = {LinkOf(c)}) \/ open[c] = {r} \cup {LinkOf(c)}
      BY <2>2 DEF Account
    <3>2. LinkOf(c).user = target[c]
      BY DEF LinkOf
    <3>3. r \in CU' /\ LinkOf(c) \in CL'
      BY <1>1, <1>5, <3>1
    <3>4. CU' \subseteq CU \cup {r} /\ CL' \subseteq CL \cup {LinkOf(c)}
      <4>1. r \notin links /\ LinkOf(c) \notin users
        BY <2>2, RowsDiffer DEF IInv, TypeInv
      <4>2. users \cap open[c] \subseteq {r} /\ links \cap open[c] \subseteq {LinkOf(c)}
        BY <3>1, <4>1
      <4> HIDE DEF CU, CL
      <4> QED
        BY <1>1, <4>2
    <3>5. /\ \A l \in CL : \E q \in CU : q.id = l.user
          /\ \A q \in CU : q.by = "google" => \E l \in CL : l.user = q.id
      BY DEF IInv, NothingHalfDone, CU, CL
    <3>6. /\ \A l \in CL' : \E q \in CU' : q.id = l.user
          /\ \A q \in CU' : q.by = "google" => \E l \in CL' : l.user = q.id
      <4>1. CU \subseteq CU' /\ CL \subseteq CL'
        BY <1>1
      <4> HIDE DEF CU, CL
      <4> QED
        BY <3>1, <3>2, <3>3, <3>4, <3>5, <4>1
    <3> QED
      BY <3>6 DEF NothingHalfDone, CU, CL
  <2> QED
    BY <1>0, <2>1, <2>2 DEF Mine
<1> QED
  BY <1>3, <1>4, <1>6, <1>7, <1>8 DEF IInv

\* A statement of a handler.
LEMMA HandlerStep ==
    ASSUME IInv, NEW c \in Clients, Begin(c) \/ Handler(c)
    PROVE  IInv'
<1>0. /\ Mine(c) /\ target[c] \in Uids \cup {None} /\ target = [target EXCEPT ![c] = target[c]]
      /\ \A l : Goto(c, l) => pc'[c] = l
      /\ answered \subseteq CL /\ claim[c] \in Claims
  BY DEF IInv, TypeInv, Goto, AnswersAreCommitted, CL
<1>1. CASE Begin(c)
  <2>1. Goto(c, "findLink") /\ pc[c] = "idle" /\ UNCHANGED <<tables, claim, target, answered>>
    BY <1>1 DEF Begin
  <2>2. Mine(c)'
    BY <1>0, <2>1 DEF Mine, tables
  <2> QED
    BY <1>0, <2>1, <2>2, ReadStep
<1>2. CASE FindLink(c)
  <2>1. pc[c] = "findLink" /\ UNCHANGED <<claim, answered>>
    BY <1>2 DEF FindLink
  <2>2. ASSUME NEW l \in CL, SameIdentity(l, c), target' = [target EXCEPT ![c] = l.user],
               Goto(c, "commit"), UNCHANGED tables
        PROVE  IInv'
    <3>1. l \in Links
      BY DEF CL, Committed, IInv, TypeInv
    <3>2. l.user \in Uids /\ target'[c] = l.user
      BY <2>2, <3>1 DEF Links, IInv, TypeInv
    <3>3. LinkOf(c)' = l
      BY <2>1, <2>2, <3>1, <3>2 DEF LinkOf, SameIdentity, Links
    <3>4. Mine(c)'
      BY <1>0, <2>1, <2>2, <3>3, SameTables DEF Mine, tables
    <3> QED
      BY <1>0, <2>1, <2>2, <3>2, <3>4, ReadStep
  <2>3. ASSUME Goto(c, "findUser"), UNCHANGED <<tables, target>> PROVE IInv'
    <3>1. Mine(c)'
      BY <1>0, <2>1, <2>3 DEF Mine, tables
    <3> QED
      BY <1>0, <2>1, <2>3, <3>1, ReadStep
  <2> QED
    BY <1>2, <2>1, <2>2, <2>3, FailStep DEF FindLink, CL
<1>3. CASE FindUser(c)
  <2>1. pc[c] = "findUser" /\ UNCHANGED <<claim, answered>>
    BY <1>3 DEF FindUser
  <2>2. ASSUME NEW r \in CU, r.email = claim[c].email, target' = [target EXCEPT ![c] = r.id],
               Goto(c, "insertLink"), UNCHANGED tables
        PROVE  IInv'
    <3>1. r \in users /\ r.id \in Uids /\ target'[c] = r.id
      BY <2>2 DEF CU, Committed, Users, IInv, TypeInv
    <3>2. Account(c, {})'
      BY <1>0, <2>1, <2>2, <3>1, SameTables DEF Account, Mine, tables
    <3>3. Mine(c)'
      BY <1>0, <2>2, <3>1, <3>2 DEF Mine
    <3> QED
      BY <1>0, <2>1, <2>2, <3>1, <3>3, ReadStep
  <2>3. ASSUME Goto(c, "insertUser"), UNCHANGED <<tables, target>> PROVE IInv'
    <3>1. Mine(c)'
      BY <1>0, <2>1, <2>3 DEF Mine, tables
    <3> QED
      BY <1>0, <2>1, <2>3, <3>1, ReadStep
  <2> QED
    BY <1>3, <2>1, <2>2, <2>3, FailStep DEF FindUser, CU
<1>4. CASE InsertUser(c)
  <2>1. pc[c] = "insertUser" /\ UNCHANGED <<claim, answered>> /\ open[c] = {}
    BY <1>0, <1>4 DEF InsertUser, Mine
  <2>2. ASSUME NEW u \in Unused, NEW row,
               row = [id |-> u, email |-> claim[c].email, by |-> "google"],
               \A r \in users : r.email # claim[c].email,
               users' = users \cup {row}, open' = [open EXCEPT ![c] = @ \cup {row}],
               target' = [target EXCEPT ![c] = u], Goto(c, "insertLink"), UNCHANGED links
        PROVE  IInv'
    <3>1. /\ row \in Users /\ row.id = u /\ u \in Uids
          /\ row.email = claim[c].email /\ row.by = "google"
          /\ \A q \in users : q.id # row.id /\ q.email # row.email
      BY <1>0, <2>2 DEF Users, Claims, Unused
    <3>2. row \notin users \cup links
      BY <3>1, RowsDiffer DEF Unused, IInv, TypeInv
    <3>3. open'[c] = {row} /\ target'[c] = u
      BY <2>1, <2>2 DEF IInv, TypeInv
    <3>4. Account(c, {})'
      BY <2>1, <2>2, <3>1, <3>3 DEF Account
    <3>5. Mine(c)'
      BY <1>0, <2>2, <3>1, <3>3, <3>4 DEF Mine
    <3> QED
      BY <2>1, <2>2, <3>1, <3>2, <3>5, InsertStep
  <2> QED
    BY <1>4, <2>1, <2>2, FailStep DEF InsertUser
<1>5. CASE InsertLink(c)
  <2>1. pc[c] = "insertLink" /\ UNCHANGED <<claim, answered>>
        /\ target[c] \in Uids /\ Account(c, {})
    BY <1>0, <1>5 DEF InsertLink, Mine
  <2>2. ASSUME \A l \in links : ~SameIdentity(l, c), links' = links \cup {LinkOf(c)},
               open' = [open EXCEPT ![c] = @ \cup {LinkOf(c)}], Goto(c, "linkAccount"),
               UNCHANGED <<users, target>>
        PROVE  IInv'
    <3>1. /\ LinkOf(c) \in Links /\ LinkOf(c).provider = claim[c].provider
          /\ LinkOf(c).subject = claim[c].subject
      BY <1>0, <2>1 DEF LinkOf, Links, Claims
    <3>2. \A l \in links : l.provider = LinkOf(c).provider => l.subject # LinkOf(c).subject
      BY <2>2, <3>1 DEF SameIdentity
    <3>3. LinkOf(c) \notin users \cup links
      BY <3>1, <3>2, RowsDiffer DEF IInv, TypeInv
    <3>4. CU' = CU
      BY <2>2, <3>3, InsertRows
    <3>5. LinkOf(c)' = LinkOf(c) /\ open'[c] = open[c] \cup {LinkOf(c)}
      BY <2>1, <2>2 DEF LinkOf, IInv, TypeInv
    <3>6. Account(c, {LinkOf(c)})'
      BY <2>1, <2>2, <3>4, <3>5 DEF Account
    <3>7. Mine(c)'
      BY <1>0, <2>2, <3>5, <3>6 DEF Mine
    <3> QED
      BY <1>0, <2>1, <2>2, <3>1, <3>2, <3>3, <3>7, InsertStep
  <2> QED
    BY <1>5, <2>1, <2>2, FailStep DEF InsertLink
<1>8. CASE LinkAccount(c)
  <2>1. pc[c] = "linkAccount" /\ UNCHANGED <<claim, answered>>
        /\ LinkOf(c) \in links /\ Account(c, {LinkOf(c)})
    BY <1>0, <1>8 DEF LinkAccount, Mine
  <2>2. ASSUME \A l \in Indexed : ~SameAccount(l, c), Goto(c, "commit"),
               UNCHANGED <<tables, target>>
        PROVE  IInv'
    <3>1. LinkOf(c).provider = claim[c].provider /\ LinkOf(c).user = target[c]
      BY DEF LinkOf
    <3>2. Indexed' \subseteq Indexed \cup {LinkOf(c)}
      <4>1. links \cap open[c] \subseteq {LinkOf(c)}
        BY <2>1, RowsDiffer DEF Account, IInv, TypeInv
      <4>2. \A d \in Clients : d # c => pc'[d] = pc[d]
        BY <2>2 DEF Goto, IInv, TypeInv
      <4> QED
        BY <2>2, <4>1, <4>2 DEF Indexed, tables
    <3>3. UniqueLinks'
      <4>1. links' = links
        BY <2>2 DEF tables
      <4>2. \A l \in Indexed : l.provider = LinkOf(c).provider => l.user # LinkOf(c).user
        BY <2>2, <3>1 DEF SameAccount
      <4> QED
        BY <3>2, <4>1, <4>2 DEF IInv, UniqueLinks
    <3>4. LinkOf(c)' = LinkOf(c) /\ Account(c, {LinkOf(c)})'
      BY <2>1, <2>2, SameTables DEF LinkOf, Account, tables
    <3>5. Mine(c)'
      BY <1>0, <2>1, <2>2, <3>4 DEF Mine, tables
    <3> QED
      BY <1>0, <2>1, <2>2, <3>3, <3>5, ReadStep
  <2> QED
    BY <1>8, <2>1, <2>2, FailStep DEF LinkAccount
<1>6. CASE Commit(c)
  BY <1>6, CommitStep, FailStep DEF Commit
<1>7. CASE Answer(c)
  <2>1. /\ pc[c] = "answer" /\ answered' = answered \cup {LinkOf(c)} /\ Goto(c, "idle")
        /\ target' = [target EXCEPT ![c] = None] /\ UNCHANGED <<tables, claim>>
    BY <1>7 DEF Answer, Return
  <2>2. answered' \subseteq CL
    BY <1>0, <2>1 DEF Mine
  <2>3. Mine(c)'
    BY <1>0, <2>1 DEF Mine, tables
  <2> QED
    BY <2>1, <2>2, <2>3, ReadStep
<1> QED
  BY <1>1, <1>2, <1>3, <1>4, <1>5, <1>6, <1>7, <1>8 DEF Handler

\* VerifyOTP inserts and commits a row.
LEMMA SignUpStep ==
    ASSUME IInv, NEW e \in Emails, SignUp(e)
    PROVE  IInv'
<1>1. PICK u \in Unused : users' = users \cup {[id |-> u, email |-> e, by |-> "otp"]}
  BY DEF SignUp
<1> DEFINE row == [id |-> u, email |-> e, by |-> "otp"]
<1>2. /\ row \in Users /\ row.by = "otp" /\ row \notin users
      /\ \A q \in users : q.id # row.id /\ q.email # row.email
  BY DEF Users, Unused, SignUp
<1>3. UNCHANGED <<links, open, pc, claim, target, answered>>
  BY DEF SignUp
<1> HIDE DEF row
<1>4. \A c \in Clients : row \notin open[c]
  BY <1>2, RowsDiffer DEF IInv, TypeInv
<1>5. CU' = CU \cup {row} /\ CL' = CL
  BY <1>1, <1>3, <1>4 DEF CU, CL, Committed, row
<1>6. TypeInv' /\ UniqueUsers' /\ UniqueLinks'
  BY <1>1, <1>2, <1>3 DEF IInv, TypeInv, UniqueUsers, UniqueLinks, Indexed, row
<1>7. \A d \in Clients : Mine(d)'
  BY <1>1, <1>3, <1>5, OthersKeep
<1>8. NothingHalfDone' /\ AnswersAreCommitted'
  BY <1>2, <1>3, <1>5 DEF IInv, NothingHalfDone, AnswersAreCommitted, CU, CL
<1> QED
  BY <1>6, <1>7, <1>8 DEF IInv

\* A crash rolls every open transaction back.
LEMMA CrashStep ==
    ASSUME IInv, Crash
    PROVE  IInv'
<1> USE DEF Crash
<1>1. CU' = CU /\ CL' = CL /\ users' = CU /\ links' = CL
  BY DEF CU, CL, Committed
<1>2. CU \subseteq users /\ CL \subseteq links
  BY DEF CU, CL, Committed
<1>3. TypeInv' /\ UniqueUsers' /\ UniqueLinks'
  <2>1. CL \subseteq Indexed
    BY DEF CL, Committed, Indexed
  <2>2. Indexed' \subseteq Indexed
    BY <1>1, <2>1 DEF Indexed
  <2> QED
    BY <1>1, <1>2, <2>2 DEF IInv, TypeInv, UniqueUsers, UniqueLinks
<1>4. \A d \in Clients : Mine(d)'
  BY DEF Mine
<1>5. NothingHalfDone' /\ AnswersAreCommitted'
  BY <1>1 DEF IInv, NothingHalfDone, AnswersAreCommitted, CU, CL
<1> QED
  BY <1>3, <1>4, <1>5 DEF IInv

\* Every step keeps the invariant.
LEMMA InvStep == IInv /\ [Next]_vars => IInv'
<1> SUFFICES ASSUME IInv, [Next]_vars PROVE IInv'
  OBVIOUS
<1>1. CASE UNCHANGED vars
  BY <1>1 DEF vars, tables, IInv, TypeInv, UniqueUsers, UniqueLinks, Indexed, Mine, Account, LinkOf, CU, CL,
        Committed, NothingHalfDone, AnswersAreCommitted
<1> QED
  BY <1>1, HandlerStep, SignUpStep, CrashStep DEF Next

\* The invariant holds throughout.
LEMMA Invariance == Spec => []IInv
BY InvInit, InvStep, PTL DEF Spec

-----------------------------------------------------------------------------
(* Theorems *)

\* Accounts and identities come and stay together, whatever fails
\* (handler.go:296-354).
THEOREM NothingIsHalfDone == Spec => []NothingHalfDone
<1>1. IInv => NothingHalfDone
  BY DEF IInv
<1> QED
  BY <1>1, Invariance, PTL

\* Tokens are issued only for what is, and stays, in the database
\* (handler.go:345-355).
THEOREM AnswersAreFinal == Spec => []AnswersAreCommitted
<1>1. IInv => AnswersAreCommitted
  BY DEF IInv
<1> QED
  BY <1>1, Invariance, PTL

\* An identity is answered with one account (handler.go:298-311).
THEOREM IdentityHasOneAccount == Spec => []SameIdentitySameAccount
<1>1. IInv => SameIdentitySameAccount
  BY DEF IInv, AnswersAreCommitted, UniqueLinks, Committed, SameIdentitySameAccount
<1> QED
  BY <1>1, Invariance, PTL

\* Who is waited for has entered an index more than the one who waits, so there
\* is no circle of waiting transactions (handler.go:304-350).
THEOREM NoWaitsInACircle == Spec => []WaitsAreShort
<1>1. IInv => WaitsAreShort
  <2> SUFFICES ASSUME IInv, NEW c \in Clients, NEW d \in Clients, Waits(c, d)
               PROVE  Entered(c) < Entered(d) /\ Entered(c) < 3
    BY DEF WaitsAreShort
  <2>1. pc[c] \in {"insertUser", "insertLink", "linkAccount"} /\ open[d] # {} /\ Mine(d)
    BY DEF Waits, IInv
  <2>2. pc[d] \in {"insertLink", "linkAccount", "commit"}
    BY <2>1 DEF Mine, IInv, TypeInv
  <2>3. ASSUME pc[c] # "insertUser", pc[d] = "insertLink" PROVE FALSE
    <3>1. PICK l \in links : l \in open[d]
      BY <2>1, <2>3 DEF Waits, Indexed
    <3>2. PICK r \in users : open[d] = {} \/ open[d] = {r}
      BY <2>1, <2>3 DEF Mine, Account
    <3> QED
      BY <3>1, <3>2, RowsDiffer DEF IInv, TypeInv
  <2>4. ASSUME pc[c] = "linkAccount" PROVE pc[d] # "linkAccount"
    BY <2>4 DEF Waits, Indexed
  <2> QED
    BY <2>1, <2>2, <2>3, <2>4 DEF Entered
<1> QED
  BY <1>1, Invariance, PTL

-----------------------------------------------------------------------------
(* GoogleSignIn implements AccountDirectory *)

\* The directory is empty at the start.
LEMMA MapInit == Init => Directory!Init
<1> SUFFICES ASSUME Init PROVE Directory!Init
  OBVIOUS
<1>1. \A c \in Clients : claim[c] \in Directory!Claims
  BY DEF Init, Claims, Directory!Claims
<1> QED
  BY <1>1 DEF Init, Committed, Directory!Init

\* A step that neither commits nor answers is not seen.
LEMMA Unseen ==
    ASSUME CU' = CU, CL' = CL, UNCHANGED <<claim, answered>>
    PROVE  UNCHANGED Directory!vars
BY DEF CU, CL, Directory!vars

\* A COMMIT that takes effect adds an account with its identity, adds an
\* identity to an account, or changes nothing.
LEMMA CommitMaps ==
    ASSUME IInv, NEW c \in Clients, pc[c] = "commit",
           UNCHANGED <<users, links, claim, answered>>, open' = [open EXCEPT ![c] = {}]
    PROVE  [Directory!Next]_(Directory!vars)
<1> DEFINE new == LinkOf(c)
           u   == target[c]
<1>1. /\ Mine(c) /\ claim[c] \in {claim[d] : d \in Clients}
      /\ new = Directory!Identity(claim[c], u)
  BY DEF IInv, LinkOf, Directory!Identity
<1>2. CU' = CU \cup (users \cap open[c]) /\ CL' = CL \cup (links \cap open[c])
  BY CommitRows
<1>3. CASE open[c] = {}
  BY <1>2, <1>3, Unseen
<1>4. CASE new \in links /\ Account(c, {new})
  <2>1. PICK r \in users :
            /\ r.id = u /\ r.email = claim[c].email
            /\ \/ r \in CU /\ open[c] = {new}
               \/ r.by = "google" /\ open[c] = {r} \cup {new}
    BY <1>4 DEF Account
  <2>2. /\ r \in Users /\ u \in Uids
        /\ r \notin links /\ new \notin users /\ new \in open[c] /\ new \notin CL
    BY <1>4, <2>1, RowsDiffer DEF IInv, TypeInv, Users, CL, Committed
  <2>3. new.provider = claim[c].provider /\ new.subject = claim[c].subject /\ new.user = u
    BY DEF LinkOf
  <2> HIDE DEF new, u
  <2>4. \A l \in CL : l.provider = new.provider => l.subject # new.subject /\ l.user # new.user
    <3>1. CL \subseteq Indexed /\ CL \subseteq links
      BY DEF CL, Committed, Indexed
    <3>2. new \in Indexed
      BY <1>4, <2>2 DEF IInv, TypeInv, Indexed
    <3> QED
      BY <1>4, <2>2, <3>1, <3>2 DEF IInv, UniqueLinks
  <2>5. Directory!NewIdentity(new)
    BY <2>4 DEF Directory!NewIdentity, CL
  <2>6. CL' = CL \cup {new}
    BY <1>2, <1>4, <2>1, <2>2
  <2>7. CASE r \in CU
    <3>1. CU' = CU
      <4>1. open[c] = {new}
        BY <2>1, <2>7 DEF CU, Committed
      <4> QED
        BY <1>2, <2>2, <4>1
    <3>2. Directory!Join(claim[c], u)
      BY <1>1, <2>1, <2>5, <2>6, <2>7, <3>1 DEF Directory!Join, CU, CL
    <3> QED
      BY <1>1, <2>2, <3>2 DEF Directory!Next
  <2>8. CASE r \notin CU
    <3>1. r.by = "google" /\ CU' = CU \cup {r}
      BY <1>2, <2>1, <2>2, <2>8
    <3>2. r = [id |-> u, email |-> claim[c].email, by |-> "google"]
      BY <2>1, <2>2, <3>1 DEF Users
    <3>3. \A q \in CU : q.id # u /\ q.email # claim[c].email
      BY <2>1, <2>8 DEF IInv, UniqueUsers, CU, Committed
    <3>4. Directory!NewEmail(claim[c].email) /\ Directory!NewId(u)
      BY <2>2, <3>3 DEF Directory!NewEmail, Directory!NewId, CU
    <3>5. Directory!Create(claim[c], u)
      BY <1>1, <2>5, <2>6, <3>1, <3>2, <3>4 DEF Directory!Create, CU, CL
    <3> QED
      BY <1>1, <2>2, <3>5 DEF Directory!Next
  <2> QED
    BY <2>7, <2>8
<1> QED
  BY <1>1, <1>3, <1>4 DEF Mine

\* VerifyOTP registers an account.
LEMMA SignUpMaps ==
    ASSUME IInv, NEW e \in Emails, SignUp(e)
    PROVE  Directory!Next
<1>1. PICK u \in Unused : users' = users \cup {[id |-> u, email |-> e, by |-> "otp"]}
  BY DEF SignUp
<1> DEFINE row == [id |-> u, email |-> e, by |-> "otp"]
<1>2. UNCHANGED <<links, open, claim, answered>> /\ u \in Uids
  BY DEF SignUp, Unused
<1>3. row \in Users /\ row \notin users
  BY <1>2 DEF Users, Unused
<1>4. \A c \in Clients : row \notin open[c]
  BY <1>3, RowsDiffer DEF IInv, TypeInv
<1>5. CU' = CU \cup {row} /\ CL' = CL
  BY <1>1, <1>2, <1>4 DEF CU, CL, Committed
<1>6. \A r \in CU : r.email # e /\ r.id # u
  BY DEF CU, Committed, SignUp, Unused
<1>7. Directory!Register(e, u)
  BY <1>2, <1>5, <1>6 DEF Directory!Register, Directory!NewEmail, Directory!NewId, CU, CL
<1> QED
  BY <1>2, <1>7 DEF Directory!Next

\* An answer is one of the directory.
LEMMA AnswerMaps ==
    ASSUME IInv, NEW c \in Clients, Answer(c)
    PROVE  Directory!Next
<1>1. LinkOf(c) \in CL /\ LinkOf(c) = Directory!Identity(claim[c], target[c])
  BY DEF Answer, IInv, Mine, LinkOf, Directory!Identity
<1>2. target[c] \in Uids
  BY <1>1 DEF CL, Committed, LinkOf, Links, IInv, TypeInv
<1>3. CU' = CU /\ CL' = CL /\ claim' = claim /\ answered' = answered \cup {LinkOf(c)}
  BY SameTables DEF Answer
<1>4. Directory!Answer(claim[c], target[c])
  BY <1>1, <1>3 DEF Directory!Answer, CU, CL
<1> QED
  BY <1>2, <1>4 DEF Directory!Next

\* A statement of a handler is a step of the directory, or is not seen.
LEMMA HandlerMaps ==
    ASSUME IInv, NEW c \in Clients, Begin(c) \/ Handler(c)
    PROVE  [Directory!Next]_(Directory!vars)
<1>1. ASSUME Fail(c), UNCHANGED <<claim, answered>> PROVE UNCHANGED Directory!vars
  BY <1>1, RollbackRows, Unseen DEF Fail
<1>2. ASSUME UNCHANGED <<tables, claim, answered>> PROVE UNCHANGED Directory!vars
  BY <1>2, SameTables, Unseen
<1>3. CASE Begin(c) \/ FindLink(c) \/ FindUser(c)
  BY <1>1, <1>2, <1>3 DEF Begin, FindLink, FindUser
<1>4. CASE InsertUser(c)
  <2>1. ASSUME NEW u \in Unused, NEW row,
               row = [id |-> u, email |-> claim[c].email, by |-> "google"],
               users' = users \cup {row}, open' = [open EXCEPT ![c] = @ \cup {row}],
               UNCHANGED <<links, claim, answered>>
        PROVE  UNCHANGED Directory!vars
    <3>1. row \in Users /\ row.id = u
      BY <2>1 DEF Users, Claims, Unused, IInv, TypeInv
    <3>2. row \notin users \cup links
      BY <3>1, RowsDiffer DEF Unused, IInv, TypeInv
    <3> QED
      BY <2>1, <3>2, InsertRows, Unseen
  <2> QED
    BY <1>1, <1>4, <2>1 DEF InsertUser
<1>5. CASE InsertLink(c)
  <2>1. ASSUME \A l \in links : ~SameIdentity(l, c), links' = links \cup {LinkOf(c)},
               open' = [open EXCEPT ![c] = @ \cup {LinkOf(c)}], pc[c] = "insertLink",
               UNCHANGED <<users, claim, answered>>
        PROVE  UNCHANGED Directory!vars
    <3>1. target[c] \in Uids
      BY <2>1 DEF IInv, Mine
    <3>2. /\ LinkOf(c) \in Links /\ LinkOf(c).provider = claim[c].provider
          /\ LinkOf(c).subject = claim[c].subject
      BY <3>1 DEF LinkOf, Links, Claims, IInv, TypeInv
    <3>3. LinkOf(c) \notin users \cup links
      BY <2>1, <3>2, RowsDiffer DEF SameIdentity, IInv, TypeInv
    <3> QED
      BY <2>1, <3>3, InsertRows, Unseen
  <2> QED
    BY <1>1, <1>5, <2>1 DEF InsertLink
<1>8. CASE LinkAccount(c)
  BY <1>1, <1>2, <1>8 DEF LinkAccount
<1>6. CASE Commit(c)
  BY <1>1, <1>6, CommitMaps DEF Commit
<1>7. CASE Answer(c)
  BY <1>7, AnswerMaps
<1> QED
  BY <1>3, <1>4, <1>5, <1>6, <1>7, <1>8 DEF Handler

\* A crash is not seen either.
LEMMA CrashMaps ==
    ASSUME Crash
    PROVE  UNCHANGED Directory!vars
<1>1. CU' = CU /\ CL' = CL /\ UNCHANGED <<claim, answered>>
  BY DEF Crash, CU, CL, Committed
<1> QED
  BY <1>1, Unseen

\* To other readers of the database a sign-in takes effect at once or not at
\* all, whatever it runs beside (handler.go:296-355).
THEOREM Refinement == Spec => ImplementsDirectory
<1>1. IInv /\ [Next]_vars => [Directory!Next]_(Directory!vars)
  <2> SUFFICES ASSUME IInv, [Next]_vars PROVE [Directory!Next]_(Directory!vars)
    OBVIOUS
  <2>1. CASE UNCHANGED vars
    BY <2>1, SameTables, Unseen DEF vars
  <2> QED
    BY <2>1, HandlerMaps, SignUpMaps, CrashMaps DEF Next
<1> QED
  BY <1>1, MapInit, Invariance, PTL DEF Spec, ImplementsDirectory, Directory!Spec
=============================================================================
