---------------------------- MODULE FriendsProofs ----------------------------
(***************************************************************************)
(* Friendships for every number of servers, users and connections and for  *)
(* every failure: they are mutual, clients show only real ones, and no     *)
(* connection goes back to the pool with a lock on one.                    *)
(***************************************************************************)
EXTENDS Friends, TLAPS

Link == [manual: BOOLEAN, dirty: SUBSET Row, locks: SUBSET Row]

Types ==
    /\ db   \in SUBSET Row
    /\ con  \in [Server -> [Conn -> Link]]
    /\ idle \in [Server -> SUBSET Conn]
    /\ job  \in [Server -> Job \cup {None}]

ClientTypes ==
    /\ reg   \in [User -> Server \cup {None}]
    /\ owner \in [User -> Server \cup {None}]
    /\ at    \in [User -> Server \cup {None}]
    /\ bound \in [Server -> SUBSET User]
    /\ known \in SUBSET Ask
    /\ shown \in SUBSET (User \X User)
    /\ acked \in SUBSET Ask
    /\ torn  \in SUBSET (User \X User)

\* Only AddFriend keeps a connection from one step to the next.
Adding == {"first", "second", "commit"}

JobOK(j) ==
    /\ j.c = None <=> ~(j.op = "auth" /\ j.pc \in Adding)
    /\ j.op = "apply" => <<j.u, j.w>> \in Ask

JobInv == \A v \in Server : job[v] # None => JobOK(job[v])

IdleInv == \A v \in Server : idle[v] = Conn \ (IF job[v] = None THEN {} ELSE {job[v].c})

\* What a connection has not committed is locked by it, and with autocommit there is none.
LinkOK(k) == /\ \A r \in k.dirty : Key(r) \in k.locks
             /\ ~k.manual => k = Fresh

LinkInv == \A v \in Server, c \in Conn : LinkOK(con[v][c])

\* How far AddFriend for the job j has come on its connection k, with D
\* committed.
HeldOK(j, k, D) ==
    LET mine   == <<"friend", j.u, j.w>>
        theirs == <<"friend", j.w, j.u>>
    IN  /\ k.manual
        /\ \A r \in k.dirty : r[1] = "friend" => r \in {mine, theirs}
        /\ j.pc \in {"second", "commit"} => mine \in D \cup k.dirty
        /\ j.pc = "commit" => theirs \in D \cup k.dirty

HeldInv == \A v \in Server : job[v] # None /\ job[v].c # None => HeldOK(job[v], con[v][job[v].c], db)

ConInv ==
    Types /\ JobInv /\ IdleInv /\ LinkInv /\ FriendRowsUnlocked /\ HeldInv /\ FriendsMutual

-----------------------------------------------------------------------------
(* Statements.                                                              *)

\* A statement on connection c of v has left the facts R of the row k in the database or
\* in the connection, has left them out, or has ended the transaction.
Wrote(v, c, k, R) ==
    /\ db' \in SUBSET Row /\ con' \in [Server -> [Conn -> Link]]
    /\ \A w \in Server, d \in Conn : <<w, d>> # <<v, c>> => con'[w][d] = con[w][d]
    /\ LinkOK(con'[v][c])
    /\ con'[v][c].manual = con[v][c].manual
    /\ con'[v][c].dirty \subseteq con[v][c].dirty \cup R
    /\ con'[v][c].locks \subseteq con[v][c].locks \cup {k}
    /\ db \subseteq db' /\ db' \subseteq db \cup R
    /\ con[v][c].manual => db' = db

LEMMA ConUpdate ==
    ASSUME con \in [Server -> [Conn -> Link]], NEW v \in Server, NEW c \in Conn, NEW k \in Link
    PROVE  LET new == [con EXCEPT ![v][c] = k]
           IN  /\ new \in [Server -> [Conn -> Link]]
               /\ new[v][c] = k
               /\ \A w \in Server, d \in Conn : <<w, d>> # <<v, c>> => new[w][d] = con[w][d]
  OBVIOUS

LEMMA FreshLink == Fresh \in Link /\ LinkOK(Fresh)
  BY DEF Fresh, Link, LinkOK

LEMMA EndedLink ==
    ASSUME con \in [Server -> [Conn -> Link]], NEW v \in Server, NEW c \in Conn
    PROVE  /\ Ended(v, c) \in [Server -> [Conn -> Link]]
           /\ \A w \in Server, d \in Conn : <<w, d>> # <<v, c>> => Ended(v, c)[w][d] = con[w][d]
           /\ LinkOK(Ended(v, c)[v][c])
           /\ Ended(v, c)[v][c].manual = con[v][c].manual
           /\ Ended(v, c)[v][c].dirty = {} /\ Ended(v, c)[v][c].locks = {}
<1> DEFINE k == [manual |-> con[v][c].manual, dirty |-> {}, locks |-> {}]
<1>1. con[v][c].manual \in BOOLEAN
  BY DEF Link
<1>2. k \in Link /\ k.manual = con[v][c].manual /\ k.dirty = {} /\ k.locks = {}
  BY <1>1 DEF Link
<1>3. LinkOK(k)
  BY <1>1 DEF LinkOK, Fresh
<1>4. Ended(v, c) = [con EXCEPT ![v][c] = k]
  BY DEF Ended
<1>. HIDE DEF k
<1>. QED BY <1>2, <1>3, <1>4, ConUpdate

LEMMA WriteEffect ==
    ASSUME Types, LinkInv, NEW v \in Server, NEW c \in Conn, NEW k \in Row,
           NEW R \in SUBSET Row, \A r \in R : Key(r) = k, Write(v, c, k, R)
    PROVE  Wrote(v, c, k, R) /\ R \subseteq db' \cup con'[v][c].dirty
                             /\ con[v][c].dirty \subseteq con'[v][c].dirty
<1>0. con \in [Server -> [Conn -> Link]] /\ con[v][c] \in Link /\ db \in SUBSET Row
  BY DEF Types
<1>1. LinkOK(con[v][c])
  BY DEF LinkInv
<1>2. CASE con[v][c].manual
  <2> DEFINE new == [con[v][c] EXCEPT !.dirty = @ \cup (R \ db), !.locks = @ \cup {k}]
  <2>1. db' = db /\ con' = [con EXCEPT ![v][c] = new]
    BY <1>0, <1>2 DEF Write, Link
  <2>2. /\ new \in Link /\ new.manual = con[v][c].manual
        /\ new.dirty = con[v][c].dirty \cup (R \ db) /\ new.locks = con[v][c].locks \cup {k}
    BY <1>0 DEF Link
  <2>3. LinkOK(new)
    BY <1>1, <1>2, <2>2 DEF LinkOK
  <2>. HIDE DEF new
  <2>4. /\ con' \in [Server -> [Conn -> Link]] /\ con'[v][c] = new
        /\ \A w \in Server, d \in Conn : <<w, d>> # <<v, c>> => con'[w][d] = con[w][d]
    BY <1>0, <2>1, <2>2, ConUpdate
  <2>. QED BY <1>0, <2>1, <2>2, <2>3, <2>4 DEF Wrote
<1>3. CASE ~con[v][c].manual
  <2>1. db' = db \cup R /\ con' = con
    BY <1>3 DEF Write
  <2>. QED BY <1>0, <1>1, <1>3, <2>1 DEF Wrote
<1>. QED BY <1>2, <1>3

LEMMA FailEffect ==
    ASSUME Types, LinkInv, NEW v \in Server, NEW c \in Conn, NEW k, NEW R, Fails(v, c, k)
    PROVE  Wrote(v, c, k, R)
<1>0. con \in [Server -> [Conn -> Link]] /\ con[v][c] \in Link /\ db \in SUBSET Row /\ db' = db
  BY DEF Types, Fails
<1>1. CASE con' = con
  <2>1. LinkOK(con[v][c])
    BY DEF LinkInv
  <2>. QED BY <1>0, <1>1, <2>1 DEF Wrote
<1>2. CASE con' = Ended(v, c)
  BY <1>0, <1>2, EndedLink DEF Wrote
<1>. QED BY <1>1, <1>2 DEF Fails

-----------------------------------------------------------------------------
(* The invariant of the connections.                                        *)

LEMMA NoneApart == None \notin Server /\ None \notin Conn /\ None \notin Job
  BY FriendsAssumption, NoneAssumption

LEMMA ConInit == Init => ConInv
<1>. SUFFICES ASSUME Init PROVE ConInv
  OBVIOUS
<1>1. Types
  BY FreshLink DEF Init, Types
<1>2. LinkInv
  BY FreshLink DEF Init, LinkInv
<1>3. FriendRowsUnlocked
  BY DEF Init, FriendRowsUnlocked, Fresh
<1>. QED BY <1>1, <1>2, <1>3 DEF ConInv, Init, JobInv, IdleInv, HeldInv, FriendsMutual

\* The logic thread of v takes or ends a request, or goes on without a connection.
LEMMA JobStep ==
    ASSUME ConInv, NEW v \in Server, NEW j \in Job \cup {None},
           j = None \/ (JobOK(j) /\ j.c = None),
           job[v] = None \/ job[v].c = None,
           job' = [job EXCEPT ![v] = j], UNCHANGED <<db, con, idle>>
    PROVE  ConInv'
<1>1. /\ job' \in [Server -> Job \cup {None}] /\ job'[v] = j
      /\ \A w \in Server : w # v => job'[w] = job[w]
  BY DEF ConInv, Types
<1>2. Types' /\ LinkInv' /\ FriendRowsUnlocked' /\ FriendsMutual'
  BY <1>1 DEF ConInv, Types, LinkInv, FriendRowsUnlocked, FriendsMutual
<1>3. JobInv'
  BY <1>1 DEF ConInv, JobInv
<1>4. IdleInv'
  <2>1. idle[v] = Conn
    BY NoneApart DEF ConInv, IdleInv
  <2>. QED BY <1>1, <2>1, NoneApart DEF ConInv, IdleInv
<1>5. HeldInv'
  BY <1>1 DEF ConInv, HeldInv, HeldOK
<1>. QED BY <1>2, <1>3, <1>4, <1>5 DEF ConInv

\* A statement on an idle connection that is not about the friend table.
LEMMA IdleStep ==
    ASSUME ConInv, NEW v \in Server, NEW c \in idle[v], NEW k \in Row, k[1] # "friend",
           NEW R \in SUBSET Row, \A r \in R : r[1] # "friend", Wrote(v, c, k, R),
           NEW p \in Pc \ Adding, job[v] # None, job[v].c = None,
           job' = [job EXCEPT ![v].pc = p], UNCHANGED idle
    PROVE  ConInv'
<1>0. Types /\ JobInv /\ IdleInv /\ LinkInv /\ FriendRowsUnlocked /\ HeldInv /\ FriendsMutual
  BY DEF ConInv
<1>1. job[v] \in Job /\ c \in Conn
  BY <1>0 DEF Types
<1> DEFINE j == [job[v] EXCEPT !.pc = p]
<1>2. /\ j \in Job /\ j.c = None /\ j.op = job[v].op /\ j.u = job[v].u /\ j.w = job[v].w
      /\ j.pc = p
  BY <1>1 DEF Job
<1>3. job' = [job EXCEPT ![v] = j]
  BY <1>0 DEF Types
<1>. HIDE DEF j
<1>4. /\ job' \in [Server -> Job \cup {None}] /\ job'[v] = j
      /\ \A w \in Server : w # v => job'[w] = job[w]
  BY <1>0, <1>2, <1>3 DEF Types
<1>5. Types'
  BY <1>0, <1>4 DEF Types, Wrote
<1>6. JobInv'
  BY <1>0, <1>2, <1>4 DEF JobInv, JobOK
<1>7. IdleInv'
  BY <1>0, <1>2, <1>4, NoneApart DEF IdleInv
<1>8. LinkInv'
  BY <1>0, <1>1 DEF LinkInv, Wrote
<1>9. FriendRowsUnlocked'
  <2>. SUFFICES ASSUME NEW w \in Server, NEW d \in idle[w], NEW l \in con'[w][d].locks
                PROVE  l[1] # "friend"
    BY DEF FriendRowsUnlocked
  <2>1. d \in Conn
    BY <1>0 DEF Types
  <2>2. CASE <<w, d>> = <<v, c>>
    BY <1>0, <2>2 DEF Wrote, FriendRowsUnlocked
  <2>3. CASE <<w, d>> # <<v, c>>
    BY <1>0, <2>1, <2>3 DEF Wrote, FriendRowsUnlocked
  <2>. QED BY <2>2, <2>3
<1>10. HeldInv'
  <2>. SUFFICES ASSUME NEW w \in Server, job'[w] # None, job'[w].c # None
                PROVE  HeldOK(job'[w], con'[w][job'[w].c], db')
    BY DEF HeldInv
  <2>1. w # v /\ job'[w] = job[w]
    BY <1>2, <1>4
  <2>2. job[w].c \in Conn /\ <<w, job[w].c>> # <<v, c>>
    BY <1>0, <2>1 DEF Types, Job
  <2>3. con'[w][job'[w].c] = con[w][job[w].c]
    BY <2>1, <2>2 DEF Wrote
  <2>4. HeldOK(job[w], con[w][job[w].c], db) /\ db \subseteq db'
    BY <1>0, <2>1 DEF HeldInv, Wrote
  <2>. QED BY <2>1, <2>3, <2>4 DEF HeldOK
<1>11. FriendsMutual'
  <2>1. \A u, w \in User : <<"friend", u, w>> \in db' => <<"friend", u, w>> \in db
    BY DEF Wrote
  <2>. QED BY <1>0, <2>1 DEF FriendsMutual, Wrote
<1>. QED BY <1>5, <1>6, <1>7, <1>8, <1>9, <1>10, <1>11 DEF ConInv

\* AddFriend takes an idle connection.
LEMMA BeginStep == ASSUME ConInv, NEW v \in Server, Begin(v) PROVE ConInv'
<1>0. Types /\ JobInv /\ IdleInv /\ LinkInv /\ FriendRowsUnlocked /\ HeldInv /\ FriendsMutual
  BY DEF ConInv
<1>1. PICK c \in idle[v] :
        /\ idle' = [idle EXCEPT ![v] = @ \ {c}]
        /\ con' = [con EXCEPT ![v][c].manual = TRUE]
        /\ job' = [job EXCEPT ![v].pc = "first", ![v].c = c]
  BY DEF Begin
<1>2. job[v] \in Job /\ c \in Conn /\ con[v][c] \in Link /\ job[v] # None /\ db' = db
  BY <1>0 DEF Types, Begin, At
<1> DEFINE j == [job[v] EXCEPT !.pc = "first", !.c = c]
           k == [con[v][c] EXCEPT !.manual = TRUE]
<1>3. /\ j \in Job /\ j.c = c /\ j.op = "auth" /\ j.u = job[v].u /\ j.w = job[v].w
      /\ j.pc = "first"
  BY <1>2 DEF Job, Pc, Begin, At
<1>4. k \in Link /\ k.manual /\ k.dirty = con[v][c].dirty /\ k.locks = con[v][c].locks
  BY <1>2 DEF Link
<1>5. job' = [job EXCEPT ![v] = j] /\ con' = [con EXCEPT ![v][c] = k]
  BY <1>0, <1>1 DEF Types
<1>6. LinkOK(k)
  BY <1>0, <1>2, <1>4 DEF LinkInv, LinkOK
<1>7. \A l \in k.locks : l[1] # "friend"
  BY <1>0, <1>4 DEF FriendRowsUnlocked
<1>8. HeldOK(j, k, db)
  BY <1>2, <1>3, <1>4, <1>6, <1>7 DEF HeldOK, LinkOK, Key
<1>. HIDE DEF j, k
<1>9. /\ job' \in [Server -> Job \cup {None}] /\ job'[v] = j
      /\ \A w \in Server : w # v => job'[w] = job[w]
  BY <1>0, <1>3, <1>5 DEF Types
<1>10. /\ con' \in [Server -> [Conn -> Link]] /\ con'[v][c] = k
       /\ \A w \in Server, d \in Conn : <<w, d>> # <<v, c>> => con'[w][d] = con[w][d]
  BY <1>0, <1>2, <1>4, <1>5, ConUpdate DEF Types
<1>11. /\ idle' \in [Server -> SUBSET Conn] /\ idle'[v] = idle[v] \ {c}
       /\ \A w \in Server : w # v => idle'[w] = idle[w]
  BY <1>0, <1>1 DEF Types
<1>12. Types' /\ FriendsMutual'
  BY <1>0, <1>2, <1>9, <1>10, <1>11 DEF Types, FriendsMutual
<1>13. JobInv'
  BY <1>0, <1>2, <1>3, <1>9, NoneApart DEF JobInv, JobOK, Adding
<1>14. job[v].c = None
  BY <1>0, <1>2 DEF JobInv, JobOK, Begin, At, Adding
<1>15. IdleInv'
  BY <1>0, <1>2, <1>3, <1>9, <1>11, <1>14, NoneApart DEF IdleInv
<1>16. LinkInv'
  BY <1>0, <1>2, <1>6, <1>10 DEF LinkInv
<1>17. FriendRowsUnlocked'
  <2>. SUFFICES ASSUME NEW w \in Server, NEW d \in idle'[w], NEW l \in con'[w][d].locks
                PROVE  l[1] # "friend"
    BY DEF FriendRowsUnlocked
  <2>1. d \in Conn /\ d \in idle[w] /\ <<w, d>> # <<v, c>>
    BY <1>0, <1>11 DEF Types
  <2>. QED BY <1>0, <1>10, <2>1 DEF FriendRowsUnlocked
<1>18. HeldInv'
  <2>. SUFFICES ASSUME NEW w \in Server, job'[w] # None, job'[w].c # None
                PROVE  HeldOK(job'[w], con'[w][job'[w].c], db')
    BY DEF HeldInv
  <2>1. CASE w = v
    BY <1>2, <1>3, <1>8, <1>9, <1>10, <2>1
  <2>2. CASE w # v
    <3>1. job'[w] = job[w] /\ job[w].c \in Conn
      BY <1>0, <1>9, <2>2 DEF Types, Job
    <3>. QED BY <1>0, <1>2, <1>10, <2>2, <3>1 DEF HeldInv
  <2>. QED BY <2>1, <2>2
<1>. QED BY <1>12, <1>13, <1>15, <1>16, <1>17, <1>18 DEF ConInv

\* What is known of a server in AddFriend.
LEMMA InAdd ==
    ASSUME ConInv, NEW v \in Server, job[v] # None, job[v].op = "auth", job[v].pc \in Adding
    PROVE  /\ job[v] \in Job /\ job[v].c \in Conn
           /\ HeldOK(job[v], con[v][job[v].c], db)
           /\ idle[v] = Conn \ {job[v].c}
<1>1. Types /\ JobInv /\ IdleInv /\ HeldInv
  BY DEF ConInv
<1>2. job[v] \in Job /\ job[v].c # None
  BY <1>1 DEF Types, JobInv, JobOK
<1>. QED BY <1>1, <1>2 DEF Job, IdleInv, HeldInv

LEMMA InsertFriendStep == ASSUME ConInv, NEW v \in Server, InsertFriend(v) PROVE ConInv'
<1>0. Types /\ JobInv /\ IdleInv /\ LinkInv /\ FriendRowsUnlocked /\ HeldInv /\ FriendsMutual
  BY DEF ConInv
<1> DEFINE c == job[v].c
           r == FriendRow(v)
           p == IF job[v].pc = "first" THEN "second" ELSE "commit"
           j == [job[v] EXCEPT !.pc = p]
<1>1. job[v] # None /\ job[v].op = "auth" /\ job[v].pc \in {"first", "second"}
  BY DEF InsertFriend, At
<1>2. /\ job[v] \in Job /\ c \in Conn /\ HeldOK(job[v], con[v][c], db)
      /\ idle[v] = Conn \ {c}
  BY <1>1, InAdd DEF Adding
<1>3. r \in Row /\ Key(r) = r /\ r[1] = "friend"
  BY <1>2 DEF Job, FriendRow, Row, Kind, Key
<1>4. Write(v, c, r, {r})
  BY DEF InsertFriend
<1>5. Wrote(v, c, r, {r}) /\ r \in db' \cup con'[v][c].dirty
                          /\ con[v][c].dirty \subseteq con'[v][c].dirty
  <2>. HIDE DEF r, c
  <2>1. \A x \in {r} : Key(x) = r
    BY <1>3
  <2>. QED BY <1>0, <1>2, <1>3, <1>4, <2>1, WriteEffect
<1>6. job' = [job EXCEPT ![v] = j] /\ idle' = idle
  BY <1>0 DEF Types, InsertFriend, Goto
<1>7. /\ j \in Job /\ j.c = c /\ j.op = "auth" /\ j.u = job[v].u /\ j.w = job[v].w
      /\ j.pc = p
  BY <1>1, <1>2 DEF Job, Pc
<1>8. HeldOK(j, con'[v][c], db')
  BY <1>1, <1>2, <1>5, <1>7 DEF HeldOK, Wrote, FriendRow
<1>9. p \in {"second", "commit"}
  OBVIOUS
<1>. HIDE DEF c, r, p, j
<1>10. /\ job' \in [Server -> Job \cup {None}] /\ job'[v] = j
       /\ \A w \in Server : w # v => job'[w] = job[w]
  BY <1>0, <1>6, <1>7 DEF Types
<1>11. Types'
  BY <1>0, <1>5, <1>6, <1>10 DEF Types, Wrote
<1>12. JobInv'
  BY <1>0, <1>2, <1>7, <1>9, <1>10, NoneApart DEF JobInv, JobOK, Adding
<1>13. IdleInv'
  BY <1>0, <1>2, <1>6, <1>7, <1>10, NoneApart DEF IdleInv
<1>14. LinkInv'
  BY <1>0, <1>2, <1>5 DEF LinkInv, Wrote
<1>15. FriendRowsUnlocked'
  <2>. SUFFICES ASSUME NEW w \in Server, NEW d \in idle[w], NEW l \in con'[w][d].locks
                PROVE  l[1] # "friend"
    BY <1>6 DEF FriendRowsUnlocked
  <2>1. d \in Conn /\ <<w, d>> # <<v, c>>
    BY <1>0, <1>2 DEF Types
  <2>. QED BY <1>0, <1>5, <2>1 DEF FriendRowsUnlocked, Wrote
<1>16. HeldInv'
  <2>. SUFFICES ASSUME NEW w \in Server, job'[w] # None, job'[w].c # None
                PROVE  HeldOK(job'[w], con'[w][job'[w].c], db')
    BY DEF HeldInv
  <2>1. CASE w = v
    BY <1>7, <1>8, <1>10, <2>1
  <2>2. CASE w # v
    <3>1. job'[w] = job[w] /\ job[w].c \in Conn
      BY <1>0, <1>10, <2>2 DEF Types, Job
    <3>2. con'[w][job[w].c] = con[w][job[w].c] /\ db \subseteq db'
      BY <1>5, <2>2, <3>1 DEF Wrote
    <3>. QED BY <1>0, <2>2, <3>1, <3>2 DEF HeldInv, HeldOK
  <2>. QED BY <2>1, <2>2
<1>17. FriendsMutual'
  <2>1. con[v][c].manual
    BY <1>2 DEF HeldOK
  <2>. QED BY <1>0, <1>5, <2>1 DEF FriendsMutual, Wrote
<1>. QED BY <1>11, <1>12, <1>13, <1>14, <1>15, <1>16, <1>17 DEF ConInv

\* AddFriend ends the transaction and gives its connection back.
LEMMA ReleaseStep ==
    ASSUME ConInv, NEW v \in Server, job[v] # None, job[v].op = "auth", job[v].pc \in Adding,
           con' = Ended(v, job[v].c), Released(v),
           db' \in SUBSET Row, db \subseteq db', FriendsMutual'
    PROVE  ConInv'
<1>0. Types /\ JobInv /\ IdleInv /\ LinkInv /\ FriendRowsUnlocked /\ HeldInv /\ FriendsMutual
  BY DEF ConInv
<1> DEFINE c == job[v].c
           j == [job[v] EXCEPT !.pc = "lookup", !.c = None]
<1>1. job[v] \in Job /\ c \in Conn /\ idle[v] = Conn \ {c}
  BY InAdd
<1>2. /\ j \in Job /\ j.c = None /\ j.op = "auth" /\ j.pc = "lookup"
  BY <1>1 DEF Job, Pc
<1>3. job' = [job EXCEPT ![v] = j] /\ idle' = [idle EXCEPT ![v] = @ \cup {c}]
  BY <1>0 DEF Types, Released
<1>4. /\ con' \in [Server -> [Conn -> Link]]
      /\ \A w \in Server, d \in Conn : <<w, d>> # <<v, c>> => con'[w][d] = con[w][d]
      /\ LinkOK(con'[v][c]) /\ con'[v][c].locks = {}
  BY <1>0, <1>1, EndedLink DEF Types
<1>. HIDE DEF c, j
<1>5. /\ job' \in [Server -> Job \cup {None}] /\ job'[v] = j
      /\ \A w \in Server : w # v => job'[w] = job[w]
  BY <1>0, <1>2, <1>3 DEF Types
<1>6. /\ idle' \in [Server -> SUBSET Conn] /\ idle'[v] = Conn
      /\ \A w \in Server : w # v => idle'[w] = idle[w]
  BY <1>0, <1>1, <1>3 DEF Types
<1>7. Types'
  BY <1>0, <1>4, <1>5, <1>6 DEF Types
<1>8. JobInv'
  BY <1>0, <1>2, <1>5 DEF JobInv, JobOK, Adding
<1>9. IdleInv'
  BY <1>0, <1>2, <1>5, <1>6, NoneApart DEF IdleInv
<1>10. LinkInv'
  BY <1>0, <1>1, <1>4 DEF LinkInv
<1>11. FriendRowsUnlocked'
  <2>. SUFFICES ASSUME NEW w \in Server, NEW d \in idle'[w], NEW l \in con'[w][d].locks
                PROVE  l[1] # "friend"
    BY DEF FriendRowsUnlocked
  <2>1. <<w, d>> # <<v, c>> /\ d \in Conn
    BY <1>4, <1>6
  <2>2. d \in idle[w] /\ l \in con[w][d].locks
    BY <1>1, <1>4, <1>6, <2>1
  <2>. QED BY <1>0, <2>2 DEF FriendRowsUnlocked
<1>12. HeldInv'
  <2>. SUFFICES ASSUME NEW w \in Server, job'[w] # None, job'[w].c # None
                PROVE  HeldOK(job'[w], con'[w][job'[w].c], db')
    BY DEF HeldInv
  <2>1. w # v /\ job'[w] = job[w]
    BY <1>2, <1>5
  <2>2. job[w].c \in Conn
    BY <1>0, <2>1 DEF Types, Job
  <2>3. con'[w][job[w].c] = con[w][job[w].c]
    BY <1>4, <2>1, <2>2
  <2>. QED BY <1>0, <2>1, <2>3 DEF HeldInv, HeldOK
<1>. QED BY <1>7, <1>8, <1>9, <1>10, <1>11, <1>12 DEF ConInv

LEMMA RollbackStep == ASSUME ConInv, NEW v \in Server, Rollback(v) PROVE ConInv'
<1>1. /\ job[v] # None /\ job[v].op = "auth" /\ job[v].pc \in Adding
      /\ con' = Ended(v, job[v].c) /\ Released(v) /\ db' = db
  BY DEF Rollback, At, Adding
<1>2. db' \in SUBSET Row /\ FriendsMutual'
  BY <1>1 DEF ConInv, Types, FriendsMutual
<1>. QED BY <1>1, <1>2, ReleaseStep

\* At the commit both rows of the friendship are in the database or in the transaction,
\* and no other row of the friend table is in the latter.
LEMMA CommitMutual ==
    ASSUME ConInv, NEW v \in Server, Commit(v)
    PROVE  /\ db' \in SUBSET Row /\ db \subseteq db' /\ FriendsMutual'
           /\ Both(Pair(v)) \subseteq db'
<1>1. job[v] # None /\ job[v].op = "auth" /\ job[v].pc = "commit"
  BY DEF Commit, At
<1>2. job[v] \in Job /\ job[v].c \in Conn /\ HeldOK(job[v], con[v][job[v].c], db)
  BY <1>1, InAdd DEF Adding
<1> DEFINE k == con[v][job[v].c]
<1>3. db' = db \cup k.dirty /\ k \in Link /\ db \in SUBSET Row
  BY <1>2 DEF Commit, ConInv, Types
<1>4. <<"friend", job[v].u, job[v].w>> \in db' /\ <<"friend", job[v].w, job[v].u>> \in db'
  BY <1>1, <1>2, <1>3 DEF HeldOK
<1>5. ASSUME NEW u \in User, NEW w \in User, <<"friend", u, w>> \in db'
      PROVE  <<"friend", w, u>> \in db'
  <2>1. CASE <<"friend", u, w>> \in db
    BY <1>3, <2>1 DEF ConInv, FriendsMutual
  <2>2. CASE <<"friend", u, w>> \in k.dirty
    <3>1. <<"friend", u, w>> \in {<<"friend", job[v].u, job[v].w>>, <<"friend", job[v].w, job[v].u>>}
      BY <1>2, <2>2 DEF HeldOK
    <3>. QED BY <1>4, <3>1
  <2>. QED BY <1>3, <1>5, <2>1, <2>2
<1>6. FriendsMutual'
  BY <1>5 DEF FriendsMutual
<1>. QED BY <1>3, <1>4, <1>6 DEF Link, Both, Pair

LEMMA CommitStep == ASSUME ConInv, NEW v \in Server, Commit(v) PROVE ConInv'
<1>1. /\ job[v] # None /\ job[v].op = "auth" /\ job[v].pc \in Adding
      /\ con' = Ended(v, job[v].c) /\ Released(v)
  BY DEF Commit, At, Adding
<1>. QED BY <1>1, CommitMutual, ReleaseStep

LEMMA LoseConStep == ASSUME ConInv, NEW v \in Server, NEW c \in Conn, LoseCon(v, c) PROVE ConInv'
<1>0. Types /\ JobInv /\ IdleInv /\ LinkInv /\ FriendRowsUnlocked /\ HeldInv /\ FriendsMutual
  BY DEF ConInv
<1>1. c \in idle[v] /\ con' = [con EXCEPT ![v][c] = Fresh] /\ UNCHANGED <<db, idle, job>>
  BY DEF LoseCon
<1>2. /\ con' \in [Server -> [Conn -> Link]] /\ con'[v][c] = Fresh
      /\ \A w \in Server, d \in Conn : <<w, d>> # <<v, c>> => con'[w][d] = con[w][d]
  BY <1>0, <1>1, FreshLink, ConUpdate DEF Types
<1>3. Types' /\ JobInv' /\ IdleInv' /\ FriendsMutual'
  BY <1>0, <1>1, <1>2 DEF Types, JobInv, IdleInv, FriendsMutual
<1>4. LinkInv'
  BY <1>0, <1>2, FreshLink DEF LinkInv
<1>5. FriendRowsUnlocked'
  <2>. SUFFICES ASSUME NEW w \in Server, NEW d \in idle[w], NEW l \in con'[w][d].locks
                PROVE  l[1] # "friend"
    BY <1>1 DEF FriendRowsUnlocked
  <2>1. <<w, d>> # <<v, c>> /\ d \in Conn
    BY <1>0, <1>2 DEF Types, Fresh
  <2>. QED BY <1>0, <1>2, <2>1 DEF FriendRowsUnlocked
<1>6. HeldInv'
  <2>. SUFFICES ASSUME NEW w \in Server, job[w] # None, job[w].c # None
                PROVE  HeldOK(job[w], con'[w][job[w].c], db)
    BY <1>1 DEF HeldInv
  <2>1. job[w].c \in Conn /\ <<w, job[w].c>> # <<v, c>>
    BY <1>0, <1>1 DEF Types, Job, IdleInv
  <2>. QED BY <1>0, <1>2, <2>1 DEF HeldInv
<1>. QED BY <1>3, <1>4, <1>5, <1>6 DEF ConInv

LEMMA CrashStep == ASSUME ConInv, NEW v \in Server, Crash(v) PROVE ConInv'
<1>0. Types /\ JobInv /\ IdleInv /\ LinkInv /\ FriendRowsUnlocked /\ HeldInv /\ FriendsMutual
  BY DEF ConInv
<1>1. /\ con' \in [Server -> [Conn -> Link]] /\ \A c \in Conn : con'[v][c] = Fresh
      /\ \A w \in Server : w # v => con'[w] = con[w]
  BY <1>0, FreshLink DEF Crash, Types
<1>2. /\ idle' \in [Server -> SUBSET Conn] /\ idle'[v] = Conn
      /\ \A w \in Server : w # v => idle'[w] = idle[w]
  BY <1>0 DEF Crash, Types
<1>3. /\ job' \in [Server -> Job \cup {None}] /\ job'[v] = None
      /\ \A w \in Server : w # v => job'[w] = job[w]
  BY <1>0 DEF Crash, Types
<1>4. db' = db
  BY DEF Crash
<1>5. Types' /\ JobInv' /\ IdleInv' /\ FriendsMutual'
  BY <1>0, <1>1, <1>2, <1>3, <1>4 DEF Types, JobInv, IdleInv, FriendsMutual
<1>6. LinkInv'
  BY <1>0, <1>1, FreshLink DEF LinkInv
<1>7. FriendRowsUnlocked'
  BY <1>0, <1>1, <1>2 DEF FriendRowsUnlocked, Fresh
<1>8. HeldInv'
  BY <1>0, <1>1, <1>3, <1>4 DEF HeldInv
<1>. QED BY <1>5, <1>6, <1>7, <1>8 DEF ConInv

LEMMA RequestJob ==
    ASSUME NEW op \in {"apply", "auth", "login"}, NEW u \in User, NEW w \in User,
           op = "apply" => <<u, w>> \in Ask
    PROVE  /\ Request(op, u, w) \in Job /\ JobOK(Request(op, u, w))
           /\ Request(op, u, w).c = None
  BY DEF Request, Job, JobOK, Pc, Adding

\* A request is taken from the logic queue.
LEMMA RecvStep ==
    ASSUME ConInv, ClientTypes, NEW v \in Server,
           \/ \E p \in Ask : RecvApply(v, p[1], p[2]) \/ RecvAuth(v, p[2], p[1])
           \/ \E u \in User : RecvLogin(v, u)
    PROVE  ConInv'
<1>1. CASE \E p \in Ask : RecvApply(v, p[1], p[2])
  <2>1. PICK p \in Ask : RecvApply(v, p[1], p[2])
    BY <1>1
  <2>2. p[1] \in User /\ p[2] \in User /\ <<p[1], p[2]>> \in Ask
    BY <2>1, FriendsAssumption DEF RecvApply
  <2> DEFINE j == Request("apply", p[1], p[2])
  <2>3. j \in Job /\ JobOK(j) /\ j.c = None
    BY <2>2, RequestJob
  <2>4. job[v] = None /\ job' = [job EXCEPT ![v] = j] /\ UNCHANGED <<db, con, idle>>
    BY <2>1 DEF RecvApply
  <2>. HIDE DEF j
  <2>. QED BY <2>3, <2>4, JobStep
<1>2. CASE \E p \in Ask : RecvAuth(v, p[2], p[1])
  <2>1. PICK p \in Ask : RecvAuth(v, p[2], p[1])
    BY <1>2
  <2>2. p[1] \in User /\ p[2] \in User
    BY FriendsAssumption
  <2> DEFINE j == Request("auth", p[2], p[1])
  <2>3. j \in Job /\ JobOK(j) /\ j.c = None
    BY <2>2, RequestJob
  <2>4. job[v] = None /\ job' = [job EXCEPT ![v] = j] /\ UNCHANGED <<db, con, idle>>
    BY <2>1 DEF RecvAuth
  <2>. HIDE DEF j
  <2>. QED BY <2>3, <2>4, JobStep
<1>3. CASE \E u \in User : RecvLogin(v, u)
  <2>1. PICK u \in User : RecvLogin(v, u)
    BY <1>3
  <2> DEFINE j == Request("login", u, u)
  <2>3. j \in Job /\ JobOK(j) /\ j.c = None
    BY RequestJob
  <2>4. job[v] = None /\ job' = [job EXCEPT ![v] = j] /\ UNCHANGED <<db, con, idle>>
    BY <2>1 DEF RecvLogin
  <2>. HIDE DEF j
  <2>. QED BY <2>3, <2>4, JobStep
<1>. QED BY <1>1, <1>2, <1>3

\* A job outside of AddFriend has no connection.
LEMMA NoCon ==
    ASSUME ConInv, NEW v \in Server, job[v] # None, ~(job[v].op = "auth" /\ job[v].pc \in Adding)
    PROVE  job[v] \in Job /\ JobOK(job[v]) /\ job[v].c = None
  BY DEF ConInv, Types, JobInv, JobOK

LEMMA WriteApplyStep == ASSUME ConInv, NEW v \in Server, WriteApply(v) PROVE ConInv'
<1>1. job[v] # None /\ job[v] \in Job /\ job[v].c = None
  BY NoCon DEF WriteApply, At, Adding
<1> DEFINE k == Key(Applied(v))
           R == {Applied(v)}
<1>2. /\ k \in Row /\ k[1] # "friend" /\ R \in SUBSET Row
      /\ \A r \in R : Key(r) = k /\ r[1] # "friend"
  BY <1>1 DEF Applied, Row, Kind, Key, Job
<1>3. PICK c \in idle[v] : Write(v, c, k, R) \/ Fails(v, c, k)
  BY DEF WriteApply
<1>4. c \in Conn /\ Types /\ LinkInv
  BY DEF ConInv, Types
<1>5. job' = [job EXCEPT ![v].pc = "lookup"] /\ UNCHANGED idle /\ "lookup" \in Pc \ Adding
  BY DEF WriteApply, Goto, Pc, Adding
<1>. HIDE DEF k, R
<1>6. Wrote(v, c, k, R)
  BY <1>2, <1>3, <1>4, WriteEffect, FailEffect
<1>. QED BY <1>1, <1>2, <1>5, <1>6, IdleStep

\* The key that AuthFriendApply updates, and the fact it adds.
LEMMA AgreedRow ==
    ASSUME ConInv, NEW v \in Server, NEW c, At(v, "auth", "sql")
    PROVE  LET k == <<"asked", job[v].w, job[v].u>>
           IN  /\ k \in Row /\ k[1] # "friend"
               /\ Agreed(v, c) \in SUBSET Row
               /\ \A r \in Agreed(v, c) : Key(r) = k /\ r[1] # "friend"
<1>1. job[v] \in Job
  BY NoCon DEF At, Adding
<1>. QED BY <1>1 DEF Agreed, Row, Kind, Key, Job

LEMMA WriteAuthStep == ASSUME ConInv, NEW v \in Server, WriteAuth(v) PROVE ConInv'
<1>1. job[v] # None /\ job[v].c = None /\ At(v, "auth", "sql")
  BY NoCon DEF WriteAuth, At, Adding
<1> DEFINE k == <<"asked", job[v].w, job[v].u>>
<1>2. PICK c \in idle[v] : Write(v, c, k, Agreed(v, c)) \/ Fails(v, c, k)
  BY DEF WriteAuth
<1>3. c \in Conn /\ Types /\ LinkInv
  BY DEF ConInv, Types
<1>4. /\ k \in Row /\ k[1] # "friend" /\ Agreed(v, c) \in SUBSET Row
      /\ \A r \in Agreed(v, c) : Key(r) = k /\ r[1] # "friend"
  BY <1>1, AgreedRow
<1>5. job' = [job EXCEPT ![v].pc = "begin"] /\ UNCHANGED idle /\ "begin" \in Pc \ Adding
  BY DEF WriteAuth, Goto, Pc, Adding
<1>. HIDE DEF k
<1>6. Wrote(v, c, k, Agreed(v, c))
  BY <1>2, <1>3, <1>4, WriteEffect, FailEffect
<1>. QED BY <1>1, <1>4, <1>5, <1>6, IdleStep

\* The request ends, or the handler goes on to a call or the next read.
LEMMA EndStep ==
    ASSUME ConInv, NEW v \in Server, job[v] # None,
           ~(job[v].op = "auth" /\ job[v].pc \in Adding),
           job' = [job EXCEPT ![v] = None], UNCHANGED <<db, con, idle>>
    PROVE  ConInv'
  BY NoCon, JobStep

LEMMA GoStep ==
    ASSUME ConInv, NEW v \in Server, job[v] # None,
           ~(job[v].op = "auth" /\ job[v].pc \in Adding),
           NEW j \in Job, j.c = None, j.op = job[v].op, j.u = job[v].u, j.w = job[v].w,
           j.pc \notin Adding, job' = [job EXCEPT ![v] = j], UNCHANGED <<db, con, idle>>
    PROVE  ConInv'
<1>1. JobOK(job[v]) /\ job[v].c = None
  BY NoCon
<1>2. JobOK(j)
  BY <1>1 DEF JobOK
<1>. QED BY <1>1, <1>2, JobStep

LEMMA LookupStep ==
    ASSUME ConInv, ClientTypes, NEW v \in Server, LookupHere(v) \/ LookupPeer(v)
    PROVE  ConInv'
<1>1. job[v] # None /\ job[v].pc = "lookup" /\ job[v] \in Job /\ job[v].c = None
  BY NoCon DEF LookupHere, LookupPeer, AtLookup, Adding
<1>2. CASE LookupHere(v)
  BY <1>1, <1>2, EndStep DEF LookupHere, Done, Adding
<1>3. CASE LookupPeer(v)
  <2> DEFINE j == [job[v] EXCEPT !.pc = "rpc", !.to = reg[job[v].w]]
  <2>1. /\ j \in Job /\ j.c = None /\ j.op = job[v].op /\ j.u = job[v].u /\ j.w = job[v].w
        /\ j.pc = "rpc"
    BY <1>1 DEF Job, Pc, ClientTypes
  <2>2. job' = [job EXCEPT ![v] = j] /\ UNCHANGED <<db, con, idle>>
    BY <1>3 DEF LookupPeer, ConInv, Types
  <2>. HIDE DEF j
  <2>. QED BY <1>1, <2>1, <2>2, GoStep DEF Adding
<1>. QED BY <1>2, <1>3

LEMMA RpcStep == ASSUME ConInv, NEW v \in Server, NEW op, Rpc(v, op) PROVE ConInv'
<1>1. job[v] # None /\ job[v].pc = "rpc"
  BY DEF Rpc, At
<1>. QED BY <1>1, EndStep DEF Rpc, Done, Adding

\* What an idle connection may read of the friend table is committed.
LEMMA ReadCommitted ==
    ASSUME ConInv, NEW v \in Server, NEW c \in idle[v], NEW S \in Visible(v, c)
    PROVE  S \in SUBSET Row /\ \A r \in S : r[1] = "friend" => r \in db
<1>1. c \in Conn /\ con[v][c] \in Link /\ db \in SUBSET Row
  BY DEF ConInv, Types
<1>2. \A r \in con[v][c].dirty : r[1] # "friend"
  <2>. SUFFICES ASSUME NEW r \in con[v][c].dirty, r[1] = "friend" PROVE FALSE
    OBVIOUS
  <2>1. Key(r) = r /\ Key(r) \in con[v][c].locks
    BY <1>1 DEF ConInv, LinkInv, LinkOK, Key
  <2>. QED BY <2>1 DEF ConInv, FriendRowsUnlocked
<1>. QED BY <1>1, <1>2 DEF Visible, Link

LEMMA ReadStep ==
    ASSUME ConInv, NEW v \in Server, ReadApplies(v) \/ ReadFriends(v) PROVE ConInv'
<1>1. job[v] # None /\ job[v].op = "login" /\ job[v] \in Job /\ job[v].c = None
  BY NoCon DEF ReadApplies, ReadFriends, At
<1>2. CASE ReadApplies(v)
  <2>1. PICK c \in idle[v] : \E S \in Visible(v, c) :
          job' = [job EXCEPT ![v].pc = "friends", ![v].seen = ApplyList(job[v].u, S)]
    BY <1>2 DEF ReadApplies
  <2>2. PICK S \in Visible(v, c) :
          job' = [job EXCEPT ![v].pc = "friends", ![v].seen = ApplyList(job[v].u, S)]
    BY <2>1
  <2> DEFINE j == [job[v] EXCEPT !.pc = "friends", !.seen = ApplyList(job[v].u, S)]
  <2>3. ApplyList(job[v].u, S) \in SUBSET Row
    BY ReadCommitted DEF ApplyList
  <2>4. /\ j \in Job /\ j.c = None /\ j.op = job[v].op /\ j.u = job[v].u /\ j.w = job[v].w
        /\ j.pc = "friends"
    BY <1>1, <2>3 DEF Job, Pc
  <2>5. job' = [job EXCEPT ![v] = j] /\ UNCHANGED <<db, con, idle>>
    BY <1>2, <2>2 DEF ReadApplies, ConInv, Types
  <2>. HIDE DEF j
  <2>. QED BY <1>1, <2>4, <2>5, GoStep DEF Adding
<1>3. CASE ReadFriends(v)
  <2>1. PICK c \in idle[v] : \E S \in Visible(v, c) :
          job' = [job EXCEPT ![v].pc = "register", ![v].seen = @ \cup FriendList(job[v].u, S)]
    BY <1>3 DEF ReadFriends
  <2>2. PICK S \in Visible(v, c) :
          job' = [job EXCEPT ![v].pc = "register", ![v].seen = @ \cup FriendList(job[v].u, S)]
    BY <2>1
  <2> DEFINE j == [job[v] EXCEPT !.pc = "register",
                                 !.seen = @ \cup FriendList(job[v].u, S)]
  <2>3. FriendList(job[v].u, S) \in SUBSET Row
    BY ReadCommitted DEF FriendList
  <2>4. /\ j \in Job /\ j.c = None /\ j.op = job[v].op /\ j.u = job[v].u /\ j.w = job[v].w
        /\ j.pc = "register"
    BY <1>1, <2>3 DEF Job, Pc
  <2>5. job' = [job EXCEPT ![v] = j] /\ UNCHANGED <<db, con, idle>>
    BY <1>3, <2>2 DEF ReadFriends, ConInv, Types
  <2>. HIDE DEF j
  <2>. QED BY <1>1, <2>4, <2>5, GoStep DEF Adding
<1>. QED BY <1>2, <1>3

LEMMA LoggedInStep == ASSUME ConInv, NEW v \in Server, LoggedIn(v) PROVE ConInv'
<1>1. job[v] # None /\ job[v].op = "login"
  BY DEF LoggedIn, At
<1>. QED BY <1>1, EndStep DEF LoggedIn

LEMMA ConNext == ASSUME ConInv, ClientTypes, [Next]_vars PROVE ConInv'
<1>1. ASSUME NEW v \in Server, Serve(v) PROVE ConInv'
  <2>1. CASE WriteApply(v) \/ WriteAuth(v)
    BY <2>1, WriteApplyStep, WriteAuthStep
  <2>2. CASE Begin(v) \/ InsertFriend(v) \/ Commit(v) \/ Rollback(v)
    BY <2>2, BeginStep, InsertFriendStep, CommitStep, RollbackStep
  <2>3. CASE LookupHere(v) \/ LookupPeer(v)
    BY <2>3, LookupStep
  <2>4. CASE RpcApply(v) \/ RpcAuth(v)
    BY <2>4, RpcStep DEF RpcApply, RpcAuth
  <2>5. CASE ReadApplies(v) \/ ReadFriends(v)
    BY <2>5, ReadStep
  <2>6. CASE Register(v) \/ OldRegister(v)
    BY <2>6, LoggedInStep DEF Register, OldRegister
  <2>. QED BY <1>1, <2>1, <2>2, <2>3, <2>4, <2>5, <2>6 DEF Serve
<1>2. ASSUME NEW v \in Server, Crash(v) \/ \E c \in Conn : LoseCon(v, c) PROVE ConInv'
  BY <1>2, CrashStep, LoseConStep
<1>3. ASSUME NEW v \in Server,
             \/ \E p \in Ask : RecvApply(v, p[1], p[2]) \/ RecvAuth(v, p[2], p[1])
             \/ \E u \in User : RecvLogin(v, u)
      PROVE  ConInv'
  BY <1>3, RecvStep
<1>4. ASSUME UNCHANGED <<db, con, idle, job>> PROVE ConInv'
  BY <1>4 DEF ConInv, Types, JobInv, IdleInv, LinkInv, FriendRowsUnlocked, HeldInv, FriendsMutual
<1>5. ASSUME NEW u \in User, Disconnect(u) \/ \E v \in Server : Cleanup(v, u)
      PROVE  UNCHANGED <<db, con, idle, job>>
  BY <1>5 DEF Disconnect, Cleanup
<1>. QED BY <1>1, <1>2, <1>3, <1>4, <1>5 DEF Next, vars

-----------------------------------------------------------------------------
(* The invariant of the clients and their registrations.                    *)

\* Who is at a ChatServer has both of his Redis keys name it.
AtInv ==
    \A u \in User : at[u] \in Server \ Old => reg[u] = at[u] /\ owner[u] = at[u]

LEMMA ClientInit == Init => ClientTypes /\ AtInv
  BY NoneApart DEF Init, ClientTypes, AtInv

LEMMA LoggedInClient ==
    ASSUME ConInv, ClientTypes, AtInv, NEW v \in Server, Register(v) \/ OldRegister(v)
    PROVE  ClientTypes' /\ AtInv'
<1>1. job[v] \in Job
  BY NoCon DEF Register, OldRegister, LoggedIn, At
<1>2. /\ job[v].u \in User /\ LoggedIn(v)
      /\ reg' = [reg EXCEPT ![job[v].u] = v] /\ at' = [at EXCEPT ![job[v].u] = v]
  BY <1>1 DEF Register, OldRegister, LoggedIn, Job
<1>3. known' \in SUBSET Ask /\ shown' \in SUBSET (User \X User) /\ acked' = acked /\ torn' = torn
  BY <1>2 DEF LoggedIn, Shows, ClientTypes
<1>4. CASE Register(v)
  <2>1. /\ owner' = [owner EXCEPT ![job[v].u] = v]
        /\ bound' \in [Server -> SUBSET User]
    BY <1>2, <1>4 DEF Register, ClientTypes
  <2>. QED BY <1>2, <1>3, <2>1 DEF ClientTypes, AtInv
<1>5. CASE OldRegister(v)
  <2>1. v \in Old /\ owner' = owner /\ bound' \in [Server -> SUBSET User]
    BY <1>2, <1>5 DEF OldRegister, ClientTypes
  <2>. QED BY <1>2, <1>3, <2>1 DEF ClientTypes, AtInv
<1>. QED BY <1>4, <1>5

LEMMA DoneClient ==
    ASSUME ConInv, ClientTypes, NEW v \in Server, NEW s, job[v] # None, Done(v, s)
    PROVE  known' \in SUBSET Ask /\ shown' \in SUBSET (User \X User) /\ acked' \in SUBSET Ask
<1>1. job[v] \in Job /\ JobOK(job[v])
  BY DEF ConInv, Types, JobInv
<1>2. job[v].u \in User /\ job[v].w \in User
  BY <1>1 DEF Job
<1>3. CASE AnswerApply(v, s)
  <2>1. Pair(v) \in Ask
    BY <1>1, <1>3 DEF AnswerApply, JobOK, Pair
  <2>. QED BY <1>3, <2>1 DEF AnswerApply, ClientTypes
<1>4. CASE AnswerAuth(v, s)
  BY <1>2, <1>4 DEF AnswerAuth, Pair, ClientTypes
<1>. QED BY <1>3, <1>4 DEF Done

LEMMA TornClient ==
    ASSUME ConInv, ClientTypes, AtInv, NEW v \in Server, Rollback(v) \/ Crash(v)
    PROVE  ClientTypes' /\ AtInv'
<1>1. job[v] # None => Pair(v) \in User \X User
  BY DEF ConInv, Types, Job, Pair
<1>2. CASE Rollback(v)
  BY <1>1, <1>2 DEF Rollback, At, login, client, ClientTypes, AtInv
<1>3. CASE Crash(v)
  <2>1. torn' \in SUBSET (User \X User)
    BY <1>1, <1>3 DEF Crash, InAddFriend, ClientTypes
  <2>2. /\ at' \in [User -> Server \cup {None}]
        /\ \A u \in User : at'[u] \in {at[u], None}
    BY <1>3 DEF Crash, ClientTypes
  <2>3. /\ bound' \in [Server -> SUBSET User] /\ UNCHANGED <<reg, owner, acked>>
        /\ known' \in SUBSET Ask /\ shown' \in SUBSET (User \X User)
    BY <1>3 DEF Crash, ClientTypes
  <2>. QED BY <2>1, <2>2, <2>3, NoneApart DEF ClientTypes, AtInv
<1>. QED BY <1>2, <1>3

LEMMA LeaveClient ==
    ASSUME ClientTypes, AtInv, NEW u \in User, Disconnect(u) \/ \E v \in Server : Cleanup(v, u)
    PROVE  ClientTypes' /\ AtInv'
<1>1. CASE Disconnect(u)
  BY <1>1, NoneApart DEF Disconnect, ClientTypes, AtInv
<1>2. ASSUME NEW v \in Server, Cleanup(v, u) PROVE ClientTypes' /\ AtInv'
  <2>1. /\ at' = at /\ at[u] # v /\ bound' \in [Server -> SUBSET User]
        /\ known' = known /\ shown' = shown /\ acked' = acked /\ torn' = torn
    BY <1>2 DEF Cleanup, ClientTypes, client
  <2>2. CASE owner[u] = v
    BY <1>2, <2>1, <2>2 DEF Cleanup, ClientTypes, AtInv
  <2>3. CASE owner[u] # v
    BY <1>2, <2>1, <2>3 DEF Cleanup, ClientTypes, AtInv
  <2>. QED BY <2>2, <2>3
<1>. QED BY <1>1, <1>2

LEMMA ClientNext == ASSUME ConInv, ClientTypes, AtInv, [Next]_vars PROVE ClientTypes' /\ AtInv'
<1>1. ASSUME UNCHANGED <<login, client, torn>> PROVE ClientTypes' /\ AtInv'
  BY <1>1 DEF login, client, ClientTypes, AtInv
<1>2. ASSUME NEW v \in Server, Serve(v) PROVE ClientTypes' /\ AtInv'
  <2>1. CASE WriteApply(v) \/ WriteAuth(v) \/ Begin(v) \/ InsertFriend(v) \/ Commit(v)
    BY <1>1, <2>1 DEF WriteApply, WriteAuth, Begin, InsertFriend, Commit
  <2>2. CASE Rollback(v)
    BY <2>2, TornClient
  <2>3. CASE LookupPeer(v) \/ ReadApplies(v) \/ ReadFriends(v)
    BY <1>1, <2>3 DEF LookupPeer, ReadApplies, ReadFriends
  <2>4. CASE \E s \in Server \cup {None} : job[v] # None /\ Done(v, s)
    <3>1. known' \in SUBSET Ask /\ shown' \in SUBSET (User \X User) /\ acked' \in SUBSET Ask
      BY <2>4, DoneClient
    <3>2. UNCHANGED <<login, torn>>
      BY <2>4 DEF Done
    <3>. QED BY <3>1, <3>2 DEF login, ClientTypes, AtInv
  <2>5. CASE LookupHere(v) \/ RpcApply(v) \/ RpcAuth(v)
    <3>1. job[v] # None /\ job[v] \in Job
      BY <2>5 DEF LookupHere, RpcApply, RpcAuth, Rpc, At, AtLookup, ConInv, Types
    <3>2. reg[job[v].w] \in Server \cup {None} /\ job[v].to \in Server \cup {None}
      BY <3>1 DEF Job, ClientTypes
    <3>. QED BY <2>4, <2>5, <3>1, <3>2 DEF LookupHere, RpcApply, RpcAuth, Rpc
  <2>6. CASE Register(v) \/ OldRegister(v)
    BY <2>6, LoggedInClient
  <2>. QED BY <1>2, <2>1, <2>2, <2>3, <2>5, <2>6 DEF Serve
<1>3. ASSUME NEW v \in Server, Crash(v) \/ \E c \in Conn : LoseCon(v, c)
      PROVE  ClientTypes' /\ AtInv'
  BY <1>1, <1>3, TornClient DEF LoseCon
<1>4. ASSUME NEW v \in Server,
             \/ \E p \in Ask : RecvApply(v, p[1], p[2]) \/ RecvAuth(v, p[2], p[1])
             \/ \E u \in User : RecvLogin(v, u)
      PROVE  ClientTypes' /\ AtInv'
  <2>1. UNCHANGED <<login, shown, acked, torn>> /\ known' \subseteq known
    BY <1>4 DEF RecvApply, RecvAuth, RecvLogin, client
  <2>. QED BY <2>1 DEF login, ClientTypes, AtInv
<1>5. ASSUME NEW u \in User, Disconnect(u) \/ \E v \in Server : Cleanup(v, u)
      PROVE  ClientTypes' /\ AtInv'
  BY <1>5, LeaveClient
<1>6. CASE UNCHANGED vars
  BY <1>1, <1>6 DEF vars, login, client
<1>. QED BY <1>2, <1>3, <1>4, <1>5, <1>6 DEF Next

-----------------------------------------------------------------------------
(* The invariant of what is agreed and shown.                               *)

Settled(p) == Both(p) \subseteq db \/ Excused(p[1], p[2])

\* AddFriend for the pair p is under way.
Adds(v, p) == InAddFriend(v) /\ Pair(v) = <<p[2], p[1]>>

Somewhere(r) == r \in db \/ \E v \in Server, c \in Conn : r \in con[v][c].dirty

AgreedInv ==
    \A p \in Ask : Somewhere(<<"agreed", p[1], p[2]>>) => Settled(p) \/ \E v \in Server : Adds(v, p)

\* AddFriend is over and the handler goes on to the notification.
AddedInv ==
    \A v \in Server :
        job[v] # None /\ job[v].op = "auth" /\ job[v].pc \in {"lookup", "rpc"} => Settled(Pair(v))

\* The friends that a login has read are committed.
SeenInv ==
    \A v \in Server : job[v] # None /\ job[v].op = "login" =>
        \A r \in job[v].seen : r[1] = "friend" => r \in db

FriendsInv ==
    ConInv /\ ClientTypes /\ AtInv /\ AgreedInv /\ AddedInv /\ SeenInv /\ ShownAreFriends

LEMMA SettledSwap == ASSUME NEW u, NEW w, Settled(<<u, w>>) PROVE Settled(<<w, u>>)
  BY DEF Settled, Both, Excused

LEMMA SettledStays ==
    ASSUME db \subseteq db', torn \subseteq torn', NEW p, Settled(p) PROVE Settled(p)'
  BY DEF Settled, Excused

\* The part of a step that the logic thread of v (or its end) has in AgreedInv: nothing
\* agreed is new, and an AddFriend that ends is settled.
LEMMA AgreedStays ==
    ASSUME FriendsInv, NEW v \in Server, db \subseteq db', torn \subseteq torn',
           \A p \in Ask : Somewhere(<<"agreed", p[1], p[2]>>)' =>
                            Somewhere(<<"agreed", p[1], p[2]>>) \/ Adds(v, p)',
           \A w \in Server : w # v => job'[w] = job[w],
           \A p \in Ask : Adds(v, p) => Adds(v, p)' \/ Settled(p)'
    PROVE  AgreedInv'
<1>. SUFFICES ASSUME NEW p \in Ask, Somewhere(<<"agreed", p[1], p[2]>>)'
              PROVE  Settled(p)' \/ \E w \in Server : Adds(w, p)'
  BY DEF AgreedInv
<1>1. CASE Adds(v, p)'
  BY <1>1
<1>2. CASE Somewhere(<<"agreed", p[1], p[2]>>)
  <2>1. Settled(p) \/ \E w \in Server : Adds(w, p)
    BY <1>2 DEF FriendsInv, AgreedInv
  <2>2. CASE Settled(p)
    BY <2>2, SettledStays
  <2>3. ASSUME NEW w \in Server, Adds(w, p), w # v PROVE Adds(w, p)'
    <3>1. job'[w] = job[w]
      BY <2>3
    <3>. QED BY <2>3, <3>1 DEF Adds, InAddFriend, Pair
  <2>. QED BY <2>1, <2>2, <2>3
<1>. QED BY <1>1, <1>2

LEMMA OthersStay ==
    ASSUME FriendsInv, NEW v \in Server, db \subseteq db', torn \subseteq torn',
           \A w \in Server : w # v => job'[w] = job[w],
           job'[v] # None /\ job'[v].op = "auth" /\ job'[v].pc \in {"lookup", "rpc"}
               => Settled(Pair(v))',
           job'[v] # None /\ job'[v].op = "login"
               => \A r \in job'[v].seen : r[1] = "friend" => r \in db'
    PROVE  AddedInv' /\ SeenInv'
<1>1. ASSUME NEW w \in Server, w # v, job'[w] # None, job'[w].op = "auth",
             job'[w].pc \in {"lookup", "rpc"}
      PROVE  Settled(Pair(w))'
  <2>1. job'[w] = job[w]
    BY <1>1
  <2>2. Settled(Pair(w))
    BY <1>1, <2>1 DEF FriendsInv, AddedInv
  <2>. QED BY <2>1, <2>2 DEF Settled, Excused, Both, Pair
<1>2. AddedInv'
  BY <1>1 DEF AddedInv
<1>3. SeenInv'
  BY DEF FriendsInv, SeenInv
<1>. QED BY <1>2, <1>3

LEMMA ShownStays ==
    ASSUME FriendsInv, db \subseteq db', torn \subseteq torn', shown' \subseteq shown
    PROVE  ShownAreFriends'
  BY DEF FriendsInv, ShownAreFriends, Excused

AgreeInv == AgreedInv /\ AddedInv /\ SeenInv /\ ShownAreFriends

\* The logic thread of v does something that is no part of AddFriend.
LEMMA QuietAgree ==
    ASSUME FriendsInv, NEW v \in Server, UNCHANGED <<db, con, torn>>, shown' \subseteq shown,
           ~InAddFriend(v),
           \A w \in Server : w # v => job'[w] = job[w],
           job'[v] # None /\ job'[v].op = "auth" /\ job'[v].pc \in {"lookup", "rpc"}
               => Settled(<<job'[v].u, job'[v].w>>),
           job'[v] # None /\ job'[v].op = "login"
               => \A r \in job'[v].seen : r[1] = "friend" => r \in db
    PROVE  AgreeInv'
<1>1. AgreedInv'
  <2>1. \A p \in Ask : Somewhere(<<"agreed", p[1], p[2]>>)' => Somewhere(<<"agreed", p[1], p[2]>>)
    BY DEF Somewhere
  <2>2. \A p \in Ask : ~Adds(v, p)
    BY DEF Adds
  <2>. QED BY <2>1, <2>2, AgreedStays
<1>2. job'[v] # None /\ job'[v].op = "auth" /\ job'[v].pc \in {"lookup", "rpc"}
        => Settled(Pair(v))'
  BY DEF Settled, Excused, Both, Pair
<1>3. AddedInv' /\ SeenInv'
  BY <1>2, OthersStay
<1>. QED BY <1>1, <1>3, ShownStays DEF AgreeInv

LEMMA RecvAgree ==
    ASSUME FriendsInv, NEW v \in Server,
           \/ \E p \in Ask : RecvApply(v, p[1], p[2]) \/ RecvAuth(v, p[2], p[1])
           \/ \E u \in User : RecvLogin(v, u)
    PROVE  AgreeInv'
<1>1. job[v] = None /\ UNCHANGED <<db, con, torn, shown>> /\ job \in [Server -> Job \cup {None}]
  BY DEF RecvApply, RecvAuth, RecvLogin, FriendsInv, ConInv, Types, client
<1>2. \E op, u, w : job' = [job EXCEPT ![v] = Request(op, u, w)]
  <2>1. CASE \E p \in Ask : RecvApply(v, p[1], p[2])
    <3>1. PICK p \in Ask : RecvApply(v, p[1], p[2])
      BY <2>1
    <3>2. job' = [job EXCEPT ![v] = Request("apply", p[1], p[2])]
      BY <3>1 DEF RecvApply
    <3>. QED BY <3>2
  <2>2. CASE \E p \in Ask : RecvAuth(v, p[2], p[1])
    <3>1. PICK p \in Ask : RecvAuth(v, p[2], p[1])
      BY <2>2
    <3>2. job' = [job EXCEPT ![v] = Request("auth", p[2], p[1])]
      BY <3>1 DEF RecvAuth
    <3>. QED BY <3>2
  <2>3. CASE \E u \in User : RecvLogin(v, u)
    BY <2>3 DEF RecvLogin
  <2>. QED BY <2>1, <2>2, <2>3
<1>5. PICK op, u, w : job' = [job EXCEPT ![v] = Request(op, u, w)]
  BY <1>2
<1> DEFINE j == Request(op, u, w)
<1>3. j.pc = "sql" /\ j.seen = {}
  BY DEF Request
<1>4. job'[v] = j /\ \A x \in Server : x # v => job'[x] = job[x]
  BY <1>1, <1>5
<1>. HIDE DEF j
<1>. QED BY <1>1, <1>3, <1>4, QuietAgree DEF InAddFriend

LEMMA LookupPeerAgree == ASSUME FriendsInv, NEW v \in Server, LookupPeer(v) PROVE AgreeInv'
<1>1. /\ job[v] # None /\ job[v].pc = "lookup" /\ UNCHANGED <<db, con, torn, shown>>
      /\ job \in [Server -> Job \cup {None}]
  BY DEF LookupPeer, AtLookup, FriendsInv, ConInv, Types, client
<1>2. job[v] \in Job
  BY <1>1
<1>3. /\ job'[v].op = job[v].op /\ job'[v].u = job[v].u /\ job'[v].w = job[v].w
      /\ job'[v].seen = job[v].seen
      /\ \A x \in Server : x # v => job'[x] = job[x]
  BY <1>1, <1>2 DEF LookupPeer, Job
<1>4. job[v].op = "auth" => Settled(<<job[v].u, job[v].w>>)
  BY <1>1 DEF FriendsInv, AddedInv, Pair
<1>5. job[v].op = "login" => \A r \in job[v].seen : r[1] = "friend" => r \in db
  BY <1>1 DEF FriendsInv, SeenInv
<1>. QED BY <1>1, <1>3, <1>4, <1>5, QuietAgree DEF InAddFriend

LEMMA ReadAgree ==
    ASSUME FriendsInv, NEW v \in Server, ReadApplies(v) \/ ReadFriends(v) PROVE AgreeInv'
<1>1. /\ job[v] # None /\ job[v].op = "login" /\ UNCHANGED <<db, con, torn, shown>>
      /\ job \in [Server -> Job \cup {None}]
  BY DEF ReadApplies, ReadFriends, At, FriendsInv, ConInv, Types, client
<1>2. job[v] \in Job
  BY <1>1
<1>3. PICK c \in idle[v] : \E S \in Visible(v, c) :
        \/ job' = [job EXCEPT ![v].pc = "friends", ![v].seen = ApplyList(job[v].u, S)]
        \/ job' = [job EXCEPT ![v].pc = "register", ![v].seen = @ \cup FriendList(job[v].u, S)]
  BY DEF ReadApplies, ReadFriends
<1>4. PICK S \in Visible(v, c) :
        \/ job' = [job EXCEPT ![v].pc = "friends", ![v].seen = ApplyList(job[v].u, S)]
        \/ job' = [job EXCEPT ![v].pc = "register", ![v].seen = @ \cup FriendList(job[v].u, S)]
  BY <1>3
<1>5. \A r \in S : r[1] = "friend" => r \in db
  BY ReadCommitted DEF FriendsInv
<1>6. \A r \in job[v].seen : r[1] = "friend" => r \in db
  BY <1>1 DEF FriendsInv, SeenInv
<1>7. /\ job'[v].op = "login" /\ \A r \in job'[v].seen : r \in job[v].seen \/ r \in S
      /\ \A x \in Server : x # v => job'[x] = job[x]
  BY <1>1, <1>2, <1>4 DEF Job, ApplyList, FriendList
<1>. QED BY <1>1, <1>5, <1>6, <1>7, QuietAgree DEF InAddFriend

\* What a statement writes is in AgreedInv only for AuthFriendApply.
LEMMA WroteAgreed ==
    ASSUME Types, NEW v \in Server, NEW c \in Conn, NEW k, NEW R, Wrote(v, c, k, R), NEW r
    PROVE  Somewhere(r)' => Somewhere(r) \/ r \in R
<1>. SUFFICES ASSUME Somewhere(r)', r \notin R PROVE Somewhere(r)
  OBVIOUS
<1>1. CASE r \in db'
  BY <1>1 DEF Wrote, Somewhere
<1>2. ASSUME NEW w \in Server, NEW d \in Conn, r \in con'[w][d].dirty PROVE Somewhere(r)
  <2>1. r \in con[w][d].dirty
    BY <1>2 DEF Wrote
  <2>. QED BY <2>1 DEF Somewhere
<1>. QED BY <1>1, <1>2 DEF Somewhere

\* A step of AddFriend or of its predecessors, which go on with the same pair.
LEMMA StatementAgree ==
    ASSUME FriendsInv, NEW v \in Server, NEW c \in Conn, NEW k, NEW R, Wrote(v, c, k, R),
           job[v] # None, UNCHANGED <<torn, shown>>, NEW p \in Pc, p \notin {"lookup", "rpc"},
           job[v].op = "auth", InAddFriend(v), p \in {"begin", "second", "commit"},
           job' = [job EXCEPT ![v].pc = p],
           \A r \in R : r[1] = "friend" \/ r = <<"agreed", job[v].w, job[v].u>>
    PROVE  AgreeInv'
<1>0. Types /\ db \subseteq db' /\ torn \subseteq torn' /\ shown' \subseteq shown
  BY DEF FriendsInv, ConInv, Wrote
<1>1. job[v] \in Job
  BY <1>0 DEF Types
<1>2. /\ job'[v].op = "auth" /\ job'[v].pc = p /\ job'[v].u = job[v].u /\ job'[v].w = job[v].w
      /\ job'[v] \in Job
      /\ \A x \in Server : x # v => job'[x] = job[x]
  BY <1>0, <1>1 DEF Types, Job
<1>3. job'[v] # None
  BY <1>2, NoneApart
<1>4. InAddFriend(v)' /\ Pair(v)' = Pair(v)
  BY <1>2, <1>3 DEF InAddFriend, Pair
<1>5. \A q \in Ask : Adds(v, q) => Adds(v, q)'
  BY <1>4 DEF Adds
<1>6. ASSUME NEW q \in Ask, Somewhere(<<"agreed", q[1], q[2]>>)',
             ~Somewhere(<<"agreed", q[1], q[2]>>)
      PROVE  Adds(v, q)'
  <2>1. <<"agreed", q[1], q[2]>> \in R
    BY <1>0, <1>6, WroteAgreed
  <2>2. q[1] = job[v].w /\ q[2] = job[v].u
    BY <2>1
  <2>. QED BY <1>4, <2>2 DEF Adds, Pair
<1>7. AgreedInv'
  BY <1>0, <1>2, <1>5, <1>6, AgreedStays
<1>8. AddedInv' /\ SeenInv'
  BY <1>0, <1>2, OthersStay
<1>. QED BY <1>0, <1>7, <1>8, ShownStays DEF AgreeInv

LEMMA WriteAuthAgree == ASSUME FriendsInv, NEW v \in Server, WriteAuth(v) PROVE AgreeInv'
<1>1. At(v, "auth", "sql") /\ InAddFriend(v) /\ UNCHANGED <<torn, shown>>
  BY DEF WriteAuth, At, InAddFriend, client
<1> DEFINE k == <<"asked", job[v].w, job[v].u>>
<1>2. PICK c \in idle[v] : Write(v, c, k, Agreed(v, c)) \/ Fails(v, c, k)
  BY DEF WriteAuth
<1>3. c \in Conn /\ ConInv /\ Types /\ LinkInv
  BY DEF FriendsInv, ConInv, Types
<1>4. /\ k \in Row /\ Agreed(v, c) \in SUBSET Row /\ \A r \in Agreed(v, c) : Key(r) = k
  BY <1>1, <1>3, AgreedRow
<1>5. \A r \in Agreed(v, c) : r = <<"agreed", job[v].w, job[v].u>>
  BY DEF Agreed
<1>6. job' = [job EXCEPT ![v].pc = "begin"] /\ "begin" \in Pc
  BY DEF WriteAuth, Goto, Pc
<1>. HIDE DEF k
<1>7. Wrote(v, c, k, Agreed(v, c))
  BY <1>2, <1>3, <1>4, WriteEffect, FailEffect
<1>. QED BY <1>1, <1>3, <1>5, <1>6, <1>7, StatementAgree DEF At

LEMMA InsertFriendAgree == ASSUME FriendsInv, NEW v \in Server, InsertFriend(v) PROVE AgreeInv'
<1>1. /\ job[v] # None /\ job[v].op = "auth" /\ job[v].pc \in {"first", "second"}
      /\ InAddFriend(v) /\ UNCHANGED <<torn, shown>>
  BY DEF InsertFriend, At, InAddFriend, client
<1> DEFINE c == job[v].c
           R == {FriendRow(v)}
           p == IF job[v].pc = "first" THEN "second" ELSE "commit"
<1>2. ConInv /\ Types /\ LinkInv /\ c \in Conn /\ job[v] \in Job
  BY <1>1, InAdd DEF FriendsInv, ConInv, Adding
<1>3. /\ FriendRow(v) \in Row /\ \A r \in R : Key(r) = FriendRow(v) /\ r[1] = "friend"
  BY <1>2 DEF Job, FriendRow, Row, Kind, Key
<1>4. Write(v, c, FriendRow(v), R)
  BY DEF InsertFriend
<1>5. job' = [job EXCEPT ![v].pc = p] /\ p \in Pc /\ p \in {"begin", "second", "commit"}
  BY DEF InsertFriend, Goto, Pc
<1>6. R \in SUBSET Row
  BY <1>3
<1>. HIDE DEF c, R, p
<1>7. Wrote(v, c, FriendRow(v), R)
  BY <1>2, <1>3, <1>4, <1>6, WriteEffect
<1>. QED BY <1>1, <1>2, <1>3, <1>5, <1>7, StatementAgree

LEMMA WriteApplyAgree == ASSUME FriendsInv, NEW v \in Server, WriteApply(v) PROVE AgreeInv'
<1>1. /\ job[v] # None /\ job[v].op = "apply" /\ UNCHANGED <<torn, shown>>
      /\ ConInv /\ Types /\ LinkInv
  BY DEF WriteApply, At, client, FriendsInv, ConInv
<1>2. job[v] \in Job
  BY <1>1 DEF Types
<1> DEFINE k == Key(Applied(v))
           R == {Applied(v)}
<1>3. k \in Row /\ R \in SUBSET Row /\ \A r \in R : Key(r) = k /\ r[1] = "asked"
  BY <1>2 DEF Applied, Row, Kind, Key, Job
<1>4. PICK c \in idle[v] : Write(v, c, k, R) \/ Fails(v, c, k)
  BY DEF WriteApply
<1>5. c \in Conn
  BY <1>1 DEF Types
<1>6. job' = [job EXCEPT ![v].pc = "lookup"]
  BY DEF WriteApply, Goto
<1>7. job'[v].op = "apply" /\ \A w \in Server : w # v => job'[w] = job[w]
  BY <1>1, <1>2, <1>6 DEF Types, Job
<1>. HIDE DEF k, R
<1>8. Wrote(v, c, k, R)
  BY <1>1, <1>3, <1>4, <1>5, WriteEffect, FailEffect
<1>9. db \subseteq db' /\ torn \subseteq torn' /\ shown' \subseteq shown
  BY <1>1, <1>8 DEF Wrote
<1>10. \A p \in Ask : Somewhere(<<"agreed", p[1], p[2]>>)' => Somewhere(<<"agreed", p[1], p[2]>>)
  <2>. SUFFICES ASSUME NEW p \in Ask, Somewhere(<<"agreed", p[1], p[2]>>)'
                PROVE  Somewhere(<<"agreed", p[1], p[2]>>)
    OBVIOUS
  <2>1. <<"agreed", p[1], p[2]>> \notin R
    BY <1>3
  <2>. QED BY <1>1, <1>5, <1>8, <2>1, WroteAgreed
<1>11. \A p \in Ask : ~Adds(v, p)
  BY <1>1 DEF Adds, InAddFriend
<1>12. AgreedInv'
  BY <1>7, <1>9, <1>10, <1>11, AgreedStays
<1>13. AddedInv' /\ SeenInv'
  BY <1>7, <1>9, OthersStay
<1>. QED BY <1>9, <1>12, <1>13, ShownStays DEF AgreeInv

\* The AddFriend of v, if there is one, is over, with its rows committed or the pair in
\* torn; nothing new is written.
LEMMA OverAgree ==
    ASSUME FriendsInv, NEW v \in Server, db \subseteq db', torn \subseteq torn', shown' \subseteq shown,
           \A r : Somewhere(r)' => Somewhere(r),
           \A w \in Server : w # v => job'[w] = job[w],
           InAddFriend(v) => Both(Pair(v)) \subseteq db' \/ Pair(v) \in torn',
           \/ job'[v] = None
           \/ InAddFriend(v) /\ job'[v].op = "auth" /\ Pair(v)' = Pair(v)
    PROVE  AgreeInv'
<1>1. ASSUME NEW p \in Ask, Adds(v, p) PROVE Settled(p)'
  <2>1. Pair(v) = <<p[2], p[1]>> /\ InAddFriend(v)
    BY <1>1 DEF Adds
  <2>2. CASE Both(Pair(v)) \subseteq db'
    BY <2>1, <2>2 DEF Settled, Both
  <2>3. CASE Pair(v) \in torn'
    BY <2>1, <2>3 DEF Settled, Excused
  <2>. QED BY <2>1, <2>2, <2>3
<1>2. AgreedInv'
  BY <1>1, AgreedStays
<1>3. ASSUME job'[v] # None, job'[v].op = "auth" PROVE Settled(Pair(v))'
  <2>1. InAddFriend(v) /\ Pair(v)' = Pair(v)
    BY <1>3
  <2>2. CASE Both(Pair(v)) \subseteq db'
    BY <2>1, <2>2 DEF Settled, Both
  <2>3. CASE Pair(v) \in torn'
    BY <2>1, <2>3 DEF Settled, Excused, Pair
  <2>. QED BY <2>1, <2>2, <2>3
<1>4. job'[v] # None => job'[v].op # "login"
  OBVIOUS
<1>5. AddedInv' /\ SeenInv'
  BY <1>3, <1>4, OthersStay
<1>. QED BY <1>2, <1>5, ShownStays DEF AgreeInv

\* AddFriend ends the transaction of its connection and goes on to the notification.
LEMMA ReleasedAgree ==
    ASSUME FriendsInv, NEW v \in Server, job[v] # None, job[v].op = "auth", job[v].pc \in Adding,
           con' = Ended(v, job[v].c), Released(v), UNCHANGED shown,
           db \subseteq db', db' \subseteq db \cup con[v][job[v].c].dirty, torn \subseteq torn',
           Both(Pair(v)) \subseteq db' \/ Pair(v) \in torn'
    PROVE  AgreeInv'
<1>0. Types /\ ConInv
  BY DEF FriendsInv, ConInv
<1>1. job[v] \in Job /\ job[v].c \in Conn /\ InAddFriend(v)
  BY <1>0, InAdd DEF InAddFriend, Adding
<1>2. /\ job'[v].op = "auth" /\ Pair(v)' = Pair(v)
      /\ \A w \in Server : w # v => job'[w] = job[w]
  BY <1>0, <1>1 DEF Types, Released, Pair, Job
<1>3. /\ \A w \in Server, d \in Conn : <<w, d>> # <<v, job[v].c>> => con'[w][d] = con[w][d]
      /\ con'[v][job[v].c].dirty = {}
  BY <1>0, <1>1, EndedLink DEF Types
<1>4. ASSUME NEW r, Somewhere(r)' PROVE Somewhere(r)
  <2>1. CASE r \in db'
    BY <1>1, <2>1 DEF Somewhere
  <2>2. ASSUME NEW w \in Server, NEW d \in Conn, r \in con'[w][d].dirty PROVE Somewhere(r)
    BY <1>3, <2>2 DEF Somewhere
  <2>. QED BY <1>4, <2>1, <2>2 DEF Somewhere
<1>. QED BY <1>1, <1>2, <1>4, OverAgree

LEMMA CommitAgree == ASSUME FriendsInv, NEW v \in Server, Commit(v) PROVE AgreeInv'
<1>1. /\ job[v] # None /\ job[v].op = "auth" /\ job[v].pc \in Adding
      /\ con' = Ended(v, job[v].c) /\ Released(v) /\ UNCHANGED <<shown, torn>>
      /\ db' = db \cup con[v][job[v].c].dirty
  BY DEF Commit, At, Adding, client
<1>2. Both(Pair(v)) \subseteq db'
  BY CommitMutual DEF FriendsInv
<1>. QED BY <1>1, <1>2, ReleasedAgree

LEMMA RollbackAgree == ASSUME FriendsInv, NEW v \in Server, Rollback(v) PROVE AgreeInv'
<1>1. /\ job[v] # None /\ job[v].op = "auth" /\ job[v].pc \in Adding
      /\ con' = Ended(v, job[v].c) /\ Released(v) /\ UNCHANGED <<shown, db>>
      /\ torn' = torn \cup {Pair(v)}
  BY DEF Rollback, At, Adding, client
<1>. QED BY <1>1, ReleasedAgree

LEMMA CrashAgree == ASSUME FriendsInv, NEW v \in Server, Crash(v) PROVE AgreeInv'
<1>0. Types
  BY DEF FriendsInv, ConInv
<1>1. /\ db' = db /\ shown' \subseteq shown /\ torn \subseteq torn' /\ job'[v] = None
      /\ InAddFriend(v) => Pair(v) \in torn'
      /\ \A w \in Server : w # v => job'[w] = job[w]
  BY <1>0 DEF Crash, Types
<1>2. /\ \A w \in Server, d \in Conn : w # v => con'[w][d] = con[w][d]
      /\ \A d \in Conn : con'[v][d].dirty = {}
  BY <1>0 DEF Crash, Types, Fresh
<1>3. \A r : Somewhere(r)' => Somewhere(r)
  BY <1>1, <1>2 DEF Somewhere
<1>. QED BY <1>1, <1>3, OverAgree

\* No logic thread moves and no fact is new.
LEMMA StillAgree ==
    ASSUME FriendsInv, UNCHANGED <<db, job, torn>>, shown' \subseteq shown,
           \A r : Somewhere(r)' => Somewhere(r)
    PROVE  AgreeInv'
<1>1. AgreedInv'
  <2>. SUFFICES ASSUME NEW p \in Ask, Somewhere(<<"agreed", p[1], p[2]>>)'
                PROVE  Settled(p)' \/ \E v \in Server : Adds(v, p)'
    BY DEF AgreedInv
  <2>1. Settled(p) \/ \E v \in Server : Adds(v, p)
    BY DEF FriendsInv, AgreedInv
  <2>. QED BY <2>1 DEF Settled, Excused, Adds, InAddFriend, Pair
<1>2. AddedInv' /\ SeenInv'
  BY DEF FriendsInv, AddedInv, SeenInv, Settled, Excused, Pair
<1>. QED BY <1>1, <1>2, ShownStays DEF AgreeInv

LEMMA LoseConAgree ==
    ASSUME FriendsInv, NEW v \in Server, NEW c \in Conn, LoseCon(v, c) PROVE AgreeInv'
<1>0. Types
  BY DEF FriendsInv, ConInv
<1>1. UNCHANGED <<db, job, torn, shown>> /\ con' = [con EXCEPT ![v][c] = Fresh]
  BY DEF LoseCon, client
<1>2. \A w \in Server, d \in Conn : con'[w][d].dirty \subseteq con[w][d].dirty
  BY <1>0, <1>1 DEF Types, Fresh
<1>. QED BY <1>1, <1>2, StillAgree DEF Somewhere

LEMMA LeaveAgree ==
    ASSUME FriendsInv, NEW u \in User, Disconnect(u) \/ \E v \in Server : Cleanup(v, u)
    PROVE  AgreeInv'
<1>1. UNCHANGED <<db, con, job, torn>> /\ shown' \subseteq shown
  BY DEF Disconnect, Cleanup, client
<1>. QED BY <1>1, StillAgree DEF Somewhere

\* The request of v ends; what the clients show is settled.
LEMMA EndAgree ==
    ASSUME FriendsInv, NEW v \in Server, UNCHANGED <<db, con, torn>>, ~InAddFriend(v),
           job' = [job EXCEPT ![v] = None], \A p \in shown' : p \in shown \/ Settled(p)
    PROVE  AgreeInv'
<1>1. job'[v] = None /\ \A w \in Server : w # v => job'[w] = job[w]
  BY DEF FriendsInv, ConInv, Types
<1>2. AgreedInv' /\ AddedInv' /\ SeenInv'
  <2>1. \A p \in Ask : Somewhere(<<"agreed", p[1], p[2]>>)' => Somewhere(<<"agreed", p[1], p[2]>>)
    BY DEF Somewhere
  <2>2. \A p \in Ask : ~Adds(v, p)
    BY DEF Adds
  <2>. QED BY <1>1, <2>1, <2>2, AgreedStays, OthersStay
<1>3. ShownAreFriends'
  BY DEF FriendsInv, ShownAreFriends, Settled, Excused
<1>. QED BY <1>2, <1>3 DEF AgreeInv

\* A handler shows its friendship only after its AddFriend.
LEMMA DoneAgree ==
    ASSUME FriendsInv, NEW v \in Server, NEW s, job[v] # None, job[v].pc \in {"lookup", "rpc"},
           Done(v, s)
    PROVE  AgreeInv'
<1>1. UNCHANGED <<db, con, torn>> /\ job' = [job EXCEPT ![v] = None] /\ ~InAddFriend(v)
  BY DEF Done, InAddFriend
<1>2. CASE AnswerApply(v, s)
  BY <1>1, <1>2, EndAgree DEF AnswerApply
<1>3. CASE AnswerAuth(v, s)
  <2>1. Settled(<<job[v].u, job[v].w>>)
    BY <1>3 DEF AnswerAuth, FriendsInv, AddedInv, Pair
  <2>2. Settled(<<job[v].w, job[v].u>>)
    BY <2>1, SettledSwap
  <2>3. \A p \in shown' : p \in shown \/ p = <<job[v].u, job[v].w>> \/ p = <<job[v].w, job[v].u>>
    BY <1>3 DEF AnswerAuth, Pair
  <2>. QED BY <1>1, <2>1, <2>2, <2>3, EndAgree
<1>. QED BY <1>2, <1>3 DEF Done

\* A login shows committed friends, which are mutual.
LEMMA LoggedInAgree == ASSUME FriendsInv, NEW v \in Server, LoggedIn(v) PROVE AgreeInv'
<1>1. /\ job[v] # None /\ job[v].op = "login" /\ UNCHANGED <<db, con, torn>>
      /\ job' = [job EXCEPT ![v] = None] /\ Shows(job[v].u, job[v].seen)
  BY DEF LoggedIn, At
<1>2. job[v].u \in User
  BY <1>1 DEF FriendsInv, ConInv, Types, Job
<1>3. ASSUME NEW p \in shown', p \notin shown PROVE Settled(p)
  <2>1. p \in {job[v].u} \X User /\ <<"friend", job[v].u, p[2]>> \in job[v].seen
    BY <1>1, <1>3 DEF Shows
  <2>2. <<"friend", p[1], p[2]>> \in db
    BY <1>1, <2>1 DEF FriendsInv, SeenInv
  <2>3. <<"friend", p[2], p[1]>> \in db
    BY <1>2, <2>1, <2>2 DEF FriendsInv, ConInv, FriendsMutual
  <2>. QED BY <2>2, <2>3 DEF Settled, Both
<1>. QED BY <1>1, <1>3, EndAgree DEF InAddFriend

LEMMA BeginAgree == ASSUME FriendsInv, NEW v \in Server, Begin(v) PROVE AgreeInv'
<1>0. Types
  BY DEF FriendsInv, ConInv
<1>1. /\ job[v] # None /\ job[v].op = "auth" /\ job[v].pc = "begin"
      /\ UNCHANGED <<db, torn, shown>>
  BY DEF Begin, At, client
<1>2. PICK c \in idle[v] : /\ con' = [con EXCEPT ![v][c].manual = TRUE]
                           /\ job' = [job EXCEPT ![v].pc = "first", ![v].c = c]
  BY DEF Begin
<1>3. c \in Conn /\ job[v] \in Job
  BY <1>0, <1>1 DEF Types
<1>4. \A w \in Server, d \in Conn : con'[w][d].dirty = con[w][d].dirty
  BY <1>0, <1>2, <1>3 DEF Types, Link
<1>5. /\ job'[v].op = "auth" /\ job'[v].pc = "first" /\ job'[v].u = job[v].u /\ job'[v].w = job[v].w
      /\ job'[v] \in Job /\ \A w \in Server : w # v => job'[w] = job[w]
  BY <1>0, <1>1, <1>2, <1>3 DEF Types, Job, Pc
<1>6. \A p \in Ask : Adds(v, p) => Adds(v, p)'
  BY <1>5, NoneApart DEF Adds, InAddFriend, Pair
<1>7. \A p \in Ask : Somewhere(<<"agreed", p[1], p[2]>>)' => Somewhere(<<"agreed", p[1], p[2]>>)
  BY <1>1, <1>4 DEF Somewhere
<1>8. AgreedInv'
  BY <1>1, <1>5, <1>6, <1>7, AgreedStays
<1>9. AddedInv' /\ SeenInv'
  BY <1>1, <1>5, OthersStay
<1>. QED BY <1>1, <1>8, <1>9, ShownStays DEF AgreeInv

LEMMA AgreeNext == ASSUME FriendsInv, [Next]_vars PROVE AgreeInv'
<1>1. ASSUME NEW v \in Server, Serve(v) PROVE AgreeInv'
  <2>1. CASE WriteApply(v) \/ WriteAuth(v) \/ InsertFriend(v)
    BY <2>1, WriteApplyAgree, WriteAuthAgree, InsertFriendAgree
  <2>2. CASE Begin(v) \/ Commit(v) \/ Rollback(v)
    BY <2>2, BeginAgree, CommitAgree, RollbackAgree
  <2>3. CASE LookupPeer(v) \/ ReadApplies(v) \/ ReadFriends(v)
    BY <2>3, LookupPeerAgree, ReadAgree
  <2>4. CASE LookupHere(v) \/ RpcApply(v) \/ RpcAuth(v)
    BY <2>4, DoneAgree DEF LookupHere, AtLookup, RpcApply, RpcAuth, Rpc, At
  <2>5. CASE Register(v) \/ OldRegister(v)
    BY <2>5, LoggedInAgree DEF Register, OldRegister
  <2>. QED BY <1>1, <2>1, <2>2, <2>3, <2>4, <2>5 DEF Serve
<1>2. ASSUME NEW v \in Server, Crash(v) \/ \E c \in Conn : LoseCon(v, c) PROVE AgreeInv'
  BY <1>2, CrashAgree, LoseConAgree
<1>3. ASSUME NEW v \in Server,
             \/ \E p \in Ask : RecvApply(v, p[1], p[2]) \/ RecvAuth(v, p[2], p[1])
             \/ \E u \in User : RecvLogin(v, u)
      PROVE  AgreeInv'
  BY <1>3, RecvAgree
<1>4. ASSUME NEW u \in User, Disconnect(u) \/ \E v \in Server : Cleanup(v, u) PROVE AgreeInv'
  BY <1>4, LeaveAgree
<1>5. CASE UNCHANGED vars
  BY <1>5, StillAgree DEF vars, client, Somewhere
<1>. QED BY <1>1, <1>2, <1>3, <1>4, <1>5 DEF Next

-----------------------------------------------------------------------------
(* The theorems.                                                            *)

LEMMA FriendsInit == Init => FriendsInv
<1>. SUFFICES ASSUME Init PROVE FriendsInv
  OBVIOUS
<1>1. ConInv /\ ClientTypes /\ AtInv
  BY ConInit, ClientInit
<1>2. /\ db = {} /\ shown = {} /\ \A v \in Server : job[v] = None
      /\ \A v \in Server, c \in Conn : con[v][c].dirty = {}
  BY DEF Init, Fresh
<1>. QED BY <1>1, <1>2 DEF FriendsInv, AgreedInv, AddedInv, SeenInv, ShownAreFriends, Somewhere

LEMMA FriendsNext == FriendsInv /\ [Next]_vars => FriendsInv'
<1>. SUFFICES ASSUME FriendsInv, [Next]_vars PROVE FriendsInv'
  OBVIOUS
<1>1. ConInv' /\ ClientTypes' /\ AtInv'
  BY ConNext, ClientNext DEF FriendsInv
<1>. QED BY <1>1, AgreeNext DEF FriendsInv, AgreeInv

\* The inductive invariant: where a connection is and what it holds (ConInv), who is
\* registered where (AtInv), and how far an acceptance has come wherever something of it
\* can be seen (AgreedInv, AddedInv, SeenInv, ShownAreFriends).
THEOREM FriendsInvCorrect == Spec => []FriendsInv
  BY FriendsInit, FriendsNext, PTL DEF Spec

\* MySqlPool and AddFriend (MysqlDao.cpp:253): every connection is in the pool or with
\* AddFriend, and what it has not committed is locked.
THEOREM FriendsTypeCorrect == Spec => []TypeOK
<1>1. FriendsInv => TypeOK
  <2>. SUFFICES ASSUME FriendsInv PROVE TypeOK
    OBVIOUS
  <2>1. Types /\ IdleInv /\ LinkInv /\ ClientTypes
    BY DEF FriendsInv, ConInv
  <2>2. ASSUME NEW v \in Server, NEW c \in Conn
        PROVE  LET k == con[v][c]
               IN  /\ k.dirty \subseteq Row /\ {Key(r) : r \in k.dirty} \subseteq k.locks
                   /\ ~k.manual => k = Fresh
    <3>1. con[v][c] \in Link /\ LinkOK(con[v][c])
      BY <2>1 DEF Types, LinkInv
    <3>. QED BY <3>1 DEF Link, LinkOK
  <2>3. \A v \in Server : idle[v] = Conn \ (IF job[v] = None THEN {} ELSE {job[v].c})
    BY <2>1 DEF IdleInv
  <2>4. \A v \in Server : bound[v] \subseteq User
    BY <2>1 DEF ClientTypes
  <2>. QED BY <2>1, <2>2, <2>3, <2>4 DEF TypeOK, Types, ClientTypes
<1>. QED BY <1>1, FriendsInvCorrect, PTL

\* Whatever of AddFriend fails, and with the rows earlier requests left on its connection,
\* the friend table never holds one side of a friendship only.
THEOREM FriendsMutualCorrect == Spec => []FriendsMutual
<1>1. FriendsInv => FriendsMutual
  BY DEF FriendsInv, ConInv
<1>. QED BY <1>1, FriendsInvCorrect, PTL

\* AddFriend gives no connection back that still locks rows of the friend table: each of
\* its ways out commits or rolls back.
THEOREM FriendRowsUnlockedCorrect == Spec => []FriendRowsUnlocked
<1>1. FriendsInv => FriendRowsUnlocked
  BY DEF FriendsInv, ConInv
<1>. QED BY <1>1, FriendsInvCorrect, PTL

\* LogicSystem::AuthFriendApply answers and notifies without looking at the result of
\* AddFriend: the clients still show only friendships that are in the database for both,
\* except where an AddFriend failed.
THEOREM ShownAreFriendsCorrect == Spec => []ShownAreFriends
<1>1. FriendsInv => ShownAreFriends
  BY DEF FriendsInv
<1>. QED BY <1>1, FriendsInvCorrect, PTL

\* The acceptance is written before the friendship: it stands alone only while AddFriend
\* is to come or after one that failed.
THEOREM AgreedAreFriendsCorrect == Spec => []AgreedAreFriends
<1>1. FriendsInv => AgreedAreFriends
  BY DEF FriendsInv, AgreedInv, AgreedAreFriends, Somewhere, Settled, Adds
<1>. QED BY <1>1, FriendsInvCorrect, PTL

\* Mixed with ChatServer_2, a client of a ChatServer stays registered: the clean-up of an
\* old session does not touch the keys of the new one.
THEOREM NewStaysRegisteredCorrect == Spec => []NewStaysRegistered
<1>1. FriendsInv => NewStaysRegistered
  BY DEF FriendsInv, AtInv, NewStaysRegistered
<1>. QED BY <1>1, FriendsInvCorrect, PTL

-----------------------------------------------------------------------------
(* The logic thread goes on: the part of LogicGoesOn that needs no ENABLED.  *)

\* The places of a request of each kind.
Stage(op) ==
    IF op = "apply" THEN {"sql", "lookup", "rpc"}
    ELSE IF op = "auth" THEN {"sql", "begin", "lookup", "rpc"} \cup Adding
    ELSE {"sql", "friends", "register"}

StageInv == \A v \in Server : job[v] # None => job[v].pc \in Stage(job[v].op)

\* What a request needs of the pool is there: a statement finds an idle connection,
\* GetFriendList two of them, and AddFriend goes on with its own.
LogicReady ==
    \A v \in Server : job[v] # None =>
        /\ job[v].pc \in Stage(job[v].op)
        /\ job[v].pc \in {"sql", "begin"} => idle[v] # {}
        /\ job[v].pc = "friends" => \E c, d \in idle[v] : c # d
        /\ job[v].pc \in Adding => job[v].c \in Conn \ idle[v] /\ con[v][job[v].c].manual

LEMMA StagePut ==
    ASSUME Types, StageInv, NEW v \in Server, NEW j, j # None => j.pc \in Stage(j.op),
           job' = [job EXCEPT ![v] = j]
    PROVE  StageInv'
<1>1. \A w \in Server : job'[w] = IF w = v THEN j ELSE job[w]
  BY DEF Types
<1>. QED BY <1>1 DEF StageInv

LEMMA StageGo ==
    ASSUME Types, StageInv, NEW v \in Server, job[v] # None,
           NEW x \in Stage(job[v].op), NEW d, NEW t, NEW s,
           job' = [job EXCEPT ![v] = [job[v] EXCEPT !.pc = x, !.c = d, !.to = t, !.seen = s]]
    PROVE  StageInv'
<1> DEFINE j == [job[v] EXCEPT !.pc = x, !.c = d, !.to = t, !.seen = s]
<1>1. job[v] \in Job
  BY DEF Types
<1>2. j.pc = x /\ j.op = job[v].op
  BY <1>1 DEF Job
<1>3. job' = [job EXCEPT ![v] = j]
  OBVIOUS
<1>. HIDE DEF j
<1>. QED BY <1>2, <1>3, StagePut

LEMMA StageServe == ASSUME ConInv, StageInv, NEW v \in Server, Serve(v) PROVE StageInv'
<1>0. Types /\ (job[v] # None => job[v] \in Job /\ job[v].pc \in Stage(job[v].op))
  BY DEF ConInv, Types, StageInv
<1> DEFINE Moves(x, d, t, s) ==
      job' = [job EXCEPT ![v] = [job[v] EXCEPT !.pc = x, !.c = d, !.to = t, !.seen = s]]
<1>1. CASE \/ WriteApply(v) \/ WriteAuth(v) \/ Begin(v) \/ InsertFriend(v)
           \/ Commit(v) \/ Rollback(v) \/ LookupPeer(v)
  <2>1. job[v] # None
    BY <1>1 DEF WriteApply, WriteAuth, Begin, InsertFriend, Commit, Rollback, LookupPeer, At,
                AtLookup
  <2>2. CASE WriteApply(v)
    <3>1. job' = [job EXCEPT ![v].pc = "lookup"] /\ job[v].op = "apply"
      BY <2>2 DEF WriteApply, Goto, At
    <3>2. Moves("lookup", job[v].c, job[v].to, job[v].seen)
      BY <1>0, <2>1, <3>1 DEF Types, Job
    <3>3. "lookup" \in Stage(job[v].op)
      BY <3>1 DEF Stage
    <3>. QED BY <1>0, <2>1, <3>2, <3>3, StageGo
  <2>3. CASE WriteAuth(v)
    <3>1. job' = [job EXCEPT ![v].pc = "begin"] /\ job[v].op = "auth"
      BY <2>3 DEF WriteAuth, Goto, At
    <3>2. Moves("begin", job[v].c, job[v].to, job[v].seen)
      BY <1>0, <2>1, <3>1 DEF Types, Job
    <3>3. "begin" \in Stage(job[v].op)
      BY <3>1 DEF Stage
    <3>. QED BY <1>0, <2>1, <3>2, <3>3, StageGo
  <2>4. CASE Begin(v)
    <3>1. PICK c : job' = [job EXCEPT ![v].pc = "first", ![v].c = c]
      BY <2>4 DEF Begin
    <3>2. job[v].op = "auth"
      BY <2>4 DEF Begin, At
    <3>3. Moves("first", c, job[v].to, job[v].seen)
      BY <1>0, <2>1, <3>1 DEF Types, Job
    <3>. QED BY <1>0, <2>1, <3>2, <3>3, StageGo DEF Stage, Adding
  <2>5. CASE InsertFriend(v)
    <3>1. PICK x \in {"second", "commit"} : job' = [job EXCEPT ![v].pc = x]
      BY <2>5 DEF InsertFriend, Goto
    <3>2. job[v].op = "auth"
      BY <2>5 DEF InsertFriend, At
    <3>3. Moves(x, job[v].c, job[v].to, job[v].seen)
      BY <1>0, <2>1, <3>1 DEF Types, Job
    <3>. QED BY <1>0, <2>1, <3>2, <3>3, StageGo DEF Stage, Adding
  <2>6. CASE Commit(v) \/ Rollback(v)
    <3>1. job' = [job EXCEPT ![v].pc = "lookup", ![v].c = None] /\ job[v].op = "auth"
      BY <2>6 DEF Commit, Rollback, Released, At
    <3>2. Moves("lookup", None, job[v].to, job[v].seen)
      BY <1>0, <2>1, <3>1 DEF Types, Job
    <3>3. "lookup" \in Stage(job[v].op)
      BY <3>1 DEF Stage
    <3>. QED BY <1>0, <2>1, <3>2, <3>3, StageGo
  <2>7. CASE LookupPeer(v)
    <3>1. job' = [job EXCEPT ![v].pc = "rpc", ![v].to = reg[job[v].w]]
      BY <2>7 DEF LookupPeer
    <3>2. Moves("rpc", job[v].c, reg[job[v].w], job[v].seen)
      BY <1>0, <2>1, <3>1 DEF Types, Job
    <3>3. job[v].pc = "lookup"
      BY <2>7 DEF LookupPeer, AtLookup
    <3>4. "rpc" \in Stage(job[v].op)
      BY <1>0, <2>1, <3>3 DEF Stage
    <3>. QED BY <1>0, <2>1, <3>2, <3>4, StageGo
  <2>. QED BY <1>1, <2>2, <2>3, <2>4, <2>5, <2>6, <2>7
<1>2. CASE LookupHere(v) \/ RpcApply(v) \/ RpcAuth(v) \/ Register(v) \/ OldRegister(v)
  <2>1. job' = [job EXCEPT ![v] = None]
    BY <1>2 DEF LookupHere, RpcApply, RpcAuth, Rpc, Done, Register, OldRegister, LoggedIn
  <2>. QED BY <1>0, <2>1, StagePut
<1>3. CASE ReadApplies(v) \/ ReadFriends(v)
  <2>1. job[v] # None /\ job[v].op = "login"
    BY <1>3 DEF ReadApplies, ReadFriends, At
  <2>2. PICK x \in {"friends", "register"} :
          \E s : job' = [job EXCEPT ![v].pc = x, ![v].seen = s]
    BY <1>3 DEF ReadApplies, ReadFriends
  <2>3. PICK s : job' = [job EXCEPT ![v].pc = x, ![v].seen = s]
    BY <2>2
  <2>4. Moves(x, job[v].c, job[v].to, s)
    BY <1>0, <2>1, <2>3 DEF Types, Job
  <2>. QED BY <1>0, <2>1, <2>4, StageGo DEF Stage
<1>. QED BY <1>1, <1>2, <1>3 DEF Serve

LEMMA StageNext == ASSUME ConInv, StageInv, [Next]_vars PROVE StageInv'
<1>0. Types
  BY DEF ConInv
<1>1. ASSUME NEW v \in Server, Crash(v) PROVE StageInv'
  BY <1>0, <1>1, StagePut DEF Crash
<1>2. ASSUME NEW v \in Server, NEW op, NEW u, NEW w,
             job' = [job EXCEPT ![v] = Request(op, u, w)]
      PROVE  StageInv'
  <2>1. Request(op, u, w).pc \in Stage(Request(op, u, w).op)
    BY DEF Request, Stage
  <2>. QED BY <1>0, <1>2, <2>1, StagePut
<1>3. ASSUME UNCHANGED job PROVE StageInv'
  BY <1>3 DEF StageInv
<1>4. ASSUME NEW v \in Server, NEW u \in User, RecvLogin(v, u) PROVE StageInv'
  BY <1>2, <1>4 DEF RecvLogin
<1>5. ASSUME NEW v \in Server, NEW u, NEW w, RecvApply(v, u, w) \/ RecvAuth(v, u, w)
      PROVE  StageInv'
  BY <1>2, <1>5 DEF RecvApply, RecvAuth
<1>6. ASSUME NEW v \in Server, NEW c \in Conn, LoseCon(v, c) PROVE StageInv'
  BY <1>3, <1>6 DEF LoseCon
<1>7. ASSUME NEW u \in User, Disconnect(u) \/ \E v \in Server : Cleanup(v, u) PROVE StageInv'
  BY <1>3, <1>7 DEF Disconnect, Cleanup
<1>. QED BY <1>1, <1>3, <1>4, <1>5, <1>6, <1>7, StageServe DEF Next, vars

\* With two connections or more in its pool, the logic thread never waits for one that
\* nobody gives back, though GetFriendList holds one while it asks for another
\* (MysqlDao.cpp) and AddFriend keeps one over several statements: whoever takes a
\* connection has given it back before the next request of the thread.
THEOREM LogicReadyCorrect == (\E c, d \in Conn : c # d) => (Spec => []LogicReady)
<1>. SUFFICES ASSUME \E c, d \in Conn : c # d PROVE Spec => []LogicReady
  OBVIOUS
<1>1. Init => StageInv
  BY DEF Init, StageInv
<1>2. FriendsInv /\ StageInv /\ [Next]_vars => StageInv'
  BY StageNext DEF FriendsInv
<1>3. ASSUME FriendsInv, StageInv PROVE LogicReady
  <2>. SUFFICES ASSUME NEW v \in Server, job[v] # None
       PROVE  /\ job[v].pc \in Stage(job[v].op)
              /\ job[v].pc \in {"sql", "begin"} => idle[v] # {}
              /\ job[v].pc = "friends" => \E c, d \in idle[v] : c # d
              /\ job[v].pc \in Adding => job[v].c \in Conn \ idle[v] /\ con[v][job[v].c].manual
    BY DEF LogicReady
  <2>1. /\ job[v] \in Job /\ JobOK(job[v]) /\ idle[v] = Conn \ {job[v].c}
        /\ job[v].pc \in Stage(job[v].op)
        /\ job[v].c # None => con[v][job[v].c].manual
    BY <1>3 DEF FriendsInv, ConInv, Types, JobInv, IdleInv, StageInv, HeldInv, HeldOK
  <2>2. job[v].pc \notin Adding => idle[v] = Conn
    BY <2>1, FriendsAssumption DEF JobOK
  <2>3. job[v].pc \in Adding => job[v].op = "auth" /\ job[v].c # None
    BY <2>1 DEF JobOK, Stage, Adding
  <2>. QED BY <2>1, <2>2, <2>3 DEF Adding, Job
<1>. QED BY <1>1, <1>2, <1>3, FriendsInvCorrect, PTL DEF Spec
=============================================================================
