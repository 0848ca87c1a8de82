------------------------------- MODULE Friends -------------------------------
(***************************************************************************)
(* Friend applications and friendships: the handlers of the two kinds of   *)
(* chat server (ChatServer, and ChatServer_2 in Old), the transactions of  *)
(* their pooled MySQL connections, the notifications between the servers   *)
(* and what the clients show.                                              *)
(*                                                                         *)
(* A handler runs on the logic thread of its server, one at a time, but    *)
(* each of its database statements and calls is a step: other servers, the *)
(* clean-up of lost connections and crashes come in between.  A row of the *)
(* database is a fact <<kind, u, w>>; statements of this part only add     *)
(* facts.  AddFriend switches the autocommit of its connection off and     *)
(* nothing switches it on again, so a connection carries what was written  *)
(* through it and not committed, and the row locks that go with it; its    *)
(* reads see a snapshot (InnoDB, REPEATABLE READ).                         *)
(***************************************************************************)
EXTENDS Naturals, FiniteSets

CONSTANTS
  Server,    \* chat servers
  Old,       \* those of them that run ChatServer_2
  User,
  Conn,      \* the connections of a server's MySqlPool (5 in the code)
  Ask,       \* who may apply to whom: pairs <<applicant, user>>
  Place,     \* where who may log in: pairs <<user, server>>
  LoginLimit, FailureLimit, \* bounds of an instance: how often clients log in and things fail
  Faults,    \* the failures that happen: "sql_error", "con_lost", "rpc_lost", "crash"
  None

ASSUME FriendsAssumption ==
  /\ Old \subseteq Server
  /\ Ask \subseteq {p \in User \X User : p[1] # p[2]}
  /\ Place \subseteq User \X Server
  /\ LoginLimit \in Nat /\ FailureLimit \in Nat
  /\ Faults \subseteq {"sql_error", "con_lost", "rpc_lost", "crash"}
  /\ None \notin Server \cup Conn

VARIABLES
  db,        \* committed rows of friend_apply and friend
  con,       \* con[v][c]: autocommit, uncommitted rows and locks of a connection
  idle,      \* idle[v]: connections in the pool
  job,       \* job[v]: the request the logic thread of v is at
  reg,       \* reg[u]: the server in uip_<u>
  owner,     \* owner[u]: the server whose session is in usession_<u>
  bound,     \* bound[v]: users bound to a session in the UserMgr of v
  at,        \* at[u]: the server the user's client is logged in at
  known,     \* applications <<a, u>> the client of u lists as open
  shown,     \* <<u, w>>: the client of u shows w as a friend
  acked,     \* applications answered with Success
  torn,      \* history: acceptances whose AddFriend failed or whose server died in it
  logins,    \* how many logins there were
  failures   \* how many failures there were

vars == <<db, con, idle, job, reg, owner, bound, at, known, shown, acked, torn, logins, failures>>
login == <<reg, owner, bound, at>>
client == <<known, shown, acked>>
count == <<logins, failures>>

Kind == {"asked", "agreed", "friend"}
Row == Kind \X User \X User

\* The row a fact is stored in: status is a column of the application's row.
Key(r) == IF r[1] = "friend" THEN r ELSE <<"asked", r[2], r[3]>>

Both(p) == {<<"friend", p[1], p[2]>>, <<"friend", p[2], p[1]>>}

Fresh == [manual |-> FALSE, dirty |-> {}, locks |-> {}]

Fault(f) == f \in Faults /\ failures < FailureLimit /\ failures' = failures + 1

\* A request of user u about user w; c is the connection it holds, to the peer
\* it is going to call, seen what a login has read so far.
Request(op, u, w) ==
  [op |-> op, u |-> u, w |-> w, pc |-> "sql", c |-> None, to |-> None, seen |-> {}]

Pc == {"sql", "begin", "first", "second", "commit", "lookup", "rpc", "friends", "register"}
Job == [op: {"apply", "auth", "login"}, u: User, w: User, pc: Pc, c: Conn \cup {None},
        to: Server \cup {None}, seen: SUBSET Row]

ASSUME NoneAssumption == None \notin Job

Init ==
  /\ db = {}
  /\ con = [v \in Server |-> [c \in Conn |-> Fresh]]
  /\ idle = [v \in Server |-> Conn]
  /\ job = [v \in Server |-> None]
  /\ reg = [u \in User |-> None]
  /\ owner = [u \in User |-> None]
  /\ bound = [v \in Server |-> {}]
  /\ at = [u \in User |-> None]
  /\ known = {} /\ shown = {} /\ acked = {} /\ torn = {}
  /\ logins = 0 /\ failures = 0

-----------------------------------------------------------------------------
(* Statements *)

At(v, op, pc) == job[v] # None /\ job[v].op = op /\ job[v].pc = pc
Pair(v) == <<job[v].u, job[v].w>>
Goto(v, pc) == job' = [job EXCEPT ![v].pc = pc]

\* The rows a statement on connection c acts on: the newest committed ones and its own.
Latest(v, c) == db \cup con[v][c].dirty

\* What a query on connection c may return: without autocommit it sees the database
\* as it was at some earlier time, when its transaction began to read.
Visible(v, c) ==
  IF con[v][c].manual THEN {S \cup con[v][c].dirty : S \in SUBSET db} ELSE {db}

\* The row is locked by a transaction of another connection.
Blocked(v, c, k) ==
  \E w \in Server, d \in Conn : <<w, d>> # <<v, c>> /\ k \in con[w][d].locks

\* An INSERT or UPDATE that adds the facts R to the row k.
Write(v, c, k, R) ==
  /\ ~Blocked(v, c, k)
  /\ IF con[v][c].manual
     THEN /\ con' = [con EXCEPT ![v][c].dirty = @ \cup (R \ db), ![v][c].locks = @ \cup {k}]
          /\ UNCHANGED db
     ELSE db' = db \cup R /\ UNCHANGED con
  /\ UNCHANGED failures

\* Mutant of Ended: the locks go and the rows stay.
EndedKeeping(v, c) == [con EXCEPT ![v][c].locks = {}]

\* The end of the transaction of a connection, which stays without autocommit.
Ended(v, c) ==
  [con EXCEPT ![v][c] = [manual |-> con[v][c].manual, dirty |-> {}, locks |-> {}]]

\* SQLException: the lock wait times out, the connection's transaction is the
\* victim of a deadlock, or the statement fails.
Throws(v, c, k) ==
  \/ Blocked(v, c, k) /\ UNCHANGED failures
  \/ Fault("sql_error")

Fails(v, c, k) ==
  /\ Throws(v, c, k)
  /\ \/ UNCHANGED con
     \/ Blocked(v, c, k) /\ con' = Ended(v, c)
  /\ UNCHANGED db

-----------------------------------------------------------------------------
(* Requests: taken from the logic queue while the client is logged in *)

RecvApply(v, u, w) ==
  /\ job[v] = None /\ at[u] = v /\ <<u, w>> \in Ask
  /\ job' = [job EXCEPT ![v] = Request("apply", u, w)]
  /\ UNCHANGED <<db, con, idle, login, client, torn, count>>

\* The user accepts an application that the client lists.
RecvAuth(v, u, w) ==
  /\ job[v] = None /\ at[u] = v /\ <<w, u>> \in known
  /\ job' = [job EXCEPT ![v] = Request("auth", u, w)]
  /\ known' = known \ {<<w, u>>}
  /\ UNCHANGED <<db, con, idle, login, shown, acked, torn, count>>

RecvLogin(v, u) ==
  /\ job[v] = None /\ at[u] # v /\ <<u, v>> \in Place
  /\ job' = [job EXCEPT ![v] = Request("login", u, u)]
  /\ logins < LoginLimit /\ logins' = logins + 1
  /\ UNCHANGED <<db, con, idle, login, client, torn, failures>>

\* What the statements of MysqlDao::AddFriendApply and AuthFriendApply write: no row is
\* no error for the UPDATE.
Applied(v) == <<"asked", job[v].u, job[v].w>>

Agreed(v, c) ==
  LET r == <<"agreed", job[v].w, job[v].u>>
  IN  IF Key(r) \in Latest(v, c) THEN {r} ELSE {}

\* MysqlDao::AddFriendApply; its result is not looked at.
WriteApply(v) ==
  /\ At(v, "apply", "sql")
  /\ \E c \in idle[v] :
       \/ Write(v, c, Key(Applied(v)), {Applied(v)})
       \/ Fails(v, c, Key(Applied(v)))
  /\ Goto(v, "lookup")
  /\ UNCHANGED <<idle, login, client, torn, logins>>

\* MysqlDao::AuthFriendApply; its result is not looked at.
WriteAuth(v) ==
  /\ At(v, "auth", "sql")
  /\ \E c \in idle[v] :
       LET k == <<"asked", job[v].w, job[v].u>>
       IN  Write(v, c, k, Agreed(v, c)) \/ Fails(v, c, k)
  /\ Goto(v, "begin")
  /\ UNCHANGED <<idle, login, client, torn, logins>>

\* Mutant of Begin: autocommit stays on.
BeginAutocommit(v) ==
  /\ At(v, "auth", "begin")
  /\ \E c \in idle[v] :
       /\ idle' = [idle EXCEPT ![v] = @ \ {c}]
       /\ job' = [job EXCEPT ![v].pc = "first", ![v].c = c]
  /\ UNCHANGED <<db, con, login, client, torn, count>>

\* MysqlDao::AddFriend takes a connection and turns its autocommit off.
Begin(v) ==
  /\ At(v, "auth", "begin")
  /\ \E c \in idle[v] :
       /\ idle' = [idle EXCEPT ![v] = @ \ {c}]
       /\ con' = [con EXCEPT ![v][c].manual = TRUE]
       /\ job' = [job EXCEPT ![v].pc = "first", ![v].c = c]
  /\ UNCHANGED <<db, login, client, torn, count>>

FriendRow(v) ==
  IF job[v].pc = "first" THEN <<"friend", job[v].u, job[v].w>>
                         ELSE <<"friend", job[v].w, job[v].u>>

\* Mutant of InsertFriend: the row of the applicant is left out.
InsertFriendOnce(v) ==
  /\ At(v, "auth", "first")
  /\ Write(v, job[v].c, FriendRow(v), {FriendRow(v)})
  /\ Goto(v, "commit")
  /\ UNCHANGED <<idle, login, client, torn, logins>>

\* The two INSERT IGNOREs, for the user who accepts and for the applicant.
InsertFriend(v) ==
  /\ At(v, "auth", "first") \/ At(v, "auth", "second")
  /\ Write(v, job[v].c, FriendRow(v), {FriendRow(v)})
  /\ Goto(v, IF job[v].pc = "first" THEN "second" ELSE "commit")
  /\ UNCHANGED <<idle, login, client, torn, logins>>

\* AddFriend ends and gives its connection back.
Released(v) ==
  /\ idle' = [idle EXCEPT ![v] = @ \cup {job[v].c}]
  /\ job' = [job EXCEPT ![v].pc = "lookup", ![v].c = None]

\* Mutant of Commit: the connection goes back without it.
CommitMissing(v) ==
  /\ At(v, "auth", "commit")
  /\ Released(v)
  /\ UNCHANGED <<db, con, login, client, torn, count>>

Commit(v) ==
  /\ At(v, "auth", "commit")
  /\ db' = db \cup con[v][job[v].c].dirty
  /\ con' = Ended(v, job[v].c)
  /\ Released(v)
  /\ UNCHANGED <<login, client, torn, count>>

\* Mutants of Rollback: the exception is handled without it, or the connection is
\* not given back.
RollbackMissing(v) ==
  /\ At(v, "auth", "first") \/ At(v, "auth", "second")
  /\ Throws(v, job[v].c, FriendRow(v))
  /\ torn' = torn \cup {Pair(v)}
  /\ Released(v)
  /\ UNCHANGED <<db, con, login, client, logins>>

RollbackLeaking(v) ==
  /\ At(v, "auth", "first") \/ At(v, "auth", "second")
  /\ Throws(v, job[v].c, FriendRow(v))
  /\ con' = Ended(v, job[v].c)
  /\ torn' = torn \cup {Pair(v)}
  /\ Goto(v, "lookup")
  /\ UNCHANGED <<db, idle, login, client, logins>>

\* An INSERT of AddFriend throws: the whole transaction is rolled back, with what
\* earlier requests left in it, and false is returned, which nobody looks at.
Rollback(v) ==
  /\ At(v, "auth", "first") \/ At(v, "auth", "second")
  /\ Throws(v, job[v].c, FriendRow(v))
  /\ con' = Ended(v, job[v].c)
  /\ torn' = torn \cup {Pair(v)}
  /\ Released(v)
  /\ UNCHANGED <<db, login, client, logins>>

-----------------------------------------------------------------------------
(* Notification and answer *)

\* The notification for w reaches his client when server s has his session.
Told(w, s) == s # None /\ w \in bound[s] /\ at[w] = s

Answered(v) == at[job[v].u] = v

\* The handler notifies through server s (None: nobody) and answers last (Defer);
\* the clients show what reaches them.
AnswerApply(v, s) ==
  /\ job[v].op = "apply"
  /\ known' = known \cup (IF Told(job[v].w, s) THEN {Pair(v)} ELSE {})
  /\ acked' = acked \cup (IF Answered(v) THEN {Pair(v)} ELSE {})
  /\ UNCHANGED shown

AnswerAuth(v, s) ==
  /\ job[v].op = "auth"
  /\ shown' = shown \cup (IF Told(job[v].w, s) THEN {<<job[v].w, job[v].u>>} ELSE {})
                    \cup (IF Answered(v) THEN {Pair(v)} ELSE {})
  /\ UNCHANGED <<known, acked>>

Done(v, s) ==
  /\ AnswerApply(v, s) \/ AnswerAuth(v, s)
  /\ job' = [job EXCEPT ![v] = None]
  /\ UNCHANGED <<db, con, idle, login, torn, logins>>

AtLookup(v) == job[v] # None /\ job[v].pc = "lookup"

\* The other user is not registered, or registered at this server.
LookupHere(v) ==
  /\ AtLookup(v) /\ reg[job[v].w] \in {None, v}
  /\ Done(v, reg[job[v].w])
  /\ UNCHANGED failures

LookupPeer(v) ==
  /\ AtLookup(v) /\ reg[job[v].w] \notin {None, v}
  /\ job' = [job EXCEPT ![v].pc = "rpc", ![v].to = reg[job[v].w]]
  /\ UNCHANGED <<db, con, idle, login, client, torn, count>>

\* NotifyAddFriend and NotifyAuthFriend at the peer; a failing call is ignored.
Rpc(v, op) ==
  /\ At(v, op, "rpc")
  /\ \/ Done(v, job[v].to) /\ UNCHANGED failures
     \/ Done(v, None) /\ Fault("rpc_lost")

RpcApply(v) == Rpc(v, "apply")
RpcAuth(v)  == Rpc(v, "auth")

-----------------------------------------------------------------------------
(* Login: the lists are read first, the user is registered afterwards *)

\* The rows that GetApplyList and GetFriendList find for u in S.
ApplyList(u, S)  == {r \in S : r[1] # "friend" /\ r[3] = u}
FriendList(u, S) == {r \in S : r[1] = "friend" /\ r[2] = u}

ReadApplies(v) ==
  /\ At(v, "login", "sql")
  /\ \E c \in idle[v] : \E S \in Visible(v, c) :
       job' = [job EXCEPT ![v].pc = "friends", ![v].seen = ApplyList(job[v].u, S)]
  /\ UNCHANGED <<db, con, idle, login, client, torn, count>>

\* GetFriendList reads each friend's user record through a second connection
\* while it holds its own.
ReadFriends(v) ==
  /\ At(v, "login", "friends")
  /\ \E c \in idle[v] : \E S \in Visible(v, c) :
       LET R == FriendList(job[v].u, S)
       IN  /\ R # {} => idle[v] # {c}
           /\ job' = [job EXCEPT ![v].pc = "register", ![v].seen = @ \cup R]
  /\ UNCHANGED <<db, con, idle, login, client, torn, count>>

\* What the client shows after its login answer, which holds the rows S.
Shows(u, S) ==
  /\ known' = {p \in known : p[2] # u} \cup
              {p \in Ask : p[2] = u /\ <<"asked", p[1], u>> \in S /\ <<"agreed", p[1], u>> \notin S}
  /\ shown' = {p \in shown : p[1] # u} \cup
              {p \in {u} \X User : <<"friend", u, p[2]>> \in S}
  /\ UNCHANGED acked

LoggedIn(v) ==
  /\ At(v, "login", "register")
  /\ reg' = [reg EXCEPT ![job[v].u] = v]
  /\ at' = [at EXCEPT ![job[v].u] = v]
  /\ Shows(job[v].u, job[v].seen)
  /\ job' = [job EXCEPT ![v] = None]
  /\ UNCHANGED <<db, con, idle, torn, count>>

\* ChatServer: the session registered elsewhere is kicked (module LoginSession
\* has the steps, the lock and the failures of this section).
Register(v) ==
  LET u == job[v].u
      Kicked(s) == s = reg[u] /\ s # v
  IN  /\ v \notin Old
      /\ LoggedIn(v)
      /\ owner' = [owner EXCEPT ![u] = v]
      /\ bound' = [s \in Server |-> IF s = v THEN bound[s] \cup {u}
                                    ELSE IF Kicked(s) THEN bound[s] \ {u} ELSE bound[s]]

\* ChatServer_2 kicks nobody and writes uip_ only.
OldRegister(v) ==
  /\ v \in Old
  /\ LoggedIn(v)
  /\ bound' = [bound EXCEPT ![v] = @ \cup {job[v].u}]
  /\ UNCHANGED owner

\* The client goes offline; its session is cleaned up later.
Disconnect(u) ==
  /\ at[u] # None
  /\ at' = [at EXCEPT ![u] = None]
  /\ known' = {p \in known : p[2] # u}
  /\ shown' = {p \in shown : p[1] # u}
  /\ UNCHANGED <<db, con, idle, job, reg, owner, bound, acked, torn, count>>

\* Mutant of Cleanup: usession_ is not compared.
CleanupUncompared(v, u) ==
  /\ u \in bound[v] /\ at[u] # v
  /\ bound' = [bound EXCEPT ![v] = @ \ {u}]
  /\ reg' = [reg EXCEPT ![u] = None] /\ owner' = [owner EXCEPT ![u] = None]
  /\ UNCHANGED <<db, con, idle, job, at, client, torn, count>>

\* DealExceptionSession of both servers: the registration is deleted when
\* usession_ names this session, which it never does for one of ChatServer_2.
Cleanup(v, u) ==
  /\ u \in bound[v] /\ at[u] # v
  /\ bound' = [bound EXCEPT ![v] = @ \ {u}]
  /\ IF owner[u] = v
     THEN reg' = [reg EXCEPT ![u] = None] /\ owner' = [owner EXCEPT ![u] = None]
     ELSE UNCHANGED <<reg, owner>>
  /\ UNCHANGED <<db, con, idle, job, at, client, torn, count>>

-----------------------------------------------------------------------------
(* Failures *)

InAddFriend(v) ==
  job[v] # None /\ job[v].op = "auth" /\ job[v].pc \in {"sql", "begin", "first", "second", "commit"}

\* A MySQL connection in the pool breaks: its transaction is rolled back and the
\* pool replaces it by a new one, which has autocommit on.
LoseCon(v, c) ==
  /\ Fault("con_lost") /\ c \in idle[v] /\ con[v][c] # Fresh
  /\ con' = [con EXCEPT ![v][c] = Fresh]
  /\ UNCHANGED <<db, idle, job, login, client, torn, logins>>

\* The process dies; a rollback that throws in the handler of AddFriend's exception
\* ends it too.
Crash(v) ==
  /\ \/ Fault("crash")
     \/ Fault("con_lost") /\ job[v] # None /\ job[v].c # None
  /\ con' = [con EXCEPT ![v] = [c \in Conn |-> Fresh]]
  /\ idle' = [idle EXCEPT ![v] = Conn]
  /\ job' = [job EXCEPT ![v] = None]
  /\ bound' = [bound EXCEPT ![v] = {}]
  /\ at' = [u \in User |-> IF at[u] = v THEN None ELSE at[u]]
  /\ known' = {p \in known : at[p[2]] # v}
  /\ shown' = {p \in shown : at[p[1]] # v}
  /\ torn' = torn \cup (IF InAddFriend(v) THEN {Pair(v)} ELSE {})
  /\ UNCHANGED <<db, reg, owner, acked, logins>>

-----------------------------------------------------------------------------
\* The logic thread of v takes the next step of its request.
Serve(v) ==
  \/ WriteApply(v) \/ WriteAuth(v) \/ Begin(v) \/ InsertFriend(v) \/ Commit(v) \/ Rollback(v)
  \/ LookupHere(v) \/ LookupPeer(v) \/ RpcApply(v) \/ RpcAuth(v)
  \/ ReadApplies(v) \/ ReadFriends(v) \/ Register(v) \/ OldRegister(v)

Next ==
  \/ \E v \in Server : Serve(v) \/ Crash(v) \/ \E c \in Conn : LoseCon(v, c)
  \/ \E v \in Server, u \in User : RecvLogin(v, u) \/ Cleanup(v, u)
  \/ \E v \in Server, p \in Ask : RecvApply(v, p[1], p[2]) \/ RecvAuth(v, p[2], p[1])
  \/ \E u \in User : Disconnect(u)

Spec == Init /\ [][Next]_vars

-----------------------------------------------------------------------------
(* Properties *)

\* Every variable has its type; a connection is in the pool or with AddFriend, and
\* what is not committed is locked.
TypeOK ==
  /\ db \subseteq Row
  /\ \A v \in Server :
       /\ idle[v] = Conn \ (IF job[v] = None THEN {} ELSE {job[v].c})
       /\ bound[v] \subseteq User
       /\ \A c \in Conn :
            LET k == con[v][c]
            IN  /\ k.dirty \subseteq Row /\ {Key(r) : r \in k.dirty} \subseteq k.locks
                /\ ~k.manual => k = Fresh
  /\ reg \in [User -> Server \cup {None}] /\ owner \in [User -> Server \cup {None}]
  /\ at \in [User -> Server \cup {None}]
  /\ known \subseteq Ask /\ shown \subseteq User \X User
  /\ acked \subseteq Ask /\ torn \subseteq User \X User

\* A friendship is in the database for both users or for neither, whatever fails.
FriendsMutual ==
  \A u, w \in User : <<"friend", u, w>> \in db => <<"friend", w, u>> \in db

Excused(u, w) == <<u, w>> \in torn \/ <<w, u>> \in torn

\* Whom a client shows as a friend is one in the database, for both, unless an
\* AddFriend of the two failed: the answer and the notification do not look at it.
ShownAreFriends ==
  \A p \in shown : Both(p) \subseteq db \/ Excused(p[1], p[2])

\* Adding two rows in two calls may leave an application accepted that made nobody
\* friends, but only if AddFriend failed or is still to come.
AgreedAreFriends ==
  \A p \in Ask :
    <<"agreed", p[1], p[2]>> \in db =>
      \/ Both(p) \subseteq db
      \/ Excused(p[1], p[2])
      \/ \E v \in Server : InAddFriend(v) /\ Pair(v) = <<p[2], p[1]>>

\* Mixed with servers that register and clean up the old way, a user who is online
\* at a ChatServer stays registered there.
NewStaysRegistered ==
  \A u \in User : at[u] \in Server \ Old => reg[u] = at[u]

\* AddFriend gives no connection back that still locks rows of the friend table,
\* however it ended.
FriendRowsUnlocked ==
  \A v \in Server : \A c \in idle[v] : \A k \in con[v][c].locks : k[1] # "friend"

\* An application answered with Success is stored (LogicSystem.cpp:370: the
\* database is updated first).
AckedStored == \A p \in acked : <<"asked", p[1], p[2]>> \in db

\* The logic thread of a server can always go on with its request: it never waits
\* for a connection that nobody gives back (GetFriendList needs two at a time), nor
\* for a row lock without end.
LogicGoesOn == \A v \in Server : job[v] # None => ENABLED Serve(v)
=============================================================================
