------------------------------ MODULE Entrance ------------------------------
(***************************************************************************)
(* The way of a user into the system.  GetServer answers HTTP requests for *)
(* a code, a registration, a new password and a login; it calls the        *)
(* VarifyServer (VarifyCodes) and the StatusServer (StatusService), reads  *)
(* the codes in Redis and the users in MySQL.  With the token of a login   *)
(* the client goes to a ChatServer, which reads profiles through a cache   *)
(* in Redis that user searches use too.                                    *)
(*                                                                         *)
(* Handlers run on the io threads, several at a time; a step is one access *)
(* to another process or to the pool of MySQL connections.  The uid of a   *)
(* user is his name.  A request is a record: its kind, user, e-mail and    *)
(* password.                                                               *)
(***************************************************************************)
EXTENDS StatusService, FiniteSets

CONSTANTS
    Email,
    Pwd,
    PoolSize,       \* connections of GetServer's MySqlPool (5 in the code)
    FailureLimit,   \* bound on the failures
    Scenarios       \* [plan: what each request asks, rows: who is registered, faults: what
                    \* may fail or change]

ASSUME PoolAssumption     == PoolSize \in Nat /\ FailureLimit \in Nat
ASSUME RequestAssumption  == IsFiniteSet(Request)
ASSUME RowAssumption      == None \notin [email: Email, pwd: Pwd]
ASSUME ScenarioAssumption ==
    \A s \in Scenarios :
        /\ s.plan \in [Request -> [kind: {"code", "register", "reset", "login", "search"},
                                   user: User, email: Email, pwd: Pwd]]
        /\ s.rows \in [User -> [email: Email, pwd: Pwd] \cup {None}]

VARIABLES
    code, mails, varify,    \* of VarifyCodes
    plan,       \* plan[r]: the request
    faults,     \* the kinds of failures that may happen
    failures,   \* how many have
    db,         \* table user: db[u] is None or e-mail and password
    free,       \* idle connections of the pool
    leaked,     \* history: connections that were never returned
    gate,       \* gate[r]: pc, holding a connection?, the code typed, the answer; at the
                \* ChatServer the key in the cache and the row found
    profile     \* Redis: ubaseinfo_<uid> and nameinfo_<name>: None or a row

INSTANCE VarifyCodes

codeVars == <<code, mails, varify>>
reqVars == <<free, leaked, gate>>
vars == <<codeVars, statusVars, plan, faults, failures, db, reqVars, profile>>

Key == {"uid", "name"} \X User

Init ==
    \E s \in Scenarios :
        /\ plan = s.plan /\ faults = s.faults /\ db = s.rows
        /\ VarifyInit /\ StatusInit
        /\ failures = 0
        /\ free = PoolSize /\ leaked = 0
        /\ gate = [r \in Request |-> [pc |-> "new", con |-> FALSE, typed |-> None, answer |-> None,
                                   key |-> None, row |-> None]]
        /\ profile = [k \in Key |-> None]

\* A call succeeds, or it fails if f may fail still.
Outcome(f) == IF f \in faults /\ failures < FailureLimit THEN BOOLEAN ELSE {TRUE}
Count(ok)  == failures' = IF ok THEN failures ELSE failures + 1

At(r, p) == gate[r].pc = p
To(r, p) == gate' = [gate EXCEPT ![r].pc = p]

\* The answer is put into the response.
Reply(r, a) == gate' = [gate EXCEPT ![r].pc = "write", ![r].answer = a]

User_(r) == plan[r].user
Mail_(r) == plan[r].email
Row(r)   == [email |-> Mail_(r), pwd |-> plan[r].pwd]

others == <<plan, faults>>

-----------------------------------------------------------------------------
(* HttpConnection.                                                          *)

\* HandelReq of a POST: the handler of its url starts. A body that is no JSON is refused,
\* and so is a registration whose two passwords differ.
Receive(r) ==
    /\ At(r, "new") /\ plan[r].kind # "search"
    /\ \/ Reply(r, "json") /\ "client" \in faults
       \/ plan[r].kind = "code" /\ To(r, "varify")
       \/ plan[r].kind = "login" /\ To(r, "check_pwd")
       \/ plan[r].kind = "reset" /\ To(r, "code")
       \/ plan[r].kind = "register" /\ To(r, "code")
       \/ plan[r].kind = "register" /\ Reply(r, "confirm") /\ "client" \in faults
    /\ UNCHANGED <<codeVars, statusVars, others, failures, db, free, leaked, profile>>

\* WriteResponse: the client gets the answer, unless the deadline, which runs since the
\* connection object was made, closes the socket first.
WriteResponse(r) ==
    /\ At(r, "write")
    /\ \E ok \in Outcome("deadline") :
        /\ To(r, IF ~ok THEN "cut" ELSE IF gate[r].answer = "token" THEN "chat" ELSE "end")
        /\ Count(ok)
    /\ UNCHANGED <<codeVars, statusVars, others, db, free, leaked, profile>>

-----------------------------------------------------------------------------
(* /get_varifycode.                                                         *)

\* The call: a lost one is an error for GetServer, VarifyServer goes on with it.
CallVarify(r) ==
    /\ At(r, "varify") /\ VarifyAt(r, "idle")
    /\ VarifyCall(r, Mail_(r))
    /\ UNCHANGED <<statusVars, others, failures, db, reqVars, profile>>

VarifyAnswer(r) ==
    /\ At(r, "varify")
    /\ \/ /\ VarifyAt(r, "done")
          /\ Reply(r, IF varify[r].error THEN "varify" ELSE "ok")
          /\ UNCHANGED failures
       \/ ~VarifyAt(r, "done") /\ FALSE \in Outcome("rpc") /\ Reply(r, "rpc") /\ Count(FALSE)
    /\ UNCHANGED <<codeVars, statusVars, others, db, free, leaked, profile>>

VarifyRuns(r) ==
    /\ \E ok \in Outcome(IF VarifyAt(r, "mail") THEN "mail" ELSE "redis") :
          VarifyStep(r, ok) /\ Count(ok)
    /\ UNCHANGED <<statusVars, others, db, reqVars, profile>>

-----------------------------------------------------------------------------
(* MySqlPool and MysqlDao.                                                  *)

DbPc == {"reg_user", "check_email", "update_pwd", "check_pwd"}

\* getConnection, which waits as long as the pool is empty.
GetConnection(r) ==
    /\ gate[r].pc \in DbPc /\ ~gate[r].con /\ free > 0
    /\ free' = free - 1
    /\ gate' = [gate EXCEPT ![r].con = TRUE]
    /\ UNCHANGED <<codeVars, statusVars, others, failures, db, leaked, profile>>

\* A statement of request r: the connection goes back and the handler to p, with answer a
\* where that is "write".
Returned(r, p, a) ==
    /\ free' = free + 1 /\ UNCHANGED leaked
    /\ gate' = [gate EXCEPT ![r].con = FALSE, ![r].pc = p, ![r].answer = a]

\* The mailed code that the client types, or one he was not sent.
Typed == (UNION {mails[e] : e \in Email}) \cup {None}

Accept(r, c) ==
    gate' = [gate EXCEPT ![r].typed = c,
                         ![r].pc = IF plan[r].kind = "register" THEN "reg_user" ELSE "check_email"]

\* Mutant: the handlers do not look whose code it is.
CheckAnyCode(r) ==
    /\ At(r, "code")
    /\ \E c \in Typed : Accept(r, c)
    /\ UNCHANGED <<codeVars, statusVars, others, failures, db, free, leaked, profile>>

\* RedisMgr::Get: a missing key and a failed command are the same.
CodeRead(r, ok) == IF ok THEN code[Mail_(r)] ELSE None

\* The code of /user_register and /reset_pwd: missing, wrong, or right.
CheckCode(r) ==
    /\ At(r, "code")
    /\ \E ok \in Outcome("redis"), c \in Typed :
        LET found == CodeRead(r, ok)
        IN  /\ Count(ok)
            /\ \/ found = None /\ Reply(r, "expired")
               \/ found # None /\ (IF c = found.id THEN Accept(r, c) ELSE Reply(r, "wrong"))
    /\ UNCHANGED <<codeVars, statusVars, others, db, free, leaked, profile>>

Owner(e) == {u \in User : db[u] # None /\ db[u].email = e}

\* Procedure reg_user, as RegUser uses it: no two users with a name or an e-mail.
Taken(r) == db[User_(r)] # None \/ Owner(Mail_(r)) # {}

\* An exception is answered with -1, even if the procedure has run.
RegUser(r) ==
    /\ At(r, "reg_user") /\ gate[r].con
    /\ \E ok \in Outcome("sql"), ran \in BOOLEAN :
        /\ Count(ok)
        /\ db' = IF Taken(r) \/ ~(ok \/ ran) THEN db ELSE [db EXCEPT ![User_(r)] = Row(r)]
        /\ Returned(r, "write", IF ok /\ ~Taken(r) THEN "ok" ELSE "exists")
    /\ UNCHANGED <<codeVars, statusVars, others, profile>>

\* A name without a row returns without returning the connection.
CheckEmail(r) ==
    /\ At(r, "check_email") /\ gate[r].con
    /\ \E ok \in Outcome("sql") :
        /\ Count(ok)
        /\ \/ ~ok /\ Returned(r, "write", "email")
           \/ /\ ok /\ db[User_(r)] = None
              /\ gate' = [gate EXCEPT ![r].con = FALSE, ![r].pc = "write", ![r].answer = "email"]
              /\ leaked' = leaked + 1 /\ UNCHANGED free
           \/ /\ ok /\ db[User_(r)] # None
              /\ IF db[User_(r)].email = Mail_(r) THEN Returned(r, "update_pwd", None)
                 ELSE Returned(r, "write", "email")
    /\ UNCHANGED <<codeVars, statusVars, others, db, profile>>

\* An UPDATE of no row is a success, too.
UpdatePwd(r) ==
    /\ At(r, "update_pwd") /\ gate[r].con
    /\ \E ok \in Outcome("sql"), ran \in BOOLEAN :
        /\ Count(ok)
        /\ db' = IF db[User_(r)] # None /\ (ok \/ ran)
                 THEN [db EXCEPT ![User_(r)].pwd = plan[r].pwd] ELSE db
        /\ Returned(r, "write", IF ok THEN "ok" ELSE "update")
    /\ UNCHANGED <<codeVars, statusVars, others, profile>>

PwdRight(r) == \E u \in Owner(Mail_(r)) : db[u].pwd = plan[r].pwd

\* Mutant: the early return of a wrong password keeps the connection.
CheckPwdKeeps(r) ==
    /\ At(r, "check_pwd") /\ gate[r].con
    /\ IF PwdRight(r) THEN Returned(r, "status", None)
       ELSE /\ gate' = [gate EXCEPT ![r].con = FALSE, ![r].pc = "write", ![r].answer = "password"]
            /\ UNCHANGED <<free, leaked>>
    /\ UNCHANGED <<codeVars, statusVars, others, failures, db, profile>>

\* /user_login: the password of the user with this e-mail.
CheckPwd(r) ==
    /\ At(r, "check_pwd") /\ gate[r].con
    /\ \E ok \in Outcome("sql") :
        /\ Count(ok)
        /\ IF ok /\ PwdRight(r) THEN Returned(r, "status", None)
           ELSE Returned(r, "write", "password")
    /\ UNCHANGED <<codeVars, statusVars, others, db, profile>>

-----------------------------------------------------------------------------
(* /user_login: the ChatServer and the token.                               *)

CallStatus(r) ==
    /\ At(r, "status") /\ StatusAt(r, "idle")
    /\ \E u \in Owner(Mail_(r)) : StatusCall(r, u)
    /\ UNCHANGED <<codeVars, others, failures, db, reqVars, profile>>

StatusAnswer(r) ==
    /\ At(r, "status")
    /\ \/ /\ StatusAt(r, "done")
          /\ Reply(r, IF status[r].error THEN "rpc" ELSE "token")
          /\ UNCHANGED failures
       \/ ~StatusAt(r, "done") /\ FALSE \in Outcome("rpc") /\ Reply(r, "rpc") /\ Count(FALSE)
    /\ UNCHANGED <<codeVars, statusVars, others, db, free, leaked, profile>>

StatusRuns(r) ==
    /\ \/ \E ok \in Outcome("redis") : StatusStep(r, ok) /\ Count(ok)
       \/ (ChooseStart(r) \/ ChooseEnd(r)) /\ UNCHANGED failures
    /\ UNCHANGED <<codeVars, others, db, reqVars, profile>>

-----------------------------------------------------------------------------
(* The ChatServer: token and profile.                                       *)

\* LoginHandler up to the profile, on the server of the answer if that still runs.
CheckToken(r) ==
    LET u == status[r].user
        t == token[u]
    IN  /\ At(r, "chat")
        /\ \E ok \in Outcome("redis") :
            /\ Count(ok)
            /\ gate' = [gate EXCEPT ![r] =
                  IF status[r].best.server \notin alive THEN [@ EXCEPT !.pc = "end"]
                  ELSE IF ~ok \/ t = None \/ t.id # r THEN [@ EXCEPT !.pc = "end", !.answer = "refused"]
                  ELSE [@ EXCEPT !.pc = "cache", !.key = <<"uid", u>>]]
        /\ UNCHANGED <<codeVars, statusVars, others, db, free, leaked, profile>>

\* The servers of both kinds have these handlers, which share the cache.
SearchBy(r, by) ==
    /\ At(r, "new") /\ plan[r].kind = "search"
    /\ gate' = [gate EXCEPT ![r].pc = "cache", ![r].key = <<by, User_(r)>>]

\* SearchInfo: what looks like a number is a uid, anything else a name.
Search(r) ==
    /\ alive # {} /\ (SearchBy(r, "uid") \/ SearchBy(r, "name"))
    /\ UNCHANGED <<codeVars, statusVars, others, failures, db, free, leaked, profile>>

\* No text and more digits than an int has make stoi throw on the logic thread, unless
\* the cache has this key: the server is gone.
SearchNumber(r) ==
    /\ At(r, "new") /\ plan[r].kind = "search" /\ FALSE \in Outcome("client") /\ Count(FALSE)
    /\ To(r, "end")
    /\ \E v \in alive : ServerCrash(v)
    /\ UNCHANGED <<codeVars, others, db, free, leaked, profile>>

\* What a request finds under a key, by uid (GetBaseInfo, GetUserByUid) or by name
\* (GetUserByName): in the cache, and else in the table.
Cached(k, ok)  == IF ok THEN profile[k] ELSE None
GetUser(k, ok) == IF ok THEN db[k[2]] ELSE None

\* The first of the two reads that has a row; a search ends after a hit.
ReadCache(r) ==
    /\ At(r, "cache")
    /\ \E ok \in Outcome("redis") :
        /\ Count(ok)
        /\ IF Cached(gate[r].key, ok) # None
           THEN gate' = [gate EXCEPT ![r].pc = "end", ![r].row = Cached(gate[r].key, ok)]
           ELSE To(r, "user")
    /\ UNCHANGED <<codeVars, statusVars, others, db, free, leaked, profile>>

ReadTable(r) ==
    /\ At(r, "user")
    /\ \E ok \in Outcome("sql") :
        /\ Count(ok)
        /\ gate' = IF GetUser(gate[r].key, ok) # None
                   THEN [gate EXCEPT ![r].pc = "fill", ![r].row = GetUser(gate[r].key, ok)]
                   ELSE [gate EXCEPT ![r].pc = "end", ![r].answer = "unknown"]
    /\ UNCHANGED <<codeVars, statusVars, others, db, free, leaked, profile>>

\* Set without a TTL.
Filled(k, row, ok) ==
    {[profile EXCEPT ![k] = row]} \cup (IF ok THEN {} ELSE {profile})

FillCache(r) ==
    /\ At(r, "fill") /\ To(r, "end")
    /\ \E ok \in Outcome("redis") :
          Count(ok) /\ profile' \in Filled(gate[r].key, gate[r].row, ok)
    /\ UNCHANGED <<codeVars, statusVars, others, db, free, leaked>>

-----------------------------------------------------------------------------
ServerStep ==
    /\ \E v \in Server :
          \/ "count" \in faults /\ \E n \in 0..MaxCount : OnTimer(v, n)
          \/ "count" \in faults /\ CountGone(v)
          \/ "crash" \in faults
                /\ (ServerStart(v) \/ ServerStop(v) \/ OldStartStop(v) \/ ServerCrash(v))
    /\ UNCHANGED <<codeVars, others, failures, db, reqVars, profile>>

KeyStep ==
    /\ "time" \in faults
    /\ \/ (\E e \in Email : CodeGone(e)) /\ UNCHANGED statusVars
       \/ (\E u \in User : TokenGone(u)) /\ UNCHANGED codeVars
    /\ UNCHANGED <<others, failures, db, reqVars, profile>>

GateStep(r) ==
    \/ WriteResponse(r) \/ CallVarify(r) \/ VarifyAnswer(r) \/ GetConnection(r)
    \/ CheckCode(r) \/ RegUser(r) \/ CheckEmail(r) \/ UpdatePwd(r) \/ CheckPwd(r)
    \/ CallStatus(r) \/ StatusAnswer(r)

ChatStep(r) == CheckToken(r) \/ ReadCache(r) \/ ReadTable(r) \/ FillCache(r)

Work(r) == GateStep(r) \/ VarifyRuns(r) \/ StatusRuns(r) \/ ChatStep(r)

Next ==
    \/ \E r \in Request : Receive(r) \/ Search(r) \/ SearchNumber(r) \/ Work(r)
    \/ ServerStep \/ KeyStep

Spec == Init /\ [][Next]_vars

\* The threads of the servers go on with what they can go on with. No client has to ask.
FairSpec == Spec /\ WF_vars(\E r \in Request : Work(r))

-----------------------------------------------------------------------------
(* Properties.                                                              *)

RowOrNone == [email: Email, pwd: Pwd] \cup {None}

TypeOK ==
    /\ VarifyTypeOK /\ StatusTypeOK
    /\ db \in [User -> RowOrNone] /\ profile \in [Key -> RowOrNone]
    /\ free \in 0..PoolSize /\ leaked \in 0..PoolSize
    /\ failures \in 0..FailureLimit

\* A user's row appears or changes only by a request with a code that the VarifyServer
\* mailed to the e-mail of that row, whatever calls for codes and whatever requests with
\* other names and e-mails go on at the same time.
ProvenMailbox ==
    [][\A u \in User : db'[u] # db[u] =>
          \E r \in Request : gate[r].con /\ gate[r].typed \in mails[db'[u].email]]_vars

\* No code and no token stays for ever: one that has no TTL is about to get it, by the
\* call that set it or by one that set it again (Set and Expire are two commands).
KeysExpire ==
    "redis" \notin faults =>
        /\ \A e \in Email : code[e] # None /\ ~code[e].ttl =>
              \E r \in Request : VarifyAt(r, "expire") /\ varify[r].email = e
        /\ \A u \in User : token[u] # None /\ ~token[u].ttl =>
              \E r \in Request : StatusAt(r, "expire") /\ status[r].user = u

\* Every connection of the pool is idle, used by one request, or lost by a request for
\* a name that nobody has.
PoolAccounted ==
    free + leaked + Cardinality({r \in Request : gate[r].con}) = PoolSize

InProgress(r) == gate[r].pc \in DbPc \cup {"code", "varify", "status", "write"}

\* Every HTTP request that has come in is answered or cut off, unless all connections
\* are lost: the requests being few, there is always a time when none is in progress.
Answered == []<>(leaked = PoolSize \/ \A r \in Request : ~InProgress(r))
=============================================================================
