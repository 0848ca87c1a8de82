# Verification of soulchatServer in TLA+

This directory models the distributed chat backend of this repository in TLA+,
checks the models with TLC and proves their theorems with TLAPS. Paths below are
relative to `src/`; line numbers refer to `ChatServer/src/` unless a path says
otherwise.

## 1. The system

A client asks **GetServer** (HTTP) for a verification code, to register, to reset
a password and to log in. Codes come from **VarifyServer** (node.js, gRPC), which
keeps them in Redis and mails them; for a login GetServer asks **StatusServer**
(gRPC) for the ChatServer with the fewest sessions and a token. The client then
keeps one TCP connection to that **ChatServer**. ChatServers share Redis and
MySQL and call each other over gRPC to kick a user that logged in elsewhere and to
push messages and friend notifications to a user that is connected to a peer.
**ChatServer_2** is an older copy of ChatServer, without the login lock, the kick,
persistence and history; both kinds may run side by side.

Inside a ChatServer, io threads read frames of a session (`CSession`) and post
them to one queue; one logic thread (`LogicSystem::DealMsg`) runs the handlers and
answers through the send queue of a session; gRPC threads use the same send queues.
A timer closes silent sessions. Every process has pools of Redis and MySQL
connections with a check thread each.

### Inventory

| component (files) | state | operations | what is hard | what makes it correct | module |
|---|---|---|---|---|---|
| login and session registry (`LogicSystem.cpp` LoginHandler, `CServer.cpp`, `UserMgr.cpp`, `CSession.cpp` DealExceptionSession, `ChatServiceImpl.cpp` NotifyKickUser) | `_sessions`, `_uid_to_session`, a session's `_user_uid`; Redis `uip_<uid>`, `usession_<uid>` | accept, login, kick here or at a peer, cleanup after read/write errors, heartbeat timer | logins at two servers at once; a cleanup racing the next login; crashes; TTLs; lost kicks; queued logins of dead connections | one live login per user; Redis names it; a cleanup never unregisters somebody else; logins end | `LoginSession`, `Seat` |
| distributed lock (`DistLock.cpp`, `RedisMgr.cpp`) | Redis `lock:<key>` with an identifier and a TTL | acquireLock (spin with a deadline), releaseLock (Lua compare and delete) | holder crashes, TTL ends inside a section, deadline passes | mutual exclusion while no TTL ends early; no lock for ever | `LoginSession` |
| text messages (`LogicSystem.cpp` DealChatTextMsg, DealMsgHistoryReq and the end of LoginHandler, `MysqlDao.cpp`, NotifyTextChatMsg) | Redis `conv_seq_<conv>`; MySQL `messages`, `user_msg_cursor` | number, save, look up, push or call the peer; pull behind the cursor at login; history pages | push racing login and disconnect; partial failure of a request; repeated requests; stale registrations | what is acknowledged is saved and reaches the addressee once online; the pull skips nothing; paging shows all | `ChatDelivery`, `Mailbox` |
| framing, send queue and logic queue (`CSession.cpp`, `MsgNode.cpp`, `LogicSystem.cpp` PostMsgToQue, DealMsg, destructor) | read state, `_send_que`, `_msg_que`, `_b_stop` | AsyncReadHead/Body, Send, HandleWrite, post, deal, stop | Send from several threads; the limit; the mutex held during a handler; errors and stops between callbacks | one write at a time, of the front; nothing left lying; requests and frames in order, once | `SessionIO`, `Fifo` |
| friends (`LogicSystem.cpp` AddFriendApply, AuthFriendApply, GetFriendList; `MysqlDao.cpp`; the same of ChatServer_2) | MySQL `friend_apply`, `friend`; autocommit and locks of pooled connections | apply, authorise, add, notify, lists of a login | a transaction left open on a pooled connection; results ignored; lock waits; both kinds of servers | friendships are mutual; clients show real ones; no connection goes back with a lock on one | `Friends` |
| pools (`include/RedisMgr.h`, `include/MysqlDao.h`) | idle connections, `fail_count_`, `b_stop_` | get, return, check, reconnect, close | lost wake-ups; connections lost to errors; exhaustion | no connection in two hands; the pool recovers its size; waiters wake | `ConPool`, `MySqlPool` |
| VarifyServer (`server.js`, `redis.js`, `email.js`) | Redis `code_<email>` | GetVarifyCode: get, set, expire, mail | awaits of two calls for one mailbox | a code counts only for its mailbox; no code stays for ever | `VarifyCodes` |
| StatusServer (`StatusServiceImpl.cpp`) and the counters of the ChatServers (`ChatServer.cpp`, `CServer.cpp` on_timer) | Redis `ipcount_<name>`, `utoken_<uid>` | GetChatServer, insertToken; start, timer and stop of a ChatServer | counts read one after the other while they change or expire | the choice is as good as any server that stood still; tokens end | `StatusService` |
| GetServer (`LogicSystem.cpp`, `MysqlDao.cpp`, `HttpConnection.cpp`) and the profile cache (`LogicSystem.cpp` GetBaseInfo, GetUserByUid/Name, SearchInfo) | MySQL `user`; connections of its pool; Redis `ubaseinfo_`, `nameinfo_` | four POST handlers, deadline; read through | concurrent requests, leaked connections, failures in the middle | a row changes only with a code mailed to its address; requests are answered | `Entrance` |
| start-up, configuration, `AsioIOServicePool`, `Singleton`, protocol files | - | - | - | - | no behaviour of their own; the end of main is in `SessionIO` |

## 2. Plan and where it stands

1. `LoginSession` with the abstract specification `Seat`; proofs
   `LoginSessionProofs`, `LoginSafetyProofs`: done.
2. `ChatDelivery` on top of a reduced login, with the abstract specification `Mailbox`;
   proofs `ChatDeliveryProofs` (what is stored, the refinement, the numbers) and
   `ChatArrivalProofs` (what arrives: `NeverSkipped`, `AckedSeen`): done.
3. `ConPool` and `MySqlPool` with the proofs `PoolProofs` of both: done. `ChatConPool` (the pool of gRPC
   stubs) has neither a check thread nor failures and is left out.
4. `SessionIO` with the abstract specification `Fifo`, proofs `SessionIOProofs`: done.
5. `Friends`, proofs `FriendsProofs`: done.
6. `VarifyCodes`, `StatusService` and their composition with GetServer and the
   profile cache in `Entrance`, proofs `EntranceProofs`: done.
7. Left: the text messages of ChatServer_2, which are pushed and never stored
   (nothing is promised of them that could fail), and `ChatConPool`. Of the proofs:
   every safety property of a run is a theorem but `LogicGoesOn`, which has an ENABLED,
   and the theorems about logins and messages exclude only failures that their
   properties do not survive (TLC finds a counterexample when one of them is let in).

There is one run per question. Proofs are in modules of their own, one or two per
component, next to the module they are about.

## 3. The modules

A step is one access to shared data: one Redis command, one SQL statement, one
call, one callback or what happens under one hold of a mutex. `None` is an absent
key, row or value. Failures are selected by a constant (`Faults`, `Profiles`,
`Scenarios`), so that a property can say under which of them it holds. Definitions
named as mutants in their comments are deliberate errors with which each property is
tested; they are in no next-state relation.

### LoginSession

One step is one access to a shared table or Redis key, on behalf of:

* the **logic thread** of a server (`logic[v]`, DealMsg runs one handler at a
  time): `LoginReject`, `LoginBegin` (SetUserId), `LoginAcquire`, `LoginCheck`
  (Get `uip_`), `LoginLookupOld`/`LoginClearOld` (the old session is here) or
  `LoginKicked` (NotifyKickUser at the peer has returned), `LoginSetIp`,
  `LoginSetSession`, `LoginBind`, `LoginRelease`;
* the **io threads**: `Accept`, `Insert` (HandleAccept's Start comes before the
  insert), `RecvLogin`, `ReadError`, `WriteError`, `BadFrame`, and a cleanup
  `Clean...` per session that follows DealExceptionSession call by call;
* the **timer**: `TimerScan`, `TimerCleanup`, with a cleanup of its own per
  session, which may run beside that of the io thread;
* the **gRPC threads** of a peer: `KickLookup`, `KickClear`, `KickLost`;
* **Redis**: `ExpireLock`, `ExpireRegistration`;
* `Crash`: a process dies and is started again; its tables are gone, what it
  wrote to Redis stays.

`Faults` selects failures. `Handled` are those the code survives (`crash`,
`write_error`, `bad_frame`, `heartbeat`, `relogin`); `Unhandled` are those after
which it goes on as if nothing had happened (`lock_timeout`: acquireLock's
result is not looked at; `lock_expiry`, `reg_expiry`: TTLs that end too early;
`kick_lost`).

Abstractions. `DealMsg` pops a node after its handler, the model before (nobody
else reads the front). `PostMsgToQue` blocks while a handler holds the queue's
mutex; a post that waits is a post that comes later. Each session's io handlers
run one at a time, as an io_context runs them; sessions are independent, though
two io threads carry them all. A bad frame is possible whatever CheckValid says.
Only login messages are queued: the other handlers do not touch this state.
Session ids are UUIDs, so a session is used once; when they have run out the
system stops, which is why the runs do not check for deadlock.

`Seat` is the abstract specification: a user's seat is empty or holds a session,
it is only taken when empty, and may be left at any time. `seat` in
`LoginSession` is the refinement mapping: the session a user is *live* with,
that is, bound in UserMgr and known to CServer.

### ChatDelivery and Mailbox

Users, two or more servers, the message tables, the registration of a user
(`reg`), its live session (`bound`, `up`), and per server the logic thread in
LoginHandler or DealChatTextMsg, plus the pushes peers are serving. The locked
section of a login is reduced to kick, registration, binding, pull and cursor,
one step each; that logins and cleanups of one user exclude each other is what
`LoginSession` establishes. That a user has one live session the reduction keeps:
`ChatDelivery` implements `Seat`, too, with the servers as its seats' holders
(`SeatSpec`). A request
(`DealBegin`) takes its number from Redis (`DealIncr`) and saves
(`DealSave`) message by message, then looks up the receiver (`DealLookup`) and
pushes here (`DealPush`) or at the peer (`RpcServe`, `RpcLost`, `DealReply`).
`sent`, `acked`, `got` and `left` record what clients know.

`Handled` are the failures the handlers allow for (crashes, repeated messages,
SQL errors); the others they ignore: `pull_fail`, `incr_fail`, `rpc_fail`,
`overtake` (a sender logs in elsewhere while its request is handled) and
`early_drop` (a connection lost during its login). Of these, `pull_fail` and
`rpc_fail` only put a message off to the next login: with the handled ones they are
`Deferring`. `OnlineHasAll` is what the comments promise whatever fails. Of it
`NeverSkipped` keeps, under `Deferring`, that no message falls behind the cursor, and
`AckedSeen`, under `Handled`, that an online user has what was acknowledged; both speak
of users whom one other writes to (`OneSender`). `HistoryComplete` needs `Incr` only: a
client that pages through a conversation, with pages of any length up to `MaxPage` (50
in `DealMsgHistoryReq`), sees all of it and meets no empty page before the end. Section
6 says what a second sender, `early_drop`, `incr_fail` and `overtake` do to
`OnlineHasAll`.

`Mailbox` is the abstract specification: a message is written for one pair of users,
stored for good, and only then confirmed to its sender or handed to its addressee, who
alone gets it. The rows of the table `messages` are what is stored; a request that
stores some messages and then fails, a repeated id, a push and a pull are steps of it,
whatever fails.

Left out: the message text; the reading of the cursor as a step of its own (only
the user's own logins write it); TTLs of online users (shown in `LoginSession`
to break its guarantees).

### SessionIO and Fifo

Per session the read loop (`reader`: `ReadFrame`, then `PostMsgToQue` when the
mutex is free; `ReadError`, `ReadInvalid`, `ReadBadHead` end it), the socket, the
send queue with the message that async_write has (`writes`) and a completed write
whose HandleWrite is still to run (`written`). `Send` is an operator, used by
the handlers (`DealHandle`) and by gRPC threads (`Push`). The logic thread is
`worker`: `DealLook` (mutex, predicate), `DealWait` (the mutex is released),
`DealHandle`, `DealUnknown`, `DealPop`; from its look on it has the mutex,
also while a handler runs, so `PostMsgToQue` waits. The first message of a queue is
notified, as the code does. `StopIo`, `JoinIo`, `StopLogic` are the end of main
and `~LogicSystem`; `_b_stop` is set without the mutex, so it may come between
`DealLook` and `DealWait`. A frame is its number, its size and the length in its
header, which is cut to 16 bits as SendNode does.

`Fifo` is what both queues promise: what was put in comes out once and in that order.
Its two instances are `Sending`, where a frame is out when it is on the wire
though HandleWrite pops it later (`Unwritten`), and `Requests`, where a request is
out when its handler has run though DealMsg pops it later (`Unhandled`).

Left out: bytes, partial reads (an async_read of the full length completes or fails),
the handlers' own steps (the other modules have them).

### Friends

Servers of both kinds (`Old` are ChatServer_2), the committed rows `db`, and per
server its pooled connections `con`. AddFriend turns the autocommit of its
connection off and nothing turns it on, so a connection carries `manual`,
uncommitted rows `dirty` and row `locks`; `Write` acts on the newest rows, queries
of such a connection may return an older snapshot (`Visible`); a statement on a row
that another transaction has locked waits and may fail (`Throws`), and the victim of
a deadlock loses its transaction (`Fails`). `job` is the request of the logic
thread: `RecvApply`/`RecvAuth`/`RecvLogin`, `WriteApply`, `WriteAuth`,
`Begin`, `InsertFriend`, `Commit` or `Rollback`, `LookupHere` or
`LookupPeer` and `Rpc...`, and for a login `ReadApplies`, `ReadFriends`,
`Register` (ChatServer) or `OldRegister` (ChatServer_2). `known` and `shown` are
what clients list. `LoseCon` breaks an idle connection, which the check thread
replaces; a connection that breaks inside AddFriend makes the rollback throw in the
exception handler and ends the process (`Crash`).

`torn` is a history of the acceptances whose AddFriend failed or whose server died:
the handler answers Success whatever AddFriend says, and `ShownAreFriends` and
`AgreedAreFriends` excuse exactly those.

The login section is that of `LoginSession` in one step; names and descriptions of
users are left out.

### VarifyCodes, StatusService and Entrance

`VarifyCodes` has one record per call of GetVarifyCode: get, set, expire, mail, and
between any two of them other calls. A code bears the name of the request that made
it up. `StatusService` has the ChatServers' counts with their TTL, the choice
under `_server_mtx` (`ChooseStart`, one `ChooseRead` per server, `ChooseEnd`)
and the two commands of insertToken. `steady` is a history: the counts that have not
changed, and that no read failed to get, since the choice began.

`Entrance` composes the two with GetServer and the reading side of a ChatServer. A
request is a constant record (kind, user, e-mail, password); `gate[r]` is the
handler's place, its MySQL connection, the code its client typed and its answer.
The handlers call over gRPC (`CallVarify`, `VarifyAnswer`, `CallStatus`,
`StatusAnswer`; a call that fails for GetServer goes on at its server), check codes
(`CheckCode`), use MySQL (`GetConnection`, `RegUser`, `CheckEmail`, `UpdatePwd`,
`CheckPwd`) and answer before or after the deadline (`WriteResponse`). A login goes on
at the ChatServer with `CheckToken`; it and `Search` read profiles through the
cache (`ReadCache`, `ReadTable`, `FillCache`). A uid that `stoi` refuses ends the
ChatServer (`SearchNumber`). `Outcome(f)` lets a call fail while failures of kind f
may still happen; a failed Redis write may have been executed.

`Scenarios` gives the requests, who is registered, and which failures may happen;
`Init` chooses one. The uid of a user is its name.

StatusServer as committed does not compile: insertToken calls Set with two
arguments, its `RedisMgr.h:275` declares three, and the format `EX %D`
(`StatusServer/src/RedisMgr.cpp:54`) is none of hiredis. The model takes the Set
as one without a TTL, followed by the Expire that the code has.

### ConPool

`RedisConPool`: the idle `connections`, a program counter per thread of the
process that calls getConnection, the check thread and Close. A step is what
happens under one hold of the mutex: `Get` (up to the wait, and again after a
wake-up), `Return`; `CheckStart`, `CheckTake`, `CheckAlive`, `CheckDead`,
`Reconnect`, `CheckEnd` of a round of checkThreadPro. The false predicate and the
falling asleep (`Sleep`) are two steps, with the mutex held between them
(`MutexFree`), because `CloseStop` and `CloseNotify` do not take it. `Break` is
the Redis server closing a connection; only a PING notices it, since RedisMgr
returns a connection whose command failed. All users give their connection back
(every path of RedisMgr.cpp does).

Abstractions: the order of the queue, the 60 s between rounds, connections the
constructor failed to make (`Conn` are those it made), spurious wake-ups (the
predicate makes them a repeated `Get`), the retry of `redisConnect` within
`CheckEnd`. `ChatConPool` has no
check thread and nothing that breaks.

### MySqlPool

Extends `ConPool`: getConnection, returnConnection and Close are the same. A
healthy connection goes back whether the pool is stopped or not (`SqlCheckAlive`); a
new one is pushed without a notification (`SqlReconnect`); a round does not end at a
stop and nobody joins the thread. So a thread may sleep beside an idle connection until
the next round pings it and pushes it with a notification: `SqlRevives` says that this
is soon enough, `NoLostWakeup` does not hold. The destruction of the pool while the
detached check thread uses it is left out.

### MC modules

They name the model values, sequences, conversations, scenarios and the symmetry of
the runs. Runs that check liveness use no symmetry. GetServer, StatusServer and
ChatServer_2 have their own copies of some classes; the definitions of a module are
mapped to one copy or another.

## 4. The runs

| run | question | bounds | shows |
|---|---|---|---|
| `login` | do logins, crashes, the timer, repeated logins and bad frames ever leave two live logins or a wrong registration, and is the proofs' invariant true? | 2 servers, 2 sessions, 1 user, queue 1 | `OneLiveLogin`, `RegisteredWhereLive`, `OnlineStaysRegistered`, `SeatSpec`, `IInv` (with the types) |
| `login_live` | does a login end when kicks get lost and registrations lapse? | 2 servers, 2 sessions, fairness | `LoginEnds`, `RegistrationAgrees` |
| `login_gone` | is what is gone forgotten? | 2 servers, 1 session, all handled faults and lock timeouts, fairness | `ClosedForgotten`, `LockFreed` |
| `login_ttl` | counterexample to `OneLiveLogin` when the TTL of 90 s ends | 2 servers, 2 sessions | the registration of an online user must be refreshed |
| `chat` | is a message skipped, lost for an online user, missing in the history, or shown before it is saved? | 2 servers, 2 users that write to each other, 2 messages, LIMIT 1, requests of up to 2, `MaxNum` 2, pages of up to 2, failures by what they may harm: the handled ones; those that defer; `overtake` and `early_drop`; `incr_fail` | `TypeOK`, `NeverSkipped`, `AckedSeen`, `HistoryComplete`, `MailSpec` |
| `chat_cursor` | counterexample to `OnlineHasAll` with two conversations | 2 servers, 3 users, 3 messages | the cursor must be per conversation (or the number per user) |
| `session_io` | do the two queues of a ChatServer stall, mix or lose anything? | 2 sessions with 2 and 1 requests, 1 push, `MaxSend` 1, answers of 1 and 32764 bytes, fairness | `TypeOK`, `OneWrite`, `WriteGoesOn`, `SendSpec`, `RequestSpec`, `RequestHandled` |
| `friends` | are friendships mutual and real, and do pooled connections stay usable? | a ChatServer and a ChatServer_2, 2 users, 2 connections each, 3 logins, 1 failure of any kind | `TypeOK`, `FriendsMutual`, `ShownAreFriends`, `AgreedAreFriends`, `NewStaysRegistered`, `FriendRowsUnlocked`, `LogicGoesOn` |
| `friends_lost` | counterexample to `AckedStored` without any failure | as `friends`, both users apply | autocommit must be turned on again |
| `entrance` | are codes, tokens, choices, connections and answers of the entrance right? | 3 requests in nine scenarios, 2 users, 2 mailboxes, 3 servers (one old), 2 connections, 1 failure, fairness | `TypeOK`, `KeysExpire`, `PoolAccounted`, `ChoiceFound`, `ProvenMailbox`, `Answered` |
| `pool` | is a Redis connection shared, lost for good, or a sleeper forgotten? | 3 connections, 3 threads, fairness | `NoSharing`, `SizeKept`, `NoLostWakeup`, `PoolRevives` |
| `sql_pool` | the same of MySqlPool | 3 connections, 3 threads, fairness | `NoSharing`, `SizeKept`, `SqlRevives` |

Why the bounds are enough. A race over a registration needs an old login, a new one
and a cleanup; with repeated logins on a connection two sessions at two servers give
all three, and the theorems hold for any number. Users share nothing in
`LoginSession` but the logic thread, hence one user. In `ChatDelivery` two messages
and LIMIT 1 give a batch that is cut, a request that fails in its middle and pages
that end inside a conversation or hold all of it; the four sets of failures (`ByHarm`)
are those between which the conditions of the properties distinguish; `MaxNum` bounds the numbers given out and so the
repeats. In `SessionIO` a limit of 1 makes queues full with two frames, and a client
with two requests beside one with one lets the logic queue hold messages of both. In
`Friends` two connections are what GetFriendList needs at once, so one that AddFriend
has is missed; three logins let a user move from one kind of server to the other and
back. In `Entrance` three requests are two that interfere and one that is affected; each
scenario combines requests with the failures that matter to them, and two connections
are lost by two requests or used by two while a third waits. In the pools three connections
and three threads let all connections be in use, under the PING or broken while several
threads sleep.

The bounds named in the modules: `MaxQueue` (posts to the logic queue), `MaxNum`,
`MaxBatch`, `MaxPage`, `MaxFrames`, `MaxPushes`, `LoginLimit`, `FailureLimit`, `MaxCount`. All runs
switch the deadlock check off: sessions, numbers, logins and requests run out,
servers may be stopped, and threads may wait for ever for clients. That the logic
thread does not stop where it should go on is a property (`LogicGoesOn`, and the
liveness ones).

### Fairness

`LoginSession`: the logic thread, the acceptor's handler, every cleanup and every
served call go on (they are threads that wait for nothing but the lock, whose
acquisition has a deadline and whose TTL ends); a connection whose read is under way and
whose socket was closed fails; the timer runs every 60 s, and a session without traffic
is found by it at some time. acquireLock polls, so weak fairness of the whole step of
a logic thread or a cleanup is used only for loops in which the others end too.

`SessionIO`: handlers return and DealMsg goes on (one weak fairness of its step);
an io thread that posts gets the mutex, which is free whenever the logic thread looks
for the next message or waits, so weak fairness would do for a mutex that is never taken
again; here the queue's messages are few, and the mutex stays free in the end.

`Entrance`: one weak fairness of any step of a request's handlers. The requests being
few and every handler finite, that is enough for each of them to end; a starved one
would need endless work elsewhere.

`ConPool`, `MySqlPool`: threads that can go on do; the check thread runs; the
server accepts a connection again and again (strong fairness of `Reconnect` and
`SqlReconnect`). `SqlRevives` supposes that some day connections last from one
round to the next (`Stable`). Nobody is bound to return a connection or to ask for one.

No fairness is assumed of clients, failures, crashes and shutdowns.

## 5. The proofs

All of them are for every value of the constants, under the named `ASSUME`s of the
modules only: `None` is none of the other values, bounds are numbers, sets of
connections, threads and requests are finite, `Order` lists every server, scenarios
are well formed.

| module | theorems | inductive invariant |
|---|---|---|
| `LoginSessionProofs` | `TypeCorrect`; `SectionsLocked`, as long as no lock's deadline or TTL passes; `LocksReturned`, without crashes; `RegistrationAgreesCorrect`, under both conditions | `TypeOK`, `LockInv`, `LockHeld`, `AgreeInv` |
| `LoginSafetyProofs` | `IInvCorrect`, `OneLiveLoginCorrect`, `RegisteredWhereLiveCorrect`, `SeatCorrect` (refinement), for faults in `Handled`; `CleanupsUpToDate`, as long as no lock's deadline or TTL passes; `OnlineStaysRegisteredCorrect`, if moreover no registration of an online user lapses | `IInv`, `LockedInv` |
| `ChatDeliveryProofs` | `DurableCorrect`, `MailCorrect` (refinement), whatever fails; `HistoryCompleteCorrect`, as long as `Incr` does not fail | `StoreInv`, `NumInv`, `FiniteTable` |
| `ChatArrivalProofs` | `ChatTypeCorrect`, `ChatSeatCorrect` (refinement), whatever fails; `NeverSkippedCorrect`, under `Deferring`; `AckedSeenCorrect`, under `Handled` | `ArrivalInv` |
| `SessionIOProofs` | `SioInvCorrect`, `SioTypeCorrect`, `OneWriteCorrect`, `WriteGoesOnCorrect`, `SendCorrect` and `RequestCorrect` (refinements) | `SioInv` |
| `FriendsProofs` | `FriendsInvCorrect`, `FriendsTypeCorrect`, `FriendsMutualCorrect`, `FriendRowsUnlockedCorrect`, `ShownAreFriendsCorrect`, `AgreedAreFriendsCorrect`, `NewStaysRegisteredCorrect`; `LogicReadyCorrect`, with two connections or more | `FriendsInv`, `StageInv` |
| `EntranceProofs` | `EntranceTypeCorrect`, `ProvenMailboxCorrect`, `ChoiceFoundCorrect`, `KeysExpireCorrect`, `PoolAccountedCorrect`, `NobodyStuckCorrect` | `EntryInv`, `ReadyInv` |
| `PoolProofs` | of `ConPool`: `PoolTypeCorrect`, `PoolInvCorrect`, `NoSharingCorrect`, `SizeKeptCorrect`, `NoLostWakeupCorrect`; of `MySqlPool`: `SqlNoSharingCorrect`, `SqlSizeKeptCorrect` | `PoolInv`, `SqlInv` |

**Login.** `OneLiveLogin` is not inductive: `LoginBind` makes a login live and nothing
in the property says that no other one is. `IInv` adds what the code relies on: a
section runs under its user's lock (`LockInv`); a live login is registered, or its own
cleanup is about to take it off (`RegInv`); hence the look-up of `uip_` finds the only
candidate, and `LoginInv` follows the login from there: the old one is at the server
that was asked, then at the session that is being cleared or in a kick that is under
way, then nowhere until the binding. `CleanInv` says that a cleanup's comparison stays
true until its two deletions, because only a holder of the lock writes the
registration, and that a cleaned session is closed. These two and the locks need no kick to arrive and
no registration to last (`LockedInv`), and they are all that `OnlineStaysRegistered`
needs: even with a user who is live twice because a kick was lost, a cleanup takes only
its own registration away. `HostInv` keeps the tables of a
server to its own sessions, which is what makes a binding at one server disappear with
`ClearSession` there.

`RegistrationAgrees` speaks of moments without a lock, and `AgreeInv` of all others: the
two keys differ only while a login is between its two writes (`Setting`), and then nobody
else writes them, since every other writer needs the lock that this login holds
(`LockInv`). A crash between the two writes does break it, so the theorem leaves crashes
out. `LockHeld` says that a lock's owner is still on the way to its release: every path
out of a section goes through the Defer, and only the crash of its server abandons a key
to its TTL.

**Text messages.** `Durable` needs to know what a request has already saved
(`JobOK`) and what a push in flight carries (`RpcInv`): only then is what a push
delivers, and what Success acknowledges, saved. `RowInv` ties a message id to its pair
of users, since a repeated id is not inserted again. `HistoryComplete` needs different
numbers in a conversation; a row gets the number that a request has held since `Incr`,
so `NumInv` speaks of the numbers held, too: they are below `seq`, in no row, and
different from each other. It holds as long as `Incr` does not fail, whatever else does.
That a page is not empty needs the table to be finite (`FiniteTable`), so that the
rows in front of a number have a last one.

`MailSpec` follows from `StoreInv`, one action after the other: what is pushed to a user
or answered to a pull is in the table and addressed to him, what is acknowledged is in
the table, and no row ever goes.

`ArrivalInv` has three layers, each for the failures it survives. `SessionInv`, whatever
fails: a user's logins come one after the other, between its kick and its binding a
login finds nobody else bound (hence `ChatSeatCorrect`), and, without `overtake`, a
sender has one request at a time. `OrderInv`, under `Deferring`, for a user who has one
conversation with one sender: the
number a request holds is newer than every row of its sender, the cursor is the number of
a row, and what a client has been sent reaches up to the maximum of its batch; so a moved
cursor has nothing unseen behind it. A pull or a push that fails moves no cursor and
shows nothing, so it disturbs none of this; it does disturb `SeenInv`, which is for
`Handled`: a message that was acknowledged and not
yet seen is either still to be pulled, or its push is under way to the server where the
user is bound. That a batch has a maximum needs `Bounded`,
by which all numbers are below some bound; the distance to it is well-founded.

**Queues.** `SioInv` says of each session how its queue, the write under way and the
completed one belong together (`SendOK`): the write is of the front, and an open
socket with a queue has one or the other. With it every step of a session is a put,
a get or a rest of `Fifo`; `FrontInv` does the same for the logic thread, which has
the front of its queue in its hands until it pops it.

**Friends.** `FriendsMutual` needs to know what AddFriend's connection holds
at each step (`HeldInv`: the first row, then both) and that no other connection has
friendship rows to commit (`FriendRowsUnlocked` with `LinkInv`: what is not committed
is locked), since a later `Commit` on a connection commits whatever is left in it. The
clients' properties add how far each acceptance has come. `StageInv` says at
which places a request of each kind can be. With `FriendsInv`, by which the logic thread
keeps a connection from one step to the next only inside AddFriend, `LogicReady` follows:
elsewhere all connections are idle, so two in all are enough for GetFriendList, which
takes two at once.

**Entrance.** Each server's variables are disturbed by its own steps only, so the
invariant has a part for each. `VarifyInv`: a code is kept for, and mailed to, the
mailbox of the call whose name it bears, hence a client whose code is right was sent it
at his own address, and `Typists` and `Updates` carry that to the statement that
changes the row. `StatusInv`: the counts in `steady` are still the current ones
(`SteadyInv`) and the best so far is at least as good as those read (`BestInv`).
`GateInv` counts the connections in use; a step of a handler moves at most one.
`NobodyStuck` is what `Answered` needs beside fairness: who cannot go on waits for a
connection or for `_server_mtx`, and there is a holder who can go on himself. For that
`ReadyInv` says that a connection is held at a statement only, so that its holder waits
for nothing, and that a user whose password was right stays in the table, so that the
call to StatusServer can be made. `CanGoOn` lists the guards of a request's steps; TLC
found it to imply ENABLED of the step in every state of the run `entrance` and to differ
from it by failing calls only.

**Pools.** `PoolInv` adds `HandsInv` to the three properties: a thread holds a
connection exactly at "hold", the check thread exactly at "ping", and a thread that is
about to sleep leaves the queue empty, since nobody pushes while it has the mutex. Then
a `Get` or a push leaves the set `Used` as it is, a failed PING and a reconnect
change it by the one connection they count, and a push adds at most one connection
and, if anyone sleeps, exactly one woken thread.

Only model-checked: all liveness (`LoginEnds`, `LockFreed`, `ClosedForgotten`,
`RequestHandled`, `PoolRevives`, `SqlRevives`, `Answered`: fairness is outside the
prover's reach; `NobodyStuckCorrect` proves the part of `Answered` that needs none) and
`LogicGoesOn` (ENABLED), of which `LogicReadyCorrect` proves the part that can be said
without: the connections are there. `SeatSpec` of `ChatDelivery` and `NobodyStuck`, on
the other hand, are proved and in no run.

## 6. Findings

* **The registration of an online user expires** (`login_ttl`). `uip_` and
  `usession_` are set with EX 90 (LogicSystem.cpp:281-288) and no heartbeat
  refreshes them. After 90 s messages are no longer pushed and a second login
  finds nobody to kick.
* **Messages hidden by the cursor** (`chat_cursor`). `user_msg_cursor` holds one
  number per user, `seq` counts per conversation.
  With one conversation, MCChatDelivery's `Profiles` set to one failure that the
  handlers ignore shows three more ways to break `OnlineHasAll`, which are not runs of
  their own: `{"early_drop"}`, the cursor moves when the batch was handed to Send, and
  the batch is lost with its connection (LogicSystem.cpp:314); `{"incr_fail"}`, a
  message is saved with the number -1, which no pull selects (LogicSystem.cpp:567);
  `{"overtake"}`, the number is given out before the row is saved, and a request that
  goes on after its session was kicked is saved behind the cursor (LogicSystem.cpp:569).
* **Writes that are never committed** (`friends_lost`). AddFriend leaves autocommit off
  on a pooled connection (MysqlDao.cpp:253); an application written through it is
  answered with Success and lost.

Seen while modelling, without a run because no document, comment or test promises the
contrary: a login still in the queue when its connection is cleaned up binds the dead
session (CServer.cpp:60); Close of a pool may miss a thread that is about to sleep
(include/RedisMgr.h:107); `~LogicSystem` may miss a logic thread that is about to wait,
and its join hangs (LogicSystem.cpp:21); a reset password leaves the old record in the
profile cache (LogicSystem.cpp:819); a search for a number beyond an int ends the
ChatServer (`SearchNumber`); an answer of 32764 bytes or more, about 30 unread messages, makes a
negative length and ends the process (MsgNode.cpp:8, `Fits`); CheckEmail loses a connection for every unknown name
(GetServer/src/MysqlDao.cpp:157), which `PoolAccounted` and `Answered` take into account;
a crash between the two writes of a login (LogicSystem.cpp:281-288) leaves `uip_` with
the new server and `usession_` with the old session until their TTL or the next login.

## 7. Not modelled

Message text and JSON, logging, configuration, the choice of an io_context, URL
decoding and the GET test handler of GetServer: no property depends on them. The pool
of gRPC stubs (`ChatConPool` and its copies) has no failures. The rpc Login of
StatusServer is called by no program of the repository; IncreaseCount and DecreaseCount
of ChatServer_2 write a hash that nobody reads. The text messages of ChatServer_2 are
pushed to whoever is online and stored nowhere; its login, without lock and
kick, is part of `Friends` beside the new one; that a login needs the lock and has to clear
the old session shows in the mutants of `LoginAcquire` and `LoginClearOld`. Crashes of Redis and MySQL with loss of data
are not modelled: what they have acknowledged is kept.
