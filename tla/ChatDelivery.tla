---------------------------- MODULE ChatDelivery ----------------------------
(***************************************************************************)
(* Text messages between users across the ChatServers: a message is given  *)
(* a sequence number and saved (DealChatTextMsg), then pushed to the       *)
(* receiver if Redis says where the receiver is online, directly or by the *)
(* peer's NotifyTextChatMsg; what was not pushed is pulled by the          *)
(* receiver's next login (the end of LoginHandler) from behind its cursor. *)
(*                                                                         *)
(* The login is the one of LoginSession with its locked section reduced to *)
(* the steps that matter here: a user has one live session (bound), which  *)
(* LoginSession shows.                                                     *)
(***************************************************************************)
EXTENDS Integers, Sequences, FiniteSets, Functions

CONSTANTS
    Server,     \* the ChatServer processes
    User,
    Msg,        \* message ids, chosen by the clients
    None,       \* absent
    Talk,       \* the pairs <<from, to>> of users that write to each other
    Limit,      \* LIMIT of GetUnreadMessages (200 in the code)
    MaxPage,    \* the longest page of DealMsgHistoryReq (50 in the code)
    MaxBatch,   \* bound on the messages of one request (text_array)
    MaxNum,     \* bound on the numbers given out before the last request
    Profiles    \* which of the failures below may happen together in one behaviour

Failures ==
    { "crash",       \* a ChatServer dies and is started again
      "resend",      \* a client repeats messages it got no Success for
      "save_fail",   \* SaveMessage or UpdateMsgCursor fails: no connection, SQLException
      "pull_fail",   \* GetUnreadMessages fails; LoginHandler takes it for no messages
      "incr_fail",   \* Incr fails and returns -1
      "rpc_fail",    \* NotifyTextChatMsg fails; DealChatTextMsg ignores it
      "overtake",    \* a sender logs in elsewhere while its request is still handled
      "early_drop" } \* a connection is lost while its login is under way

\* What the handlers allow for; they ignore the others.
Handled == {"crash", "resend", "save_fail"}

\* A login that pulls nothing and a push that is lost leave the message to the next login.
Deferring == Handled \cup {"pull_fail", "rpc_fail"}

ASSUME FaultsAssumption == \A F \in Profiles : F \subseteq Failures
ASSUME TalkAssumption   == Talk \subseteq User \X User /\ \A p \in Talk : p[1] # p[2]
ASSUME BoundAssumption  == Limit \in Nat \ {0} /\ MaxBatch \in Nat \ {0} /\ MaxNum \in Nat
                        /\ MaxPage \in Nat \ {0}
ASSUME NoneAssumption   == None \notin Server \cup User \cup Msg \cup Talk

VARIABLES
    seq,        \* Redis conv_seq_<conv>: the last number given out
    messages,   \* MySQL messages: the rows
    cursor,     \* MySQL user_msg_cursor: last_recv_seq of a user
    reg,        \* Redis uip_<uid>: the server the user is logged in at
    bound,      \* the server whose UserMgr binds the user to a session
    up,         \* is the connection of that session still up?
    leaving,    \* users whose session is in DealExceptionSession, after its Del's
    logic,      \* per server: what its logic thread is doing
    rpcs,       \* NotifyTextChatMsg calls being served
    sent,       \* client side: to whom a message was written
    acked,      \* messages whose request the server answered with Success
    got,        \* client side: messages a user has received
    left,       \* messages the user's last offline pull left behind: more than LIMIT
    faults      \* the failures of this behaviour

dbVars     == <<seq, messages>>
onlineVars == <<reg, bound, up, leaving>>
clientVars == <<sent, acked, got, left>>
vars       == <<dbVars, cursor, onlineVars, logic, rpcs, clientVars, faults>>

Conv == {{p[1], p[2]} : p \in Talk}
Row  == [id: Msg, from: User, to: User, seq: Int]

Idle  == [pc |-> "idle"]
Login == [pc: {"kick", "setip", "bind", "pull"}, user: User]
          \cup [pc: {"cursor"}, user: User, max: Int]
Deal  == [pc: {"save", "push", "rpc"}, from: User, to: User, todo: Seq(Msg),
          saved: SUBSET Msg, num: Int \cup {None}]

IsLogin(l) == l.pc \in {"kick", "setip", "bind", "pull", "cursor"}
IsDeal(l)  == l.pc \in {"save", "push", "rpc"}

TypeOK ==
    /\ seq      \in [Conv -> Nat]
    /\ messages \subseteq Row
    /\ cursor   \in [User -> Int]
    /\ reg      \in [User -> Server \cup {None}]
    /\ bound    \in [User -> Server \cup {None}]
    /\ up       \in [User -> BOOLEAN]
    /\ leaving  \subseteq User
    /\ logic    \in [Server -> {Idle} \cup Login \cup Deal]
    /\ rpcs     \subseteq [from: Server \cup {None}, to: Server, user: User, ids: SUBSET Msg]
    /\ sent     \in [Msg -> Talk \cup {None}]
    /\ acked    \subseteq Msg
    /\ got      \in [User -> SUBSET Msg]
    /\ left     \in [User -> SUBSET Msg]
    /\ faults   \in Profiles

Init ==
    /\ seq      = [c \in Conv |-> 0]
    /\ messages = {}
    /\ cursor   = [u \in User |-> 0]
    /\ reg      = [u \in User |-> None]
    /\ bound    = [u \in User |-> None]
    /\ up       = [u \in User |-> FALSE]
    /\ leaving  = {}
    /\ logic    = [v \in Server |-> Idle]
    /\ rpcs     = {}
    /\ sent     = [m \in Msg |-> None]
    /\ acked    = {}
    /\ got      = [u \in User |-> {}]
    /\ left     = [u \in User |-> {}]
    /\ faults   \in Profiles

InLogin(u) == \E v \in Server : IsLogin(logic[v]) /\ logic[v].user = u

\* CSession::Send: what is queued for a connection that is gone is lost.
Send(u, ids) == got' = [got EXCEPT ![u] = IF up[u] THEN @ \cup ids ELSE @]

-----------------------------------------------------------------------------
(* LogicSystem::LoginHandler, from the moment it has the user's lock.       *)

LogicGoto(v, pc) == logic' = [logic EXCEPT ![v].pc = pc]

\* The lock is free: no other login and no cleanup of the user is in its section.
LoginBegin(v, u) ==
    /\ logic[v] = Idle /\ ~InLogin(u) /\ u \notin leaving
    /\ \/ "overtake" \in faults
       \/ \A w \in Server : IsDeal(logic[w]) => logic[w].from # u
    /\ logic' = [logic EXCEPT ![v] = [pc |-> "kick", user |-> u]]
    /\ UNCHANGED <<dbVars, cursor, onlineVars, rpcs, clientVars>>

\* The old session, here or at a peer, is cleared if uip_<uid> leads to it.
LoginKick(v) ==
    /\ logic[v].pc = "kick"
    /\ bound' = [bound EXCEPT ![logic[v].user] = IF reg[logic[v].user] = @ THEN None ELSE @]
    /\ LogicGoto(v, "setip")
    /\ UNCHANGED <<dbVars, cursor, reg, up, leaving, rpcs, clientVars>>

\* Mutant: SET NX, a registration left behind by a crashed server stays.
LoginSetIpNx(v) ==
    /\ logic[v].pc = "setip"
    /\ reg' = [reg EXCEPT ![logic[v].user] = IF @ = None THEN v ELSE @]
    /\ LogicGoto(v, "bind")
    /\ UNCHANGED <<dbVars, cursor, bound, up, leaving, rpcs, clientVars>>

LoginSetIp(v) ==
    /\ logic[v].pc = "setip"
    /\ reg' = [reg EXCEPT ![logic[v].user] = v]
    /\ LogicGoto(v, "bind")
    /\ UNCHANGED <<dbVars, cursor, bound, up, leaving, rpcs, clientVars>>

LoginBind(v) ==
    /\ logic[v].pc = "bind"
    /\ bound' = [bound EXCEPT ![logic[v].user] = v]
    /\ up'    = [up EXCEPT ![logic[v].user] = TRUE]
    /\ LogicGoto(v, "pull")
    /\ UNCHANGED <<dbVars, cursor, reg, leaving, rpcs, clientVars>>

\* MysqlDao::GetUnreadMessages: behind the cursor, in the order of seq, at most Limit.
Unread(u) == {r \in messages : r.to = u /\ r.seq > cursor[u]}
FirstOf(R) ==
    {B \in SUBSET R : /\ Cardinality(B) = IF Cardinality(R) < Limit THEN Cardinality(R) ELSE Limit
                      /\ \A r \in B, s \in R \ B : r.seq <= s.seq}
Ids(R)    == {r.id : r \in R}
MaxSeq(R) == CHOOSE n \in {r.seq : r \in R} : \A r \in R : r.seq <= n

\* Mutant: the query without its ORDER BY.
LoginPullUnordered(v) ==
    /\ logic[v].pc = "pull"
    /\ LET u == logic[v].user IN
        \E B \in SUBSET Unread(u) :
            /\ Cardinality(B) = IF Cardinality(Unread(u)) < Limit THEN Cardinality(Unread(u)) ELSE Limit
            /\ Send(u, Ids(B))
            /\ left' = [left EXCEPT ![u] = Ids(Unread(u) \ B)]
            /\ logic' = [logic EXCEPT ![v] = IF B = {} THEN Idle
                                ELSE [pc |-> "cursor", user |-> u, max |-> MaxSeq(B)]]
    /\ UNCHANGED <<dbVars, cursor, onlineVars, rpcs, sent, acked>>

\* The unread messages are sent in one batch; nothing is left to do if there are none.
LoginPull(v) ==
    /\ logic[v].pc = "pull"
    /\ LET u == logic[v].user IN
        \/ \E B \in FirstOf(Unread(u)) :
            /\ Send(u, Ids(B))
            /\ left' = [left EXCEPT ![u] = Ids(Unread(u) \ B)]
            /\ logic' = [logic EXCEPT ![v] = IF B = {} THEN Idle
                                ELSE [pc |-> "cursor", user |-> u, max |-> MaxSeq(B)]]
        \/ /\ "pull_fail" \in faults
           /\ logic' = [logic EXCEPT ![v] = Idle]
           /\ UNCHANGED <<got, left>>
    /\ UNCHANGED <<dbVars, cursor, onlineVars, rpcs, sent, acked>>

\* MysqlDao::UpdateMsgCursor (GREATEST); the client acknowledges nothing, and a
\* failure is ignored.
LoginCursor(v) ==
    /\ logic[v].pc = "cursor"
    /\ \/ cursor' = [cursor EXCEPT ![logic[v].user] = IF logic[v].max > @ THEN logic[v].max ELSE @]
       \/ "save_fail" \in faults /\ UNCHANGED cursor
    /\ logic'  = [logic EXCEPT ![v] = Idle]
    /\ UNCHANGED <<dbVars, onlineVars, rpcs, clientVars>>

-----------------------------------------------------------------------------
(* The end of a session: CServer::on_timer or an error of AsyncReadHead,    *)
(* then DealExceptionSession under the user's lock.                         *)

Drop(u) ==
    /\ bound[u] # None /\ up[u]
    /\ InLogin(u) => "early_drop" \in faults
    /\ up' = [up EXCEPT ![u] = FALSE]
    /\ UNCHANGED <<dbVars, cursor, reg, bound, leaving, logic, rpcs, clientVars>>

\* The Del's of uid_session and uip.
Unregister(u) ==
    /\ bound[u] # None /\ ~up[u] /\ u \notin leaving /\ ~InLogin(u)
    /\ reg' = [reg EXCEPT ![u] = None]
    /\ leaving' = leaving \cup {u}
    /\ UNCHANGED <<dbVars, cursor, bound, up, logic, rpcs, clientVars>>

\* CServer::ClearSession takes the session out of the UserMgr; the lock is released.
Unbind(u) ==
    /\ u \in leaving
    /\ bound' = [bound EXCEPT ![u] = None]
    /\ leaving' = leaving \ {u}
    /\ UNCHANGED <<dbVars, cursor, reg, up, logic, rpcs, clientVars>>

\* EX 90 of uip_<uid>, for what a crashed server left behind.
RegLapse(u) ==
    /\ reg[u] # None /\ bound[u] # reg[u] /\ ~InLogin(u)
    /\ reg' = [reg EXCEPT ![u] = None]
    /\ UNCHANGED <<dbVars, cursor, bound, up, leaving, logic, rpcs, clientVars>>

-----------------------------------------------------------------------------
(* LogicSystem::DealChatTextMsg on the logic thread of v.                   *)

Texts(f, t) ==
    {m \in Msg : sent[m] = None \/ ("resend" \in faults /\ sent[m] = <<f, t>>)}

DealBegin(v, f, t) ==
    /\ logic[v] = Idle /\ <<f, t>> \in Talk /\ seq[{f, t}] < MaxNum
    /\ bound[f] = v /\ up[f]
    /\ InLogin(f) => "overtake" \in faults
    /\ \E k \in 1 .. MaxBatch : \E todo \in [1 .. k -> Texts(f, t)] :
        /\ IsInjective(todo)
        /\ sent'  = [m \in Msg |-> IF m \in Range(todo) THEN <<f, t>> ELSE sent[m]]
        /\ logic' = [logic EXCEPT ![v] = [pc |-> "save", from |-> f, to |-> t,
                                          todo |-> todo, saved |-> {}, num |-> None]]
    /\ UNCHANGED <<dbVars, cursor, onlineVars, rpcs, acked, got, left>>

ConvOf(v) == {logic[v].from, logic[v].to}
Rows(c)   == {r \in messages : {r.from, r.to} = c}

\* Mutant: the number is read from the saved rows instead of counted by Redis.
DealIncrStale(v) ==
    /\ logic[v].pc = "save" /\ logic[v].todo # <<>> /\ logic[v].num = None
    /\ logic' = [logic EXCEPT ![v].num =
                    IF Rows(ConvOf(v)) = {} THEN 1 ELSE MaxSeq(Rows(ConvOf(v))) + 1]
    /\ UNCHANGED <<dbVars, cursor, onlineVars, rpcs, clientVars>>

\* RedisMgr::Incr of conv_seq_<conv>; its failure value is used like a number.
DealIncr(v) ==
    /\ logic[v].pc = "save" /\ logic[v].todo # <<>> /\ logic[v].num = None
    /\ \/ /\ seq'   = [seq EXCEPT ![ConvOf(v)] = @ + 1]
          /\ logic' = [logic EXCEPT ![v].num = seq[ConvOf(v)] + 1]
       \/ /\ "incr_fail" \in faults
          /\ logic' = [logic EXCEPT ![v].num = -1]
          /\ UNCHANGED seq
    /\ UNCHANGED <<messages, cursor, onlineVars, rpcs, clientVars>>

\* MysqlDao::SaveMessage: INSERT IGNORE on the message id.
Inserted(l) ==
    IF Head(l.todo) \in Ids(messages) THEN messages
    ELSE messages \cup {[id |-> Head(l.todo), from |-> l.from, to |-> l.to, seq |-> l.num]}

SavedOne(l) == [l EXCEPT !.todo = Tail(@), !.saved = @ \cup {Head(l.todo)}, !.num = None]

\* Mutant: the loop goes on after a failed SaveMessage.
DealSaveIgnore(v) ==
    /\ logic[v].pc = "save" /\ logic[v].num # None
    /\ messages' \in {messages, Inserted(logic[v])}
    /\ logic' = [logic EXCEPT ![v] = SavedOne(@)]
    /\ UNCHANGED <<seq, cursor, onlineVars, rpcs, clientVars>>

\* Mutant: a message is saved before it has its number.
DealSaveNoIncr(v) ==
    /\ logic[v].pc = "save" /\ logic[v].todo # <<>>
    /\ messages' = Inserted(logic[v])
    /\ logic' = [logic EXCEPT ![v] = SavedOne(@)]
    /\ UNCHANGED <<seq, cursor, onlineVars, rpcs, clientVars>>

\* A failure ends the request with RPCFailed; what was saved before stays saved.
DealSave(v) ==
    /\ logic[v].pc = "save" /\ logic[v].num # None
    /\ \/ /\ messages' = Inserted(logic[v])
          /\ logic' = [logic EXCEPT ![v] = SavedOne(@)]
       \/ /\ "save_fail" \in faults
          /\ logic' = [logic EXCEPT ![v] = Idle]
          /\ UNCHANGED messages
    /\ UNCHANGED <<seq, cursor, onlineVars, rpcs, clientVars>>

\* The request is answered with Success when the handler returns.
DealEnd(v) ==
    /\ acked' = acked \cup logic[v].saved
    /\ logic' = [logic EXCEPT ![v] = Idle]

\* Where is the receiver? Nowhere: the next login pulls. Here: push. Else: ask the peer.
DealLookup(v) ==
    /\ logic[v].pc = "save" /\ logic[v].todo = <<>>
    /\ LET w == reg[logic[v].to] IN
        \/ w = None /\ DealEnd(v) /\ UNCHANGED rpcs
        \/ w = v /\ LogicGoto(v, "push") /\ UNCHANGED <<rpcs, acked>>
        \/ /\ w \notin {None, v}
           /\ rpcs' = rpcs \cup {[from |-> v, to |-> w, user |-> logic[v].to,
                                  ids |-> logic[v].saved]}
           /\ LogicGoto(v, "rpc")
           /\ UNCHANGED acked
    /\ UNCHANGED <<dbVars, cursor, onlineVars, sent, got, left>>

Push(v, u, ids) == IF bound[u] = v THEN Send(u, ids) ELSE UNCHANGED got

DealPush(v) ==
    /\ logic[v].pc = "push"
    /\ Push(v, logic[v].to, logic[v].saved)
    /\ DealEnd(v)
    /\ UNCHANGED <<dbVars, cursor, onlineVars, rpcs, sent, left>>

\* ChatServiceImpl::NotifyTextChatMsg on a gRPC thread of the peer.
RpcServe(r) ==
    /\ r \in rpcs
    /\ Push(r.to, r.user, r.ids)
    /\ rpcs' = rpcs \ {r}
    /\ UNCHANGED <<dbVars, cursor, onlineVars, logic, sent, acked, left>>

\* The call fails before it reaches the peer.
RpcLost(r) ==
    /\ r \in rpcs /\ "rpc_fail" \in faults
    /\ rpcs' = rpcs \ {r}
    /\ UNCHANGED <<dbVars, cursor, onlineVars, logic, clientVars>>

\* The call has returned, whatever came of it.
DealReply(v) ==
    /\ logic[v].pc = "rpc" /\ \A r \in rpcs : r.from # v
    /\ DealEnd(v)
    /\ UNCHANGED <<dbVars, cursor, onlineVars, rpcs, sent, got, left>>

\* The process of v ends and is started again: what is in its memory is gone, what
\* Redis and MySQL hold stays; calls to it fail, calls from it are still served.
Crash(v) ==
    /\ "crash" \in faults
    /\ bound'   = [u \in User |-> IF bound[u] = v THEN None ELSE bound[u]]
    /\ up'      = [u \in User |-> up[u] /\ bound[u] # v]
    /\ leaving' = {u \in leaving : bound[u] # v}
    /\ logic'   = [logic EXCEPT ![v] = Idle]
    /\ rpcs'    = {IF r.from = v THEN [r EXCEPT !.from = None] ELSE r :
                    r \in {q \in rpcs : q.to # v}}
    /\ UNCHANGED <<dbVars, cursor, reg, clientVars>>

-----------------------------------------------------------------------------
LoginStep(v) ==
    \/ \E u \in User : LoginBegin(v, u)
    \/ LoginKick(v) \/ LoginSetIp(v) \/ LoginBind(v) \/ LoginPull(v) \/ LoginCursor(v)

DealStep(v) ==
    \/ \E p \in Talk : DealBegin(v, p[1], p[2])
    \/ DealIncr(v) \/ DealSave(v) \/ DealLookup(v) \/ DealPush(v) \/ DealReply(v)

SessionStep(u) == Drop(u) \/ Unregister(u) \/ Unbind(u) \/ RegLapse(u)

Next ==
    /\ \/ \E v \in Server : LoginStep(v) \/ DealStep(v) \/ Crash(v)
       \/ \E u \in User : SessionStep(u)
       \/ \E r \in rpcs : RpcServe(r) \/ RpcLost(r)
    /\ UNCHANGED faults

Spec == Init /\ [][Next]_vars

-----------------------------------------------------------------------------
(* Properties. What NeverSkipped, AckedSeen and HistoryComplete suppose of   *)
(* the failures is in their conditions; MailSpec is for whatever fails.     *)

\* Numbers are counted per conversation and the cursor per user, so that a cursor is
\* sound for a user whom one other writes to, and for no other (run chat_cursor).
OneSender(u) == \A p, q \in Talk : p[2] = u /\ q[2] = u => p[1] = q[1]

\* The offline pull never leaves a message behind: every saved message has been
\* received by its addressee or is still in front of the addressee's cursor, where
\* the next login finds it, whatever sends, pushes, logins and crashes come between
\* GetUnreadMessages and UpdateMsgCursor, and although both handlers ignore it when a
\* query or a call of theirs fails.
NeverSkipped ==
    faults \subseteq Deferring =>
      \A r \in messages : OneSender(r.to) => r.id \in got[r.to] \/ r.seq > cursor[r.to]

Online(u) == bound[u] # None /\ up[u] /\ u \notin leaving /\ ~InLogin(u)

\* A message the sender was told is sent has reached its addressee as soon as the
\* addressee is online: pushed, or in the batch of the login it raced with. Only what
\* LIMIT kept out of that batch waits for the next login. This is what the comments of
\* LoginHandler and DealChatTextMsg promise, whatever fails.
HasAll(u) ==
    Online(u) => \A r \in messages : r.to = u /\ r.id \in acked => r.id \in got[u] \cup left[u]

OnlineHasAll == \A u \in User : HasAll(u)

\* What the code does of it: users whom one other writes to have all, if no more fails
\* than the handlers allow for.
AckedSeen == faults \subseteq Handled => \A u \in User : OneSender(u) => HasAll(u)

\* Success means saved, and nobody is shown a message that is not saved: a request
\* that fails in the middle of its text_array pushes none of it.
Durable ==
    /\ acked \subseteq Ids(messages)
    /\ \A u \in User : got[u] \subseteq Ids({r \in messages : r.to = u})

\* Refinement: the rows of the table are a mailbox, whatever fails. A message keeps its
\* sender and addressee although clients choose the ids and repeat requests; it is saved
\* for good before Success is answered or any push or pull hands it out, and only its
\* addressee gets it.
Mail == INSTANCE Mailbox WITH stored <- Ids(messages), confirmed <- acked
MailSpec == Mail!Spec

\* Refinement: the reduced login keeps what LoginSession shows of the full one, whatever
\* fails: the server that binds a user is left before another one binds him.
Seats == INSTANCE Seat WITH Session <- Server, Uid <- User, seat <- bound
SeatSpec == Seats!Spec

\* MysqlDao::GetHistoryMessages: at most lim rows in front of before, the latest first.
History(c, before, lim) ==
    LET R == {r \in Rows(c) : r.seq < before} IN
    {B \in SUBSET R : /\ Cardinality(B) = IF Cardinality(R) < lim THEN Cardinality(R) ELSE lim
                      /\ \A r \in B, s \in R \ B : s.seq <= r.seq}

\* A client that asks for page after page, each in front of the first number of the
\* page before (DealMsgHistoryReq), is shown every message of the conversation, whatever
\* fails but Incr: a row in front of before is on the page or in front of it, and while
\* there is one the page is not empty.
HistoryComplete ==
    "incr_fail" \notin faults =>
      \A c \in Conv, lim \in 1 .. MaxPage : \A before \in {r.seq + 1 : r \in Rows(c)} :
        \A B \in History(c, before, lim) :
          /\ B # {}
          /\ \A r \in Rows(c) : r.seq < before => r \in B \/ \A s \in B : r.seq < s.seq
=============================================================================
