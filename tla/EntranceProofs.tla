--------------------------- MODULE EntranceProofs ---------------------------
(***************************************************************************)
(* The entrance for every number of requests, users, mailboxes, servers    *)
(* and connections, and every scenario: the invariants of VarifyServer     *)
(* (VarifyInv), of StatusServer (StatusInv) and of GetServer (GateInv),    *)
(* each of which only the steps of its own server can disturb.             *)
(***************************************************************************)
EXTENDS Entrance, FiniteSetTheorems, TLAPS

PlanOK == plan \in [Request -> [kind: {"code", "register", "reset", "login", "search"},
                                user: User, email: Email, pwd: Pwd]]

-----------------------------------------------------------------------------
(* VarifyServer.                                                            *)

Calls == [pc: {"idle", "get", "set", "expire", "mail", "done"}, email: Email \cup {None},
          id: Request \cup {None}, error: BOOLEAN]

\* A code bears the name of a call for the mailbox it is kept for and mailed to.
CodesKept  == \A e \in Email : code[e] # None => plan[code[e].id].email = e
CodesSent  == \A e \in Email : \A c \in mails[e] : plan[c].email = e
CallsTheir == \A r \in Request :
    varify[r].pc # "idle" =>
        /\ varify[r].email = plan[r].email
        /\ varify[r].pc \in {"set", "expire", "mail"} =>
              varify[r].id \in Request /\ plan[varify[r].id].email = plan[r].email

CodesExpire == "redis" \notin faults =>
    \A e \in Email : code[e] # None /\ ~code[e].ttl =>
        \E r \in Request : VarifyAt(r, "expire") /\ varify[r].email = e

VarifyTypes ==
    /\ code   \in [Email -> [id: Request, ttl: BOOLEAN] \cup {None}]
    /\ mails  \in [Email -> SUBSET Request]
    /\ varify \in [Request -> Calls]

VarifyInv == PlanOK /\ VarifyTypes /\ CodesKept /\ CodesSent /\ CallsTheir /\ CodesExpire

-----------------------------------------------------------------------------
(* StatusServer.                                                            *)

Counts  == (0..MaxCount) \cup {None}
Choices == [pc: {"idle", "wait", "read", "insert", "expire", "done"}, user: User \cup {None},
            next: 1..(Len(Order) + 1), best: [server: Server, count: 0..MaxCount] \cup {None},
            error: BOOLEAN]

StatusTypes ==
    /\ alive    \subseteq Server
    /\ ipcount  \in [Server -> Counts]
    /\ token    \in [User -> [id: Request, ttl: BOOLEAN] \cup {None}]
    /\ status   \in [Request -> Choices]
    /\ choosing \in Request \cup {None}
    /\ steady   \in [Server -> Counts]

Chooser == \A r \in Request : status[r].pc = "read" <=> choosing = r

\* The best so far is at least as good as what was read and has not changed since.
Beaten(s, v) == steady[v] # None => s.best # None /\ s.best.count <= steady[v]

SteadyInv == \A v \in Server : steady[v] # None => steady[v] = ipcount[v]
BestInv   == \A r \in Request :
    /\ status[r].pc = "wait" => status[r].next = 1
    /\ status[r].pc = "read" =>
          \A i \in 1..Len(Order) : i < status[r].next => Beaten(status[r], Order[i])

TokensExpire == "redis" \notin faults =>
    \A u \in User : token[u] # None /\ ~token[u].ttl =>
        \E r \in Request : StatusAt(r, "expire") /\ status[r].user = u

StatusInv == StatusTypes /\ Chooser /\ SteadyInv /\ BestInv /\ TokensExpire

-----------------------------------------------------------------------------
(* GetServer and the ChatServer's cache.                                    *)

Answers == {"json", "confirm", "varify", "ok", "rpc", "expired", "wrong", "exists", "email",
            "update", "password", "token", "refused", "unknown"}

GatePc == DbPc \cup {"new", "varify", "code", "status", "write", "chat", "cut", "end", "cache",
                     "user", "fill"}

Gate == [pc: GatePc, con: BOOLEAN, typed: Request \cup {None}, answer: Answers \cup {None},
         key: Key \cup {None}, row: RowOrNone]

GateTypes ==
    /\ gate \in [Request -> Gate]
    /\ db \in [User -> RowOrNone]
    /\ profile \in [Key -> RowOrNone]
    /\ free \in Nat /\ leaked \in Nat

Proving == {"reg_user", "check_email", "update_pwd"}

\* Who changes a row has typed a code that was mailed to the e-mail of the row.
Typists == \A r \in Request : gate[r].pc \in Proving => gate[r].typed \in mails[Mail_(r)]
Updates == \A r \in Request :
    gate[r].pc = "update_pwd" => db[User_(r)] # None /\ db[User_(r)].email = Mail_(r)

\* The answer is, or was, a token.
Granted(g) == g.pc = "chat" \/ (g.pc = "write" /\ g.answer = "token")

\* A call to StatusServer, a token and an access to the cache are for a user.
Named == \A r \in Request :
    /\ status[r].pc # "idle" => status[r].user \in User
    /\ Granted(gate[r]) => status[r].user \in User
    /\ gate[r].pc \in {"cache", "user", "fill"} => gate[r].key \in Key

GateInv == PlanOK /\ GateTypes /\ Typists /\ Updates /\ PoolAccounted /\ Named

FailInv == failures \in 0..FailureLimit

EntryInv == VarifyInv /\ StatusInv /\ GateInv /\ FailInv

-----------------------------------------------------------------------------
(* VarifyServer's steps.                                                    *)

\* A call goes on with a code for its own mailbox.
LEMMA CallTurns ==
    ASSUME VarifyInv, UNCHANGED plan, NEW r \in Request, NEW c \in Calls,
           varify' = [varify EXCEPT ![r] = c], c.email = plan[r].email,
           c.pc \in {"set", "expire", "mail"} => c.id \in Request /\ plan[c.id].email = plan[r].email
    PROVE  /\ varify' \in [Request -> Calls] /\ CallsTheir' /\ PlanOK'
           /\ varify'[r] = c /\ \A q \in Request : q # r => varify'[q] = varify[q]
<1>1. /\ varify' \in [Request -> Calls]
      /\ varify'[r] = c /\ \A q \in Request : q # r => varify'[q] = varify[q]
  BY DEF VarifyInv, VarifyTypes
<1>2. CallsTheir'
  BY <1>1 DEF VarifyInv, CallsTheir
<1>. QED BY <1>1, <1>2 DEF VarifyInv, PlanOK

\* A code is kept: for its own mailbox, and with its TTL to come.
LEMMA CodesStay ==
    ASSUME VarifyInv, UNCHANGED <<plan, faults>>, NEW e \in Email,
           code' \in [Email -> [id: Request, ttl: BOOLEAN] \cup {None}],
           \A d \in Email : d # e => code'[d] = code[d],
           code'[e] # None => plan[code'[e].id].email = e,
           varify' \in [Request -> Calls],
           \A q \in Request : varify'[q] # varify[q] => varify[q].pc # "expire" \/ varify[q].email = e,
           "redis" \notin faults /\ code'[e] # None /\ ~code'[e].ttl =>
              \E q \in Request : varify'[q].pc = "expire" /\ varify'[q].email = e
    PROVE  CodesKept' /\ CodesExpire'
<1>1. CodesKept'
  BY DEF VarifyInv, CodesKept
<1>2. CodesExpire'
  <2> SUFFICES ASSUME "redis" \notin faults, NEW d \in Email, code'[d] # None, ~code'[d].ttl
               PROVE  \E q \in Request : varify'[q].pc = "expire" /\ varify'[q].email = d
    BY DEF CodesExpire, VarifyAt
  <2>1. CASE d = e
    BY <2>1
  <2>2. CASE d # e
    <3>1. PICK q \in Request : varify[q].pc = "expire" /\ varify[q].email = d
      BY <2>2 DEF VarifyInv, CodesExpire, VarifyAt
    <3>2. varify'[q] = varify[q]
      BY <2>2, <3>1
    <3>. QED BY <3>1, <3>2
  <2>. QED BY <2>1, <2>2
<1>. QED BY <1>1, <1>2

LEMMA VarifySteps ==
    ASSUME VarifyInv, UNCHANGED <<plan, faults>>, NEW r \in Request, NEW ok \in BOOLEAN,
           "redis" \notin faults /\ ~VarifyAt(r, "mail") => ok, VarifyStep(r, ok)
    PROVE  VarifyInv' /\ \A d \in Email : mails[d] \subseteq mails'[d]
<1> DEFINE e == varify[r].email
           id == varify[r].id
<1>0. /\ varify[r] \in Calls /\ plan[r].email \in Email
      /\ code \in [Email -> [id: Request, ttl: BOOLEAN] \cup {None}]
      /\ mails \in [Email -> SUBSET Request]
  BY DEF VarifyInv, VarifyTypes, PlanOK
<1>1. /\ e = plan[r].email /\ e \in Email
      /\ varify[r].pc \in {"set", "expire", "mail"} => id \in Request /\ plan[id].email = e
  BY <1>0 DEF VarifyInv, CallsTheir, VarifyStep, VarifyGet, VarifySet, VarifyExpire, VarifyMail, VarifyAt
<1>2. code[e] # None => code[e].id \in Request /\ plan[code[e].id].email = e
  BY <1>0, <1>1 DEF VarifyInv, CodesKept
<1>3. CASE VarifyGet(r, ok)
  <2> DEFINE c == [varify[r] EXCEPT
              !.id = IF ok /\ code[e] # None THEN code[e].id ELSE r,
              !.pc = IF ok /\ code[e] # None THEN "mail" ELSE "set"]
  <2>1. UNCHANGED <<code, mails>> /\ varify[r].pc = "get"
    BY <1>3 DEF VarifyGet, VarifyAt
  <2>2. varify' = [varify EXCEPT ![r] = c]
    BY <1>0, <1>3 DEF VarifyGet, VarifyInv, VarifyTypes
  <2>3. c \in Calls /\ c.email = e /\ c.id \in Request /\ plan[c.id].email = e
    BY <1>0, <1>1, <1>2 DEF Calls
  <2>. HIDE DEF c
  <2>4. /\ varify' \in [Request -> Calls] /\ CallsTheir' /\ PlanOK'
        /\ varify'[r] = c /\ \A q \in Request : q # r => varify'[q] = varify[q]
    BY <1>1, <2>2, <2>3, CallTurns
  <2>5. CodesKept' /\ CodesExpire'
    <3>1. \A d \in Email : code'[d] # None => plan'[code'[d].id].email = d
      BY <2>1 DEF VarifyInv, CodesKept
    <3>2. \A q \in Request : varify[q].pc = "expire" => varify'[q] = varify[q]
      BY <2>1, <2>4
    <3>. QED BY <2>1, <3>1, <3>2 DEF VarifyInv, CodesKept, CodesExpire, VarifyAt
  <2>. QED BY <1>0, <2>1, <2>4, <2>5 DEF VarifyInv, VarifyTypes, CodesSent
<1>4. CASE VarifySet(r, ok)
  <2> DEFINE set == [code EXCEPT ![e] = [id |-> r, ttl |-> FALSE]]
             c == IF ok THEN [varify[r] EXCEPT !.pc = "expire"]
                  ELSE [varify[r] EXCEPT !.pc = "done", !.error = TRUE]
  <2>1. UNCHANGED mails /\ varify[r].pc = "set" /\ code' \in {code, set}
    BY <1>4 DEF VarifySet, VarifyAt
  <2>2. varify' = [varify EXCEPT ![r] = c]
    BY <1>0, <1>4 DEF VarifySet, VarifyTo, VarifyDone, VarifyInv, VarifyTypes
  <2>3. c \in Calls /\ c.email = e /\ c.id = id /\ (ok => c.pc = "expire")
    BY <1>0 DEF Calls
  <2>4. "redis" \notin faults => ok
    BY <2>1 DEF VarifyAt
  <2>. HIDE DEF c
  <2>5. /\ varify' \in [Request -> Calls] /\ CallsTheir' /\ PlanOK'
        /\ varify'[r] = c /\ \A q \in Request : q # r => varify'[q] = varify[q]
    BY <1>1, <2>1, <2>2, <2>3, CallTurns
  <2>6. /\ code' \in [Email -> [id: Request, ttl: BOOLEAN] \cup {None}]
        /\ \A d \in Email : d # e => code'[d] = code[d]
        /\ code'[e] # None => plan[code'[e].id].email = e
    <3>1. CASE code' = code
      BY <1>0, <1>2, <3>1
    <3>2. CASE code' = set
      <4> DEFINE new == [id |-> r, ttl |-> FALSE]
      <4>1. new \in [id: Request, ttl: BOOLEAN] /\ new.id = r
        OBVIOUS
      <4>2. code' = [code EXCEPT ![e] = new]
        BY <3>2
      <4>3. plan[r].email = e
        BY <1>1
      <4>. HIDE DEF new, e
      <4>. QED BY <1>0, <1>1, <4>1, <4>2, <4>3
    <3>. QED BY <2>1, <3>1, <3>2
  <2>7. CodesKept' /\ CodesExpire'
    BY <1>1, <2>1, <2>3, <2>4, <2>5, <2>6, CodesStay
  <2>. QED BY <1>0, <2>1, <2>5, <2>6, <2>7 DEF VarifyInv, VarifyTypes, CodesSent
<1>5. CASE VarifyExpire(r, ok)
  <2> DEFINE c == IF ok THEN [varify[r] EXCEPT !.pc = "mail"]
                  ELSE [varify[r] EXCEPT !.pc = "done", !.error = TRUE]
  <2>1. /\ UNCHANGED mails /\ varify[r].pc = "expire"
        /\ ok => code' = IF code[e] = None THEN code ELSE [code EXCEPT ![e].ttl = TRUE]
        /\ ~ok => code' = code
    BY <1>5 DEF VarifyExpire, VarifyAt
  <2>2. varify' = [varify EXCEPT ![r] = c]
    BY <1>0, <1>5 DEF VarifyExpire, VarifyTo, VarifyDone, VarifyInv, VarifyTypes
  <2>3. c \in Calls /\ c.email = e /\ c.id = id
    BY <1>0 DEF Calls
  <2>4. "redis" \notin faults => ok
    BY <2>1 DEF VarifyAt
  <2>. HIDE DEF c
  <2>5. /\ varify' \in [Request -> Calls] /\ CallsTheir' /\ PlanOK'
        /\ varify'[r] = c /\ \A q \in Request : q # r => varify'[q] = varify[q]
    BY <1>1, <2>1, <2>2, <2>3, CallTurns
  <2>6. /\ code' \in [Email -> [id: Request, ttl: BOOLEAN] \cup {None}]
        /\ \A d \in Email : d # e => code'[d] = code[d]
        /\ code'[e] # None => plan[code'[e].id].email = e
        /\ ok /\ code'[e] # None => code'[e].ttl
    <3>1. CASE ~ok \/ code[e] = None
      BY <1>0, <1>2, <2>1, <3>1
    <3>2. CASE ok /\ code[e] # None
      <4> DEFINE new == [code[e] EXCEPT !.ttl = TRUE]
      <4>1. code' = [code EXCEPT ![e] = new]
        BY <1>0, <1>1, <2>1, <3>2
      <4>2. new \in [id: Request, ttl: BOOLEAN] /\ new.id = code[e].id /\ new.ttl = TRUE
        BY <1>0, <1>1, <3>2
      <4>. HIDE DEF new
      <4>. QED BY <1>0, <1>1, <1>2, <3>2, <4>1, <4>2
    <3>. QED BY <3>1, <3>2
  <2>7. CodesKept' /\ CodesExpire'
    BY <1>1, <2>1, <2>4, <2>5, <2>6, CodesStay
  <2>. QED BY <1>0, <2>1, <2>5, <2>6, <2>7 DEF VarifyInv, VarifyTypes, CodesSent
<1>6. CASE VarifyMail(r, ok)
  <2> DEFINE c == [varify[r] EXCEPT !.pc = "done", !.error = ~ok]
  <2>1. /\ UNCHANGED code /\ varify[r].pc = "mail"
        /\ mails' = IF ok THEN [mails EXCEPT ![e] = @ \cup {id}] ELSE mails
    BY <1>6 DEF VarifyMail, VarifyAt
  <2>2. varify' = [varify EXCEPT ![r] = c]
    BY <1>0, <1>6 DEF VarifyMail, VarifyDone, VarifyInv, VarifyTypes
  <2>3. c \in Calls /\ c.email = e /\ c.id = id
    BY <1>0 DEF Calls
  <2>. HIDE DEF c
  <2>4. /\ varify' \in [Request -> Calls] /\ CallsTheir' /\ PlanOK'
        /\ varify'[r] = c /\ \A q \in Request : q # r => varify'[q] = varify[q]
    BY <1>1, <2>1, <2>2, <2>3, CallTurns
  <2>5. /\ mails' \in [Email -> SUBSET Request] /\ CodesSent'
        /\ \A d \in Email : mails[d] \subseteq mails'[d]
    BY <1>0, <1>1, <2>1 DEF VarifyInv, CodesSent
  <2>6. CodesKept' /\ CodesExpire'
    <3>1. \A q \in Request : varify[q].pc = "expire" => varify'[q] = varify[q]
      BY <2>1, <2>4
    <3>. QED BY <2>1, <3>1 DEF VarifyInv, CodesKept, CodesExpire, VarifyAt
  <2>. QED BY <1>0, <2>1, <2>4, <2>5, <2>6 DEF VarifyInv, VarifyTypes
<1>. QED BY <1>3, <1>4, <1>5, <1>6 DEF VarifyStep

LEMMA VarifyCalled ==
    ASSUME VarifyInv, UNCHANGED <<plan, faults>>, NEW r \in Request, VarifyAt(r, "idle"),
           VarifyCall(r, plan[r].email)
    PROVE  VarifyInv'
<1> DEFINE c == [pc |-> "get", email |-> plan[r].email, id |-> None, error |-> FALSE]
<1>1. varify' = [varify EXCEPT ![r] = c] /\ UNCHANGED <<code, mails>> /\ varify[r].pc = "idle"
  BY DEF VarifyCall, VarifyAt
<1>2. c \in Calls /\ c.email = plan[r].email /\ c.pc = "get"
  BY DEF VarifyInv, PlanOK, Calls
<1>. HIDE DEF c
<1>3. /\ varify' \in [Request -> Calls] /\ CallsTheir' /\ PlanOK'
      /\ varify'[r] = c /\ \A q \in Request : q # r => varify'[q] = varify[q]
  BY <1>1, <1>2, CallTurns
<1>4. CodesKept' /\ CodesExpire'
  <2>1. \A q \in Request : varify[q].pc = "expire" => varify'[q] = varify[q]
    BY <1>1, <1>3
  <2>. QED BY <1>1, <2>1 DEF VarifyInv, CodesKept, CodesExpire, VarifyAt
<1>. QED BY <1>1, <1>3, <1>4 DEF VarifyInv, VarifyTypes, CodesSent

LEMMA CodeLapses ==
    ASSUME VarifyInv, UNCHANGED <<plan, faults>>, NEW e \in Email, CodeGone(e) PROVE VarifyInv'
<1>1. /\ code' \in [Email -> [id: Request, ttl: BOOLEAN] \cup {None}] /\ UNCHANGED <<mails, varify>>
      /\ code'[e] = None /\ \A d \in Email : d # e => code'[d] = code[d]
  BY DEF CodeGone, VarifyInv, VarifyTypes
<1>2. CodesKept' /\ CodesExpire'
  BY <1>1, CodesStay DEF VarifyInv, VarifyTypes
<1>. QED BY <1>1, <1>2 DEF VarifyInv, VarifyTypes, CodesSent, CallsTheir, PlanOK

\* The steps of the others leave VarifyServer's variables alone.
LEMMA VarifyNext ==
    ASSUME VarifyInv, FailInv, [Next]_vars
    PROVE  VarifyInv' /\ \A d \in Email : mails[d] \subseteq mails'[d]
<1>1. CASE UNCHANGED <<code, mails, varify, plan, faults>>
  BY <1>1 DEF VarifyInv, VarifyTypes, CodesKept, CodesSent, CallsTheir, CodesExpire, PlanOK, VarifyAt
<1>2. ASSUME NEW r \in Request, CallVarify(r) PROVE VarifyInv' /\ UNCHANGED mails
  BY <1>2, VarifyCalled DEF CallVarify, Mail_, VarifyCall, others
<1>3. ASSUME NEW r \in Request, VarifyRuns(r)
      PROVE  VarifyInv' /\ \A d \in Email : mails[d] \subseteq mails'[d]
  <2>1. PICK ok \in Outcome(IF VarifyAt(r, "mail") THEN "mail" ELSE "redis") : VarifyStep(r, ok)
    BY <1>3 DEF VarifyRuns
  <2>2. ok \in BOOLEAN /\ ("redis" \notin faults /\ ~VarifyAt(r, "mail") => ok)
    BY <2>1 DEF Outcome
  <2>. QED BY <1>3, <2>1, <2>2, VarifySteps DEF VarifyRuns, others
<1>4. ASSUME NEW e \in Email, CodeGone(e), UNCHANGED <<plan, faults>> PROVE VarifyInv' /\ UNCHANGED mails
  BY <1>4, CodeLapses DEF CodeGone
<1>5. CASE UNCHANGED vars
  BY <1>1, <1>5 DEF vars, codeVars
<1>6. CASE ServerStep
  BY <1>1, <1>6 DEF ServerStep, codeVars, others
<1>7. CASE KeyStep
  BY <1>1, <1>4, <1>7 DEF KeyStep, codeVars, others
<1>8. ASSUME NEW r \in Request, Receive(r) \/ Search(r) \/ SearchNumber(r) \/ ChatStep(r) \/ StatusRuns(r)
      PROVE  UNCHANGED <<code, mails, varify, plan, faults>>
  BY <1>8 DEF Receive, Search, SearchNumber, ChatStep, CheckToken, ReadCache, ReadTable, FillCache,
       StatusRuns, codeVars, others
<1>9. ASSUME NEW r \in Request, GateStep(r), ~CallVarify(r)
      PROVE  UNCHANGED <<code, mails, varify, plan, faults>>
  BY <1>9 DEF GateStep, WriteResponse, VarifyAnswer, GetConnection, CheckCode, RegUser, CheckEmail,
       UpdatePwd, CheckPwd, CallStatus, StatusAnswer, codeVars, others
<1>. QED BY <1>1, <1>2, <1>3, <1>5, <1>6, <1>7, <1>8, <1>9 DEF Next, Work

-----------------------------------------------------------------------------
(* StatusServer's steps.                                                    *)

\* What one call turns to: nothing else of the state but its own record.
LEMMA ChoiceTurns ==
    ASSUME StatusInv, NEW r \in Request, NEW c \in Choices, status' = [status EXCEPT ![r] = c]
    PROVE  /\ status' \in [Request -> Choices]
           /\ status'[r] = c /\ \A q \in Request : q # r => status'[q] = status[q]
  BY DEF StatusInv, StatusTypes

\* The tokens while no call that has to give one its TTL takes a step.
LEMMA TokensAlone ==
    ASSUME StatusInv, UNCHANGED <<faults, token>>,
           \A q \in Request : status'[q] # status[q] => status[q].pc # "expire"
    PROVE  TokensExpire'
<1> SUFFICES ASSUME "redis" \notin faults, NEW w \in User, token'[w] # None, ~token'[w].ttl
             PROVE  \E q \in Request : status'[q].pc = "expire" /\ status'[q].user = w
  BY DEF TokensExpire, StatusAt
<1>1. PICK q \in Request : status[q].pc = "expire" /\ status[q].user = w
  BY DEF StatusInv, TokensExpire, StatusAt
<1>2. status'[q] = status[q]
  BY <1>1
<1>. QED BY <1>1, <1>2

LEMMA StatusCalled ==
    ASSUME StatusInv, UNCHANGED faults, NEW r \in Request, NEW u \in User, StatusAt(r, "idle"),
           StatusCall(r, u)
    PROVE  StatusInv'
<1> DEFINE c == [pc |-> "wait", user |-> u, next |-> 1, best |-> None, error |-> FALSE]
<1>1. /\ status' = [status EXCEPT ![r] = c] /\ status[r].pc = "idle"
      /\ UNCHANGED <<alive, ipcount, token, choosing, steady>>
  BY DEF StatusCall, StatusAt
<1>2. c \in Choices /\ c.pc = "wait" /\ c.next = 1
  BY OrderAssumption DEF Choices
<1>. HIDE DEF c
<1>3. /\ status' \in [Request -> Choices]
      /\ status'[r] = c /\ \A q \in Request : q # r => status'[q] = status[q]
  BY <1>1, <1>2, ChoiceTurns
<1>4. TokensExpire'
  BY <1>1, <1>3, TokensAlone
<1>. QED BY <1>1, <1>2, <1>3, <1>4 DEF StatusInv, StatusTypes, Chooser, SteadyInv, BestInv, Beaten

LEMMA ChooseStarts ==
    ASSUME StatusInv, UNCHANGED faults, NEW r \in Request, ChooseStart(r) PROVE StatusInv'
<1> DEFINE c == [status[r] EXCEPT !.pc = "read"]
<1>0. StatusTypes /\ status[r] \in Choices
  BY DEF StatusInv, StatusTypes
<1>1. /\ status' = [status EXCEPT ![r] = c] /\ status[r].pc = "wait" /\ choosing = None
      /\ choosing' = r /\ steady' = ipcount /\ UNCHANGED <<alive, ipcount, token>>
  BY <1>0 DEF ChooseStart, StatusAt, StatusTo, StatusTypes
<1>2. c \in Choices /\ c.pc = "read" /\ c.next = 1
  BY <1>0, <1>1 DEF Choices, StatusInv, BestInv
<1>. HIDE DEF c
<1>3. /\ status' \in [Request -> Choices]
      /\ status'[r] = c /\ \A q \in Request : q # r => status'[q] = status[q]
  BY <1>1, <1>2, ChoiceTurns
<1>4. TokensExpire'
  BY <1>1, <1>3, TokensAlone
<1>5. Chooser'
  BY <1>1, <1>2, <1>3, AbsentAssumption DEF StatusInv, Chooser
<1>6. BestInv'
  <2>1. \A q \in Request : q # r => status[q].pc # "read"
    BY <1>1, AbsentAssumption DEF StatusInv, Chooser
  <2>. QED BY <1>2, <1>3, <2>1 DEF StatusInv, BestInv
<1>. QED BY <1>0, <1>1, <1>3, <1>4, <1>5, <1>6 DEF StatusInv, StatusTypes, SteadyInv

\* One count more is read: the best stays as good as what was read before.
LEMMA ChooseReads ==
    ASSUME StatusInv, UNCHANGED faults, NEW r \in Request, NEW ok \in BOOLEAN, ChooseRead(r, ok)
    PROVE  StatusInv'
<1> DEFINE k == status[r].next
           v == Order[k]
           n == CountRead(v, ok)
           best == IF n # None /\ n < BestCount(r) THEN [server |-> v, count |-> n] ELSE status[r].best
           c == [status[r] EXCEPT !.next = k + 1, !.best = best]
<1>0. /\ StatusTypes /\ status[r] \in Choices /\ k \in 1..Len(Order) /\ v \in Server
      /\ status[r].pc = "read" /\ MaxCount \in Nat
  BY OrderAssumption, CountAssumption DEF StatusInv, StatusTypes, Choices, ChooseRead, StatusAt
<1>1. /\ status' = [status EXCEPT ![r] = c] /\ UNCHANGED <<alive, ipcount, token, choosing>>
      /\ steady' = IF ok THEN steady ELSE [steady EXCEPT ![v] = None]
  BY <1>0 DEF ChooseRead, StatusTypes
<1>2. n \in Counts /\ (n # None => n = ipcount[v]) /\ (ok => n = ipcount[v])
  BY <1>0 DEF CountRead, StatusTypes, Counts
<1>3. /\ best \in [server: Server, count: 0..MaxCount] \cup {None}
      /\ status[r].best # None => best # None /\ best.count <= status[r].best.count
      /\ n # None => best # None /\ best.count <= n
  <2>1. status[r].best \in [server: Server, count: 0..MaxCount] \cup {None}
    BY <1>0 DEF Choices
  <2>2. CASE n # None /\ n < BestCount(r)
    <3> DEFINE new == [server |-> v, count |-> n]
    <3>1. best = new
      BY <2>2
    <3>2. new \in [server: Server, count: 0..MaxCount] /\ new.count = n
      BY <1>0, <1>2, <2>2 DEF Counts
    <3>3. new # None
      BY <3>2, AbsentAssumption
    <3>4. status[r].best # None => n <= status[r].best.count
      BY <1>0, <1>2, <2>1, <2>2 DEF BestCount, Counts
    <3>5. n \in 0..MaxCount
      BY <1>2, <2>2 DEF Counts
    <3>. HIDE DEF new, best, n
    <3>. QED BY <3>1, <3>2, <3>3, <3>4, <3>5
  <2>3. CASE ~(n # None /\ n < BestCount(r))
    <3>1. best = status[r].best
      BY <2>3
    <3>2. n # None => status[r].best # None /\ status[r].best.count <= n
      BY <1>0, <1>2, <2>1, <2>3 DEF BestCount, Counts, INT_MAX
    <3>3. status[r].best # None => status[r].best.count <= status[r].best.count
      BY <1>0, <2>1
    <3>. HIDE DEF best, n
    <3>. QED BY <2>1, <3>1, <3>2, <3>3
  <2>. QED BY <2>2, <2>3
<1>. HIDE DEF best, n
<1>4. c \in Choices /\ c.pc = "read" /\ c.next = k + 1 /\ c.best = best
  <2>1. k + 1 \in 1..(Len(Order) + 1)
    <3>1. Len(Order) \in Nat
      BY OrderAssumption
    <3>. QED BY <1>0, <3>1
  <2>. QED BY <1>0, <1>3, <2>1 DEF Choices
<1>5. /\ status' \in [Request -> Choices]
      /\ status'[r] = c /\ \A q \in Request : q # r => status'[q] = status[q]
  <2>. HIDE DEF c
  <2>. QED BY <1>1, <1>4, ChoiceTurns
<1>. HIDE DEF c
<1>6. /\ steady' \in [Server -> Counts]
      /\ \A w \in Server : steady'[w] # None => steady'[w] = steady[w] /\ (w = v => ok)
  BY <1>0, <1>1 DEF StatusTypes, Counts
<1>7. Chooser' /\ SteadyInv' /\ TokensExpire'
  <2>1. Chooser' /\ SteadyInv'
    BY <1>0, <1>1, <1>4, <1>5, <1>6 DEF StatusInv, Chooser, SteadyInv
  <2>2. TokensExpire'
    BY <1>0, <1>1, <1>5, TokensAlone
  <2>. QED BY <2>1, <2>2
<1>8. BestInv'
  <2>1. \A q \in Request : q # r => status[q].pc # "read"
    BY <1>0 DEF StatusInv, Chooser
  <2>2. ASSUME NEW i \in 1..Len(Order), i < k + 1, steady'[Order[i]] # None
        PROVE  best # None /\ best.count <= steady'[Order[i]]
    <3>1. Order[i] \in Server /\ steady'[Order[i]] \in 0..MaxCount
      BY <1>6, <2>2, OrderAssumption DEF Counts
    <3>2. steady'[Order[i]] = steady[Order[i]]
      BY <1>6, <2>2, <3>1
    <3>3. CASE i = k
      <4>1. n = steady[v] /\ n # None
        BY <1>0, <1>2, <1>6, <2>2, <3>2, <3>3 DEF StatusInv, SteadyInv
      <4>. QED BY <1>3, <3>2, <3>3, <4>1
    <3>4. CASE i < k
      <4>1. status[r].best # None /\ status[r].best.count <= steady[Order[i]]
        BY <1>0, <2>2, <3>2, <3>4 DEF StatusInv, BestInv, Beaten
      <4>2. status[r].best.count \in 0..MaxCount /\ best.count \in 0..MaxCount
        BY <1>0, <1>3, <4>1 DEF Choices
      <4>3. best # None /\ best.count <= status[r].best.count
        BY <1>3, <4>1
      <4>. QED BY <1>0, <3>1, <3>2, <4>1, <4>2, <4>3
    <3>. QED BY <1>0, <2>2, <3>3, <3>4
  <2>3. \A i \in 1..Len(Order) : i < status'[r].next => Beaten(status[r], Order[i])'
    BY <1>4, <1>5, <2>2 DEF Beaten
  <2>. QED BY <1>4, <1>5, <2>1, <2>3 DEF StatusInv, BestInv
<1>. QED BY <1>0, <1>1, <1>5, <1>6, <1>7, <1>8 DEF StatusInv, StatusTypes

LEMMA ChooseEnds ==
    ASSUME StatusInv, UNCHANGED faults, NEW r \in Request, ChooseEnd(r) PROVE StatusInv'
<1> DEFINE c == IF status[r].best = None THEN [status[r] EXCEPT !.pc = "done", !.error = TRUE]
                ELSE [status[r] EXCEPT !.pc = "insert"]
<1>0. StatusTypes /\ status[r] \in Choices /\ status[r].pc = "read"
  BY DEF StatusInv, StatusTypes, ChooseEnd, StatusAt
<1>1. /\ status' = [status EXCEPT ![r] = c] /\ choosing' = None
      /\ steady' = [v \in Server |-> None] /\ UNCHANGED <<alive, ipcount, token>>
  BY <1>0 DEF ChooseEnd, StatusTypes
<1>2. c \in Choices /\ c.pc \in {"done", "insert"}
  BY <1>0 DEF Choices
<1>. HIDE DEF c
<1>3. /\ status' \in [Request -> Choices]
      /\ status'[r] = c /\ \A q \in Request : q # r => status'[q] = status[q]
  BY <1>1, <1>2, ChoiceTurns
<1>4. TokensExpire'
  BY <1>0, <1>1, <1>3, TokensAlone
<1>5. \A q \in Request : q # r => status[q].pc # "read"
  BY <1>0 DEF StatusInv, Chooser
<1>6. Chooser' /\ BestInv'
  BY <1>1, <1>2, <1>3, <1>5, AbsentAssumption DEF StatusInv, Chooser, BestInv
<1>. QED BY <1>0, <1>1, <1>3, <1>4, <1>6 DEF StatusInv, StatusTypes, SteadyInv, Counts

LEMMA TokenSteps ==
    ASSUME StatusInv, UNCHANGED faults, NEW r \in Request, NEW ok \in BOOLEAN,
           "redis" \notin faults => ok, TokenSet(r, ok) \/ TokenExpire(r, ok)
    PROVE  StatusInv'
<1> DEFINE u == status[r].user
           p == IF status[r].pc = "insert" THEN "expire" ELSE "done"
           c == [status[r] EXCEPT !.pc = p]
<1>0. StatusTypes /\ status[r] \in Choices /\ status[r].pc \in {"insert", "expire"}
  BY DEF StatusInv, StatusTypes, TokenSet, TokenExpire, StatusAt
<1>1. status' = [status EXCEPT ![r] = c] /\ UNCHANGED <<alive, ipcount, choosing, steady>>
  BY <1>0 DEF TokenSet, TokenExpire, StatusTo, StatusAt, StatusTypes
<1>2. c \in Choices /\ c.pc = p /\ c.user = u /\ p # "read" /\ p # "wait"
  BY <1>0 DEF Choices
<1>3. /\ status' \in [Request -> Choices]
      /\ status'[r] = c /\ \A q \in Request : q # r => status'[q] = status[q]
  <2>. HIDE DEF c
  <2>. QED BY <1>1, <1>2, ChoiceTurns
<1>. HIDE DEF c
<1>4. /\ token' \in [User -> [id: Request, ttl: BOOLEAN] \cup {None}]
      /\ \A w \in User : w # u => token'[w] = token[w]
      /\ ok /\ u \in User /\ token'[u] # None /\ ~token'[u].ttl => p = "expire"
  <2>1. CASE TokenSet(r, ok)
    <3> DEFINE new == [id |-> r, ttl |-> FALSE]
    <3>1. token' \in {token, [token EXCEPT ![u] = new]} /\ p = "expire"
      BY <2>1 DEF TokenSet, SetOutcomes, StatusAt
    <3>2. new \in [id: Request, ttl: BOOLEAN]
      OBVIOUS
    <3>. HIDE DEF new, u, p
    <3>. QED BY <1>0, <3>1, <3>2 DEF StatusTypes
  <2>2. CASE TokenExpire(r, ok)
    <3> DEFINE new == [token[u] EXCEPT !.ttl = TRUE]
    <3>1. /\ token' \in {token, [token EXCEPT ![u] = new]}
          /\ ok => token' = IF token[u] = None THEN token ELSE [token EXCEPT ![u] = new]
          /\ token[u] = None => token' = token
      BY <1>0, <2>2 DEF TokenExpire, ExpireOutcomes, StatusTypes
    <3>2. u \in User /\ token[u] # None => new \in [id: Request, ttl: BOOLEAN] /\ new.ttl = TRUE
      BY <1>0 DEF StatusTypes
    <3>. HIDE DEF new, u, p
    <3>. QED BY <1>0, <3>1, <3>2 DEF StatusTypes
  <2>. QED BY <2>1, <2>2
<1>5. TokensExpire'
  <2> SUFFICES ASSUME "redis" \notin faults, NEW w \in User, token'[w] # None, ~token'[w].ttl
               PROVE  \E q \in Request : status'[q].pc = "expire" /\ status'[q].user = w
    BY DEF TokensExpire, StatusAt
  <2>1. CASE w = u
    BY <1>2, <1>3, <1>4, <2>1
  <2>2. CASE w # u
    <3>1. PICK q \in Request : status[q].pc = "expire" /\ status[q].user = w
      BY <1>4, <2>2 DEF StatusInv, TokensExpire, StatusAt
    <3>. QED BY <1>3, <2>2, <3>1
  <2>. QED BY <2>1, <2>2
<1>6. Chooser' /\ BestInv'
  <2>1. status[r].pc # "read" /\ choosing # r
    BY <1>0 DEF StatusInv, Chooser
  <2>2. Chooser'
    BY <1>1, <1>2, <1>3, <2>1 DEF StatusInv, Chooser
  <2>3. BestInv'
    BY <1>1, <1>2, <1>3 DEF StatusInv, BestInv, Beaten
  <2>. QED BY <2>2, <2>3
<1>. QED BY <1>0, <1>1, <1>3, <1>4, <1>5, <1>6 DEF StatusInv, StatusTypes, SteadyInv

\* A ChatServer starts, stops or counts: a count that changes is no longer steady.
LEMMA CountChanges ==
    ASSUME StatusInv, UNCHANGED faults, NEW v \in Server, NEW n \in Counts, CountTo(v, n),
           alive' \subseteq Server
    PROVE  StatusInv'
<1>0. StatusTypes /\ UNCHANGED <<token, status, choosing>>
  BY DEF StatusInv, CountTo, choiceVars
<1>1. /\ ipcount' = [ipcount EXCEPT ![v] = n]
      /\ steady' = IF n = ipcount[v] THEN steady ELSE [steady EXCEPT ![v] = None]
  BY DEF CountTo
<1>2. /\ ipcount' \in [Server -> Counts] /\ steady' \in [Server -> Counts]
      /\ \A w \in Server : steady'[w] # None => steady'[w] = steady[w] /\ ipcount'[w] = ipcount[w]
  BY <1>0, <1>1 DEF StatusTypes, Counts
<1>3. SteadyInv'
  BY <1>2 DEF StatusInv, SteadyInv
<1>4. BestInv'
  <2>1. \A i \in 1..Len(Order) : Order[i] \in Server
    BY OrderAssumption
  <2>. QED BY <1>0, <1>2, <2>1 DEF StatusInv, BestInv, Beaten
<1>5. TokensExpire' /\ Chooser'
  BY <1>0 DEF StatusInv, TokensExpire, StatusAt, Chooser
<1>. QED BY <1>0, <1>2, <1>3, <1>4, <1>5 DEF StatusInv, StatusTypes

LEMMA TokenLapses ==
    ASSUME StatusInv, UNCHANGED faults, NEW u \in User, TokenGone(u) PROVE StatusInv'
<1>0. StatusTypes /\ UNCHANGED <<alive, ipcount, status, choosing, steady>>
  BY DEF StatusInv, TokenGone, choiceVars
<1>1. /\ token' \in [User -> [id: Request, ttl: BOOLEAN] \cup {None}]
      /\ token'[u] = None /\ \A w \in User : w # u => token'[w] = token[w]
  BY <1>0 DEF TokenGone, StatusTypes
<1>2. TokensExpire'
  BY <1>0, <1>1 DEF StatusInv, TokensExpire, StatusAt
<1>. QED BY <1>0, <1>1, <1>2 DEF StatusInv, StatusTypes, Chooser, SteadyInv, BestInv, Beaten

LEMMA StatusNext ==
    ASSUME StatusInv, FailInv, [Next]_vars PROVE StatusInv'
<1>1. CASE UNCHANGED <<statusVars, faults>>
  BY <1>1 DEF statusVars, choiceVars, StatusInv, StatusTypes, Chooser, SteadyInv, BestInv, Beaten,
       TokensExpire, StatusAt
<1>2. ASSUME NEW r \in Request, CallStatus(r) PROVE StatusInv'
  BY <1>2, StatusCalled DEF CallStatus, Owner, others
<1>3. ASSUME NEW r \in Request, StatusRuns(r) PROVE StatusInv'
  <2>1. CASE ChooseStart(r) \/ ChooseEnd(r)
    BY <1>3, <2>1, ChooseStarts, ChooseEnds DEF StatusRuns, others
  <2>2. ASSUME NEW ok \in Outcome("redis"), StatusStep(r, ok) PROVE StatusInv'
    <3>1. ok \in BOOLEAN /\ ("redis" \notin faults => ok)
      BY <2>2 DEF Outcome
    <3>. QED BY <1>3, <2>2, <3>1, ChooseReads, TokenSteps DEF StatusRuns, StatusStep, others
  <2>. QED BY <1>3, <2>1, <2>2 DEF StatusRuns
<1>4. ASSUME NEW v \in Server, ServerCrash(v), UNCHANGED faults PROVE StatusInv'
  BY <1>4 DEF ServerCrash, choiceVars, StatusInv, StatusTypes, Chooser, SteadyInv, BestInv, Beaten,
       TokensExpire, StatusAt
<1>5. CASE ServerStep
  <2>1. UNCHANGED faults
    BY <1>5 DEF ServerStep, others
  <2>2. ASSUME NEW v \in Server, NEW n \in 0..MaxCount, OnTimer(v, n) PROVE StatusInv'
    BY <2>1, <2>2, CountChanges DEF OnTimer, Counts, StatusInv, StatusTypes
  <2>3. ASSUME NEW v \in Server, CountGone(v) PROVE StatusInv'
    BY <2>1, <2>3, CountChanges DEF CountGone, Counts, StatusInv, StatusTypes
  <2>4. ASSUME NEW v \in Server, ServerStart(v) PROVE StatusInv'
    BY <2>1, <2>4, CountChanges, CountAssumption DEF ServerStart, Counts, StatusInv, StatusTypes
  <2>5. ASSUME NEW v \in Server, ServerStop(v) PROVE StatusInv'
    BY <2>1, <2>5, CountChanges DEF ServerStop, Counts, StatusInv, StatusTypes
  <2>6. ASSUME NEW v \in Server, OldStartStop(v) PROVE StatusInv'
    BY <2>1, <2>6, CountChanges DEF OldStartStop, StatusInv, StatusTypes
  <2>. QED BY <1>4, <1>5, <2>1, <2>2, <2>3, <2>4, <2>5, <2>6 DEF ServerStep
<1>6. CASE KeyStep
  BY <1>1, <1>6, TokenLapses DEF KeyStep, others
<1>7. CASE UNCHANGED vars
  BY <1>1, <1>7 DEF vars
<1>8. ASSUME NEW r \in Request, SearchNumber(r) PROVE StatusInv'
  BY <1>4, <1>8 DEF SearchNumber, others, StatusInv, StatusTypes
<1>9. ASSUME NEW r \in Request, Receive(r) \/ Search(r) \/ ChatStep(r) \/ VarifyRuns(r)
      PROVE  UNCHANGED <<statusVars, faults>>
  BY <1>9 DEF Receive, Search, ChatStep, CheckToken, ReadCache, ReadTable, FillCache, VarifyRuns, others
<1>10. ASSUME NEW r \in Request, GateStep(r), ~CallStatus(r) PROVE UNCHANGED <<statusVars, faults>>
  BY <1>10 DEF GateStep, WriteResponse, CallVarify, VarifyAnswer, GetConnection, CheckCode, RegUser,
       CheckEmail, UpdatePwd, CheckPwd, StatusAnswer, others
<1>. QED BY <1>1, <1>2, <1>3, <1>5, <1>6, <1>7, <1>8, <1>9, <1>10 DEF Next, Work

-----------------------------------------------------------------------------
(* GetServer's steps.                                                       *)

Using == {r \in Request : gate[r].con}

LEMMA Sums ==
    \A a, b, c, d, k, x, y, n \in Nat :
        a + b + (k + x) = n /\ c + d + y = a + b + x => c + d + (k + y) = n
OBVIOUS

\* A request goes on: connections are neither made nor forgotten, and rows keep their e-mail.
LEMMA GateTurns ==
    ASSUME GateInv, UNCHANGED plan, NEW r \in Request, NEW g \in Gate, gate' = [gate EXCEPT ![r] = g],
           db' \in [User -> RowOrNone], \A u \in User : db[u] # None =>
              db'[u] # None /\ db'[u].email = db[u].email,
           free' \in Nat, leaked' \in Nat,
           free' + leaked' + (IF g.con THEN 1 ELSE 0) = free + leaked + (IF gate[r].con THEN 1 ELSE 0),
           profile' \in [Key -> RowOrNone], \A e \in Email : mails[e] \subseteq mails'[e],
           g.pc \in Proving => g.typed \in mails'[Mail_(r)],
           g.pc = "update_pwd" => db'[User_(r)] # None /\ db'[User_(r)].email = Mail_(r),
           \A q \in Request : status'[q].pc # "idle" => status'[q].user \in User,
           \A q \in Request : status[q].user \in User => status'[q].user \in User,
           Granted(g) => status'[r].user \in User,
           g.pc \in {"cache", "user", "fill"} => g.key \in Key
    PROVE  GateInv'
<1>1. /\ gate' \in [Request -> Gate]
      /\ gate'[r] = g /\ \A q \in Request : q # r => gate'[q] = gate[q]
  BY DEF GateInv, GateTypes
<1>2. PlanOK' /\ GateTypes'
  BY <1>1 DEF GateInv, PlanOK, GateTypes
<1>3. \A q \in Request : plan[q].user \in User /\ plan[q].email \in Email
  BY DEF GateInv, PlanOK
<1>4. Typists' /\ Updates'
  BY <1>1, <1>3 DEF GateInv, Typists, Updates, Mail_, User_
<1>5. Named'
  BY <1>1 DEF GateInv, Named
<1>6. PoolAccounted'
  <2> DEFINE rest == Using \ {r}
  <2>1. IsFiniteSet(Using) /\ IsFiniteSet(rest) /\ rest \subseteq Request /\ r \notin rest
    BY RequestAssumption, FS_Subset DEF Using
  <2>2. Cardinality(rest) \in Nat /\ Cardinality(rest \cup {r}) = Cardinality(rest) + 1
    BY <2>1, FS_CardinalityType, FS_AddElement
  <2>3. Using = IF gate[r].con THEN rest \cup {r} ELSE rest
    BY DEF Using
  <2>4. Using' = IF g.con THEN rest \cup {r} ELSE rest
    BY <1>1 DEF Using
  <2>5. free + leaked + Cardinality(Using) = PoolSize
    BY DEF GateInv, PoolAccounted, Using
  <2> DEFINE k == Cardinality(rest)
             x == IF gate[r].con THEN 1 ELSE 0
             y == IF g.con THEN 1 ELSE 0
  <2>6. Cardinality(Using) = k + x /\ x \in Nat
    <3>1. CASE gate[r].con
      BY <2>2, <2>3, <3>1
    <3>2. CASE ~gate[r].con
      <4>1. Using = rest /\ x = 0
        BY <2>3, <3>2
      <4>. HIDE DEF rest, x
      <4>. QED BY <2>2, <4>1
    <3>. QED BY <3>1, <3>2
  <2>7. Cardinality(Using') = k + y /\ y \in Nat
    <3>1. CASE g.con
      BY <2>2, <2>4, <3>1
    <3>2. CASE ~g.con
      BY <2>2, <2>4, <3>2
    <3>. QED BY <3>1, <3>2
  <2>8. free' + leaked' + y = free + leaked + x
    OBVIOUS
  <2>9. free \in Nat /\ leaked \in Nat /\ k \in Nat /\ PoolSize \in Nat
    BY <2>2, PoolAssumption DEF GateInv, GateTypes
  <2>10. free' + leaked' + Cardinality(Using') = PoolSize
    <3>. HIDE DEF k, x, y
    <3>1. free + leaked + (k + x) = PoolSize
      BY <2>5, <2>6
    <3>2. free' \in Nat /\ leaked' \in Nat
      OBVIOUS
    <3>. DEFINE a == free
                b == leaked
                c == free'
                d == leaked'
    <3>4. a \in Nat /\ b \in Nat /\ c \in Nat /\ d \in Nat /\ k \in Nat /\ x \in Nat /\ y \in Nat /\ PoolSize \in Nat
      BY <2>6, <2>7, <2>9, <3>2
    <3>5. a + b + (k + x) = PoolSize /\ c + d + y = a + b + x
      BY <2>8, <3>1
    <3>6. c + d + (k + y) = PoolSize
      <4>. HIDE DEF a, b, c, d
      <4>. QED BY <3>4, <3>5, Sums
    <3>3. free' + leaked' + (k + y) = PoolSize
      BY <3>6
    <3>. QED BY <2>7, <3>3
  <2>. QED BY <2>10 DEF PoolAccounted, Using
<1>. QED BY <1>2, <1>4, <1>5, <1>6 DEF GateInv

\* The other servers go on: mails are added and calls keep their users.
LEMMA GateStays ==
    ASSUME GateInv, UNCHANGED <<plan, gate, db, free, leaked, profile>>,
           \A e \in Email : mails[e] \subseteq mails'[e],
           \A q \in Request : status'[q].pc # "idle" => status'[q].user \in User,
           \A q \in Request : status[q].user \in User => status'[q].user \in User
    PROVE  GateInv'
<1>1. \A q \in Request : plan[q].user \in User /\ plan[q].email \in Email
  BY DEF GateInv, PlanOK
<1>2. PlanOK' /\ GateTypes' /\ PoolAccounted'
  BY DEF GateInv, PlanOK, GateTypes, PoolAccounted
<1>3. Typists' /\ Updates'
  BY <1>1 DEF GateInv, Typists, Updates, Mail_, User_
<1>4. Named'
  BY DEF GateInv, Named
<1>. QED BY <1>2, <1>3, <1>4 DEF GateInv

\* A call to StatusServer is for a user from its start on.
LEMMA CallsNamed ==
    ASSUME StatusInv, FailInv, GateInv, [Next]_vars
    PROVE  /\ \A q \in Request : status'[q].pc # "idle" => status'[q].user \in User
           /\ \A q \in Request : status[q].user \in User => status'[q].user \in User
<1> DEFINE Goal == /\ \A q \in Request : status'[q].pc # "idle" => status'[q].user \in User
                   /\ \A q \in Request : status[q].user \in User => status'[q].user \in User
<1>0. status \in [Request -> Choices] /\ \A q \in Request : status[q].pc # "idle" => status[q].user \in User
  BY DEF StatusInv, StatusTypes, GateInv, Named
<1>1. CASE UNCHANGED status
  BY <1>0, <1>1
<1>2. ASSUME NEW r \in Request, NEW c \in Choices, status' = [status EXCEPT ![r] = c],
             c.user \in User \/ (c.user = status[r].user /\ status[r].pc # "idle")
      PROVE  Goal
  BY <1>0, <1>2
<1>3. ASSUME NEW r \in Request, CallStatus(r) PROVE Goal
  <2>1. PICK u \in User : StatusCall(r, u)
    BY <1>3 DEF CallStatus, Owner
  <2> DEFINE c == [pc |-> "wait", user |-> u, next |-> 1, best |-> None, error |-> FALSE]
  <2>2. status' = [status EXCEPT ![r] = c] /\ c \in Choices /\ c.user \in User
    BY <2>1, OrderAssumption DEF StatusCall, Choices
  <2>. HIDE DEF c
  <2>. QED BY <1>2, <2>2
<1>4. ASSUME NEW r \in Request, StatusRuns(r) PROVE Goal
  <2>1. /\ status[r].pc # "idle"
        /\ \A q \in Request : q # r => status'[q] = status[q]
        /\ status'[r].user = status[r].user
    BY <1>0, <1>4 DEF StatusRuns, StatusStep, ChooseRead, TokenSet, TokenExpire, ChooseStart, ChooseEnd,
         StatusAt, StatusTo, Choices
  <2>. QED BY <1>0, <2>1
<1>5. CASE ServerStep
  BY <1>1, <1>5 DEF ServerStep, OnTimer, CountGone, ServerStart, ServerStop, OldStartStop, ServerCrash,
       CountTo, choiceVars
<1>6. CASE KeyStep
  BY <1>1, <1>6 DEF KeyStep, TokenGone, statusVars, choiceVars
<1>7. CASE UNCHANGED vars
  BY <1>1, <1>7 DEF vars, statusVars, choiceVars
<1>8. ASSUME NEW r \in Request, Receive(r) \/ Search(r) \/ SearchNumber(r) \/ ChatStep(r) \/ VarifyRuns(r)
      PROVE  UNCHANGED status
  BY <1>8 DEF Receive, Search, SearchNumber, ServerCrash, ChatStep, CheckToken, ReadCache, ReadTable,
       FillCache, VarifyRuns, statusVars, choiceVars
<1>9. ASSUME NEW r \in Request, GateStep(r), ~CallStatus(r) PROVE UNCHANGED status
  BY <1>9 DEF GateStep, WriteResponse, CallVarify, VarifyAnswer, GetConnection, CheckCode, RegUser,
       CheckEmail, UpdatePwd, CheckPwd, StatusAnswer, statusVars, choiceVars
<1>. QED BY <1>1, <1>3, <1>4, <1>5, <1>6, <1>7, <1>8, <1>9 DEF Next, Work

\* What the steps of one request have in common: no row changes, no connection moves.
LEMMA GateGoes ==
    ASSUME VarifyInv, StatusInv, FailInv, GateInv, [Next]_vars, UNCHANGED plan,
           NEW r \in Request, NEW g \in Gate, gate' = [gate EXCEPT ![r] = g], g.con = gate[r].con,
           UNCHANGED <<db, free, leaked>>, profile' \in [Key -> RowOrNone],
           g.pc \notin Proving,
           Granted(g) => status[r].user \in User,
           g.pc \in {"cache", "user", "fill"} => g.key \in Key
    PROVE  GateInv'
<1>1. /\ \A q \in Request : status'[q].pc # "idle" => status'[q].user \in User
      /\ \A q \in Request : status[q].user \in User => status'[q].user \in User
  BY CallsNamed
<1>2. \A e \in Email : mails[e] \subseteq mails'[e]
  BY VarifyNext
<1>3. /\ db' \in [User -> RowOrNone] /\ free' \in Nat /\ leaked' \in Nat
      /\ \A u \in User : db[u] # None => db'[u] # None /\ db'[u].email = db[u].email
      /\ free' + leaked' + (IF g.con THEN 1 ELSE 0) = free + leaked + (IF gate[r].con THEN 1 ELSE 0)
  BY DEF GateInv, GateTypes
<1>4. g.pc # "update_pwd"
  BY DEF Proving
<1>. QED BY <1>1, <1>2, <1>3, <1>4, GateTurns

\* The handlers of HttpConnection and of the calls, as far as they touch no connection.
LEMMA Handlers ==
    ASSUME VarifyInv, StatusInv, FailInv, GateInv, [Next]_vars, NEW r \in Request,
           Receive(r) \/ WriteResponse(r) \/ VarifyAnswer(r) \/ StatusAnswer(r)
    PROVE  GateInv'
<1>0. gate \in [Request -> Gate] /\ gate[r] \in Gate /\ UNCHANGED <<plan, db, free, leaked, profile>>
      /\ profile \in [Key -> RowOrNone]
  BY DEF GateInv, GateTypes, Receive, WriteResponse, VarifyAnswer, StatusAnswer, others
<1>1. \E p \in GatePc \ Proving, a \in Answers \cup {None} :
         /\ gate' = [gate EXCEPT ![r].pc = p, ![r].answer = a]
         /\ p \notin {"cache", "user", "fill"}
         /\ p = "chat" \/ (p = "write" /\ a = "token") => status[r].user \in User
  <2>. DEFINE Goal == \E p \in GatePc \ Proving, a \in Answers \cup {None} :
                        /\ gate' = [gate EXCEPT ![r].pc = p, ![r].answer = a]
                        /\ p \notin {"cache", "user", "fill"}
                        /\ p = "chat" \/ (p = "write" /\ a = "token") => status[r].user \in User
  <2>0. ASSUME NEW a \in Answers, Reply(r, a), a = "token" => status[r].user \in User PROVE Goal
    <3>1. gate' = [gate EXCEPT ![r].pc = "write", ![r].answer = a]
      BY <2>0 DEF Reply
    <3>2. \E p \in GatePc \ Proving : p = "write"
      BY DEF GatePc, DbPc, Proving
    <3>3. PICK p \in GatePc \ Proving : p = "write"
      BY <3>2
    <3>4. gate' = [gate EXCEPT ![r].pc = p, ![r].answer = a]
      BY <3>1, <3>3
    <3>5. a \in Answers \cup {None} /\ p \notin {"cache", "user", "fill"} /\ p # "chat"
      BY <3>3
    <3>. QED BY <2>0, <3>4, <3>5
  <2>1. CASE Receive(r)
    <3>1. \E p \in {"varify", "check_pwd", "code"} : To(r, p)
          \/ \E a \in {"json", "confirm"} : Reply(r, a)
      BY <2>1 DEF Receive
    <3>2. ASSUME NEW p \in {"varify", "check_pwd", "code"}, To(r, p)
          PROVE  gate' = [gate EXCEPT ![r].pc = p, ![r].answer = gate[r].answer]
      BY <1>0, <3>2 DEF To, Gate
    <3>4. ASSUME NEW p \in {"varify", "check_pwd", "code"}, To(r, p) PROVE Goal
      <4>1. p \in GatePc \ Proving /\ gate[r].answer \in Answers \cup {None}
            /\ p \notin {"cache", "user", "fill", "chat", "write"}
        BY <1>0 DEF GatePc, DbPc, Proving, Gate
      <4>. QED BY <3>2, <3>4, <4>1
    <3>5. {"json", "confirm"} \subseteq Answers \ {"token"}
      BY DEF Answers
    <3>. QED BY <2>0, <3>1, <3>4, <3>5
  <2>2. CASE WriteResponse(r)
    <3>1. \E p \in {"cut", "chat", "end"} : To(r, p) /\ (p = "chat" => gate[r].answer = "token")
      BY <2>2 DEF WriteResponse
    <3>2. ASSUME NEW p \in {"cut", "chat", "end"}, To(r, p)
          PROVE  gate' = [gate EXCEPT ![r].pc = p, ![r].answer = gate[r].answer]
      BY <1>0, <3>2 DEF To, Gate
    <3>3. gate[r].answer = "token" => status[r].user \in User
      BY <2>2 DEF WriteResponse, At, GateInv, Named, Granted
    <3>. QED BY <1>0, <3>1, <3>2, <3>3 DEF GatePc, DbPc, Proving, Gate
  <2>3. CASE VarifyAnswer(r)
    <3>1. \E a \in {"rpc", "varify", "ok"} : Reply(r, a)
      BY <2>3 DEF VarifyAnswer
    <3>2. {"rpc", "varify", "ok"} \subseteq Answers \ {"token"}
      BY DEF Answers
    <3>. QED BY <2>0, <3>1, <3>2
  <2>4. CASE StatusAnswer(r)
    <3>1. \E a \in {"rpc", "token"} : Reply(r, a) /\ (a = "token" => status[r].pc = "done")
      BY <2>4 DEF StatusAnswer, StatusAt
    <3>2. status[r].pc = "done" => status[r].user \in User
      BY DEF GateInv, Named
    <3>3. {"rpc", "token"} \subseteq Answers
      BY DEF Answers
    <3>. QED BY <2>0, <3>1, <3>2, <3>3
  <2>. QED BY <2>1, <2>2, <2>3, <2>4
<1>2. PICK p \in GatePc \ Proving, a \in Answers \cup {None} :
         /\ gate' = [gate EXCEPT ![r].pc = p, ![r].answer = a]
         /\ p \notin {"cache", "user", "fill"}
         /\ p = "chat" \/ (p = "write" /\ a = "token") => status[r].user \in User
  BY <1>1
<1> DEFINE g == [gate[r] EXCEPT !.pc = p, !.answer = a]
<1>3. gate' = [gate EXCEPT ![r] = g] /\ g \in Gate /\ g.pc = p /\ g.answer = a /\ g.con = gate[r].con
  BY <1>0, <1>2 DEF Gate
<1>. HIDE DEF g
<1>. QED BY <1>0, <1>2, <1>3, GateGoes DEF Granted

\* The way through the cache and the table.
LEMMA Profiles ==
    ASSUME VarifyInv, StatusInv, FailInv, GateInv, [Next]_vars, NEW r \in Request,
           Search(r) \/ SearchNumber(r) \/ ChatStep(r)
    PROVE  GateInv'
<1>0. gate \in [Request -> Gate] /\ gate[r] \in Gate /\ UNCHANGED <<plan, db, free, leaked>>
      /\ profile \in [Key -> RowOrNone] /\ db \in [User -> RowOrNone] /\ plan[r].user \in User
  BY DEF GateInv, GateTypes, Search, SearchNumber, ChatStep, CheckToken, ReadCache, ReadTable, FillCache,
     others, PlanOK
<1>1. CASE Search(r)
  <2>1. PICK by \in {"uid", "name"} : gate' = [gate EXCEPT ![r].pc = "cache", ![r].key = <<by, User_(r)>>]
    BY <1>1 DEF Search, SearchBy
  <2> DEFINE g == [gate[r] EXCEPT !.pc = "cache", !.key = <<by, User_(r)>>]
  <2>2. <<by, User_(r)>> \in Key
    BY <1>0 DEF Key, User_
  <2>3. gate' = [gate EXCEPT ![r] = g] /\ g \in Gate /\ g.pc = "cache" /\ g.con = gate[r].con
        /\ g.key \in Key /\ g.answer = gate[r].answer
    BY <1>0, <2>1, <2>2 DEF Gate, GatePc
  <2>4. profile' = profile
    BY <1>1 DEF Search
  <2>. HIDE DEF g
  <2>. QED BY <1>0, <2>3, <2>4, GateGoes DEF Proving, Granted
<1>2. CASE SearchNumber(r)
  <2> DEFINE g == [gate[r] EXCEPT !.pc = "end"]
  <2>1. gate' = [gate EXCEPT ![r] = g] /\ g \in Gate /\ g.pc = "end" /\ g.con = gate[r].con
        /\ g.answer = gate[r].answer
    BY <1>0, <1>2 DEF Gate, GatePc, SearchNumber, To
  <2>2. profile' = profile
    BY <1>2 DEF SearchNumber
  <2>. HIDE DEF g
  <2>. QED BY <1>0, <2>1, <2>2, GateGoes DEF Proving, Granted
<1>3. CASE CheckToken(r)
  <2>1. status[r].user \in User /\ UNCHANGED profile
    BY <1>3 DEF CheckToken, GateInv, Named, At, Granted
  <2>2. PICK g : /\ gate' = [gate EXCEPT ![r] = g]
                 /\ g \in {[gate[r] EXCEPT !.pc = "end"], [gate[r] EXCEPT !.pc = "end", !.answer = "refused"],
                             [gate[r] EXCEPT !.pc = "cache", !.key = <<"uid", status[r].user>>]}
    BY <1>0, <1>3 DEF CheckToken
  <2>3. <<"uid", status[r].user>> \in Key
    BY <2>1 DEF Key
  <2>4. g \in Gate /\ g.con = gate[r].con /\ g.pc \in {"end", "cache"} /\ (g.pc = "cache" => g.key \in Key)
    BY <1>0, <2>2, <2>3 DEF Gate, GatePc, Answers
  <2>. QED BY <1>0, <2>1, <2>2, <2>4, GateGoes DEF Proving, Granted
<1>4. CASE ReadCache(r)
  <2>1. gate[r].key \in Key /\ UNCHANGED profile
    BY <1>4 DEF ReadCache, GateInv, Named, At, Granted
  <2>2. PICK ok \in BOOLEAN :
           gate' = IF Cached(gate[r].key, ok) # None
                   THEN [gate EXCEPT ![r].pc = "end", ![r].row = Cached(gate[r].key, ok)]
                   ELSE [gate EXCEPT ![r].pc = "user"]
    BY <1>4 DEF ReadCache, To, Outcome
  <2> DEFINE row == Cached(gate[r].key, ok)
             g == IF row # None THEN [gate[r] EXCEPT !.pc = "end", !.row = row]
                  ELSE [gate[r] EXCEPT !.pc = "user"]
  <2>3. row \in RowOrNone
    BY <1>0, <2>1 DEF Cached, RowOrNone
  <2>4. gate' = [gate EXCEPT ![r] = g]
    BY <1>0, <2>2
  <2>. HIDE DEF row
  <2>5. g \in Gate /\ g.con = gate[r].con /\ g.pc \in {"end", "user"} /\ g.key = gate[r].key
        /\ g.answer = gate[r].answer
    BY <1>0, <2>3 DEF Gate, GatePc
  <2>. HIDE DEF g
  <2>. QED BY <1>0, <2>1, <2>4, <2>5, GateGoes DEF Proving, Granted
<1>5. CASE ReadTable(r)
  <2>1. gate[r].key \in Key /\ UNCHANGED profile
    BY <1>5 DEF ReadTable, GateInv, Named, At, Granted
  <2>2. PICK ok \in BOOLEAN :
           gate' = IF GetUser(gate[r].key, ok) # None
                   THEN [gate EXCEPT ![r].pc = "fill", ![r].row = GetUser(gate[r].key, ok)]
                   ELSE [gate EXCEPT ![r].pc = "end", ![r].answer = "unknown"]
    BY <1>5 DEF ReadTable, Outcome
  <2> DEFINE row == GetUser(gate[r].key, ok)
             g == IF row # None THEN [gate[r] EXCEPT !.pc = "fill", !.row = row]
                  ELSE [gate[r] EXCEPT !.pc = "end", !.answer = "unknown"]
  <2>3. row \in RowOrNone
    BY <1>0, <2>1 DEF GetUser, RowOrNone, Key
  <2>4. gate' = [gate EXCEPT ![r] = g]
    BY <1>0, <2>2
  <2>. HIDE DEF row
  <2>5. g \in Gate /\ g.con = gate[r].con /\ g.pc \in {"end", "fill"} /\ g.key = gate[r].key
        /\ g.answer \in {gate[r].answer, "unknown"}
    BY <1>0, <2>3 DEF Gate, GatePc, Answers
  <2>. HIDE DEF g
  <2>. QED BY <1>0, <2>1, <2>4, <2>5, GateGoes DEF Proving, Granted
<1>6. CASE FillCache(r)
  <2> DEFINE g == [gate[r] EXCEPT !.pc = "end"]
  <2>1. gate' = [gate EXCEPT ![r] = g] /\ g \in Gate /\ g.pc = "end" /\ g.con = gate[r].con
        /\ g.answer = gate[r].answer
    BY <1>0, <1>6 DEF Gate, GatePc, FillCache, To
  <2>2. profile' \in [Key -> RowOrNone]
    <3>1. profile' \in {profile, [profile EXCEPT ![gate[r].key] = gate[r].row]}
      BY <1>6 DEF FillCache, Filled
    <3>2. gate[r].row \in RowOrNone
      BY <1>0 DEF Gate
    <3>. QED BY <1>0, <3>1, <3>2
  <2>. HIDE DEF g
  <2>. QED BY <1>0, <2>1, <2>2, GateGoes DEF Proving, Granted
<1>. QED BY <1>1, <1>2, <1>3, <1>4, <1>5, <1>6 DEF ChatStep

LEMMA ConnectionTaken ==
    ASSUME VarifyInv, StatusInv, FailInv, GateInv, [Next]_vars, NEW r \in Request, GetConnection(r)
    PROVE  GateInv'
<1> DEFINE g == [gate[r] EXCEPT !.con = TRUE]
<1>0. gate \in [Request -> Gate] /\ gate[r] \in Gate /\ gate[r].con = FALSE /\ gate[r].pc \in DbPc
      /\ free \in Nat /\ leaked \in Nat /\ free > 0 /\ free' = free - 1
      /\ UNCHANGED <<plan, db, leaked, mails, profile>>
  BY DEF GateInv, GateTypes, GetConnection, others, Gate, codeVars
<1>1. gate' = [gate EXCEPT ![r] = g] /\ g \in Gate /\ g.con = TRUE /\ g.pc = gate[r].pc
      /\ g.typed = gate[r].typed /\ g.answer = gate[r].answer
  BY <1>0 DEF GetConnection, Gate
<1>. HIDE DEF g
<1>2. /\ \A q \in Request : status'[q].pc # "idle" => status'[q].user \in User
      /\ \A q \in Request : status[q].user \in User => status'[q].user \in User
  BY CallsNamed
<1>3. free' \in Nat /\ free' + leaked' + 1 = free + leaked + 0
  BY <1>0
<1>4. /\ g.pc \in Proving => g.typed \in mails'[Mail_(r)]
      /\ g.pc = "update_pwd" => db'[User_(r)] # None /\ db'[User_(r)].email = Mail_(r)
      /\ g.pc \notin {"chat", "cache", "user", "fill"}
      /\ ~Granted(g)
  BY <1>0, <1>1, <1>2 DEF GateInv, Typists, Updates, Granted, DbPc
<1>5. /\ db' \in [User -> RowOrNone] /\ profile' \in [Key -> RowOrNone]
      /\ \A u \in User : db[u] # None => db'[u] # None /\ db'[u].email = db[u].email
      /\ leaked' \in Nat /\ \A e \in Email : mails[e] \subseteq mails'[e]
  BY <1>0 DEF GateInv, GateTypes
<1>6. free' + leaked' + (IF g.con THEN 1 ELSE 0) = free + leaked + (IF gate[r].con THEN 1 ELSE 0)
  BY <1>0, <1>1, <1>3
<1>. QED BY <1>0, <1>1, <1>2, <1>3, <1>4, <1>5, <1>6, GateTurns

\* The code of a registration or a new password: who goes on has typed one that was
\* mailed to his e-mail, for a code is kept for the mailbox that its call is for.
LEMMA CodeChecked ==
    ASSUME VarifyInv, StatusInv, FailInv, GateInv, [Next]_vars, NEW r \in Request, CheckCode(r)
    PROVE  GateInv'
<1>0. gate \in [Request -> Gate] /\ gate[r] \in Gate /\ UNCHANGED <<plan, db, free, leaked, mails, profile>>
      /\ profile \in [Key -> RowOrNone] /\ Mail_(r) \in Email
  BY DEF GateInv, GateTypes, CheckCode, others, codeVars, PlanOK, Mail_
<1>1. PICK ok \in Outcome("redis"), c \in Typed :
         \/ \E a \in {"expired", "wrong"} : Reply(r, a)
         \/ CodeRead(r, ok) # None /\ c = CodeRead(r, ok).id /\ Accept(r, c)
  BY DEF CheckCode
<1>2. ASSUME NEW a \in {"expired", "wrong"}, Reply(r, a) PROVE GateInv'
  <2> DEFINE g == [gate[r] EXCEPT !.pc = "write", !.answer = a]
  <2>1. gate' = [gate EXCEPT ![r] = g] /\ g \in Gate /\ g.pc = "write" /\ g.answer = a /\ g.con = gate[r].con
    BY <1>0, <1>2 DEF Gate, Reply, GatePc, Answers
  <2>. HIDE DEF g
  <2>. QED BY <1>0, <1>2, <2>1, GateGoes DEF Proving, Granted
<1>3. CASE CodeRead(r, ok) # None /\ c = CodeRead(r, ok).id /\ Accept(r, c)
  <2> DEFINE p == IF plan[r].kind = "register" THEN "reg_user" ELSE "check_email"
             g == [gate[r] EXCEPT !.typed = c, !.pc = p]
  <2>1. code[Mail_(r)] # None /\ c = code[Mail_(r)].id /\ c \in Request
        /\ code \in [Email -> [id: Request, ttl: BOOLEAN] \cup {None}]
    BY <1>0, <1>3 DEF CodeRead, VarifyInv, VarifyTypes
  <2>2. plan[c].email = Mail_(r)
    BY <1>0, <2>1 DEF VarifyInv, CodesKept
  <2>3. c \in mails[Mail_(r)]
    <3>1. c # None
      BY <2>1, AbsentAssumption
    <3>2. PICK e \in Email : c \in mails[e]
      <4>1. c \in UNION {mails[e] : e \in Email}
        BY <1>1, <3>1 DEF Typed
      <4>. QED BY <4>1
    <3>3. plan[c].email = e
      BY <3>2 DEF VarifyInv, CodesSent
    <3>. QED BY <2>2, <3>2, <3>3
  <2>4. p \in {"reg_user", "check_email"}
    OBVIOUS
  <2>5. gate' = [gate EXCEPT ![r] = g]
    BY <1>0, <1>3 DEF Accept
  <2>. HIDE DEF p
  <2>6. g \in Gate /\ g.pc = p /\ g.answer = gate[r].answer /\ g.con = gate[r].con /\ g.typed = c
    BY <1>0, <2>1, <2>4 DEF Gate, GatePc, DbPc
  <2>. HIDE DEF g
  <2>7. /\ \A q \in Request : status'[q].pc # "idle" => status'[q].user \in User
        /\ \A q \in Request : status[q].user \in User => status'[q].user \in User
    BY CallsNamed
  <2>8. /\ g.pc \in Proving => g.typed \in mails'[Mail_(r)]
        /\ g.pc \notin {"update_pwd", "chat", "cache", "user", "fill"}
        /\ ~Granted(g)
    BY <1>0, <2>3, <2>4, <2>6, <2>7 DEF Granted
  <2>9. /\ db' \in [User -> RowOrNone] /\ profile' \in [Key -> RowOrNone]
        /\ \A u \in User : db[u] # None => db'[u] # None /\ db'[u].email = db[u].email
        /\ free' \in Nat /\ leaked' \in Nat /\ \A e \in Email : mails[e] \subseteq mails'[e]
        /\ free' + leaked' + (IF g.con THEN 1 ELSE 0) = free + leaked + (IF gate[r].con THEN 1 ELSE 0)
    BY <1>0, <2>6 DEF GateInv, GateTypes
  <2>. QED BY <1>0, <2>5, <2>6, <2>7, <2>8, <2>9, GateTurns
<1>. QED BY <1>1, <1>2, <1>3

\* A statement is over: the connection goes back or is lost.
LEMMA ConnectionGone ==
    ASSUME VarifyInv, StatusInv, FailInv, GateInv, [Next]_vars, UNCHANGED <<plan, profile>>,
           NEW r \in Request, gate[r].con, gate[r].pc \in DbPc,
           NEW p \in {"write", "update_pwd", "status"}, NEW a \in Answers \cup {None},
           p = "write" => a # "token",
           gate' = [gate EXCEPT ![r].con = FALSE, ![r].pc = p, ![r].answer = a],
           \/ free' = free + 1 /\ leaked' = leaked
           \/ free' = free /\ leaked' = leaked + 1,
           db' \in [User -> RowOrNone], \A u \in User : db[u] # None =>
              db'[u] # None /\ db'[u].email = db[u].email,
           p = "update_pwd" => gate[r].pc = "check_email" /\ db'[User_(r)] # None
                               /\ db'[User_(r)].email = Mail_(r)
    PROVE  GateInv'
<1> DEFINE g == [gate[r] EXCEPT !.con = FALSE, !.pc = p, !.answer = a]
<1>0. gate \in [Request -> Gate] /\ gate[r] \in Gate /\ Mail_(r) \in Email
      /\ profile' \in [Key -> RowOrNone] /\ free \in Nat /\ leaked \in Nat
  BY DEF GateInv, GateTypes, PlanOK, Mail_
<1>1. gate' = [gate EXCEPT ![r] = g] /\ g \in Gate /\ g.con = FALSE /\ g.pc = p
      /\ g.typed = gate[r].typed /\ g.answer = a
  BY <1>0 DEF Gate, GatePc, DbPc
<1>. HIDE DEF g
<1>2. /\ \A q \in Request : status'[q].pc # "idle" => status'[q].user \in User
      /\ \A q \in Request : status[q].user \in User => status'[q].user \in User
  BY CallsNamed
<1>3. \A e \in Email : mails[e] \subseteq mails'[e]
  BY VarifyNext
<1>4. free' \in Nat /\ leaked' \in Nat /\ free' + leaked' + 0 = free + leaked + 1
  BY <1>0
<1>5. free' + leaked' + (IF g.con THEN 1 ELSE 0) = free + leaked + (IF gate[r].con THEN 1 ELSE 0)
  BY <1>1, <1>4
<1>6. g.pc \in Proving => g.typed \in mails'[Mail_(r)]
  BY <1>0, <1>1, <1>3 DEF GateInv, Typists, Proving
<1>7. /\ g.pc = "update_pwd" => db'[User_(r)] # None /\ db'[User_(r)].email = Mail_(r)
      /\ g.pc \notin {"chat", "cache", "user", "fill"} /\ ~Granted(g)
  BY <1>1 DEF Granted
<1>. QED BY <1>0, <1>1, <1>2, <1>3, <1>4, <1>5, <1>6, <1>7, GateTurns

\* The statements.
LEMMA Statements ==
    ASSUME VarifyInv, StatusInv, FailInv, GateInv, [Next]_vars, NEW r \in Request,
           RegUser(r) \/ CheckEmail(r) \/ UpdatePwd(r) \/ CheckPwd(r)
    PROVE  GateInv'
<1>0. /\ UNCHANGED <<plan, profile>> /\ gate[r].con /\ gate[r].pc \in DbPc
      /\ db \in [User -> RowOrNone] /\ User_(r) \in User /\ Mail_(r) \in Email /\ plan[r].pwd \in Pwd
  BY DEF RegUser, CheckEmail, UpdatePwd, CheckPwd, others, At, DbPc, GateInv, GateTypes, PlanOK, User_, Mail_
<1>1. {"ok", "exists", "email", "update", "password"} \subseteq Answers \ {"token"}
  BY DEF Answers
<1>2. CASE RegUser(r)
  <2>1. /\ \E a \in {"ok", "exists"} : Returned(r, "write", a)
        /\ db' = db \/ (~Taken(r) /\ db' = [db EXCEPT ![User_(r)] = Row(r)])
    BY <1>2 DEF RegUser
  <2>2. PICK a \in {"ok", "exists"} : Returned(r, "write", a)
    BY <2>1
  <2>3. Row(r) \in RowOrNone /\ (~Taken(r) => db[User_(r)] = None)
    BY <1>0 DEF Row, RowOrNone, Taken
  <2>4. /\ db' \in [User -> RowOrNone]
        /\ \A u \in User : db[u] # None => db'[u] # None /\ db'[u].email = db[u].email
    BY <1>0, <2>1, <2>3
  <2>5. a \in Answers \cup {None} /\ a # "token"
    BY <1>1, <2>2
  <2>. QED BY <1>0, <2>2, <2>4, <2>5, ConnectionGone DEF Returned
<1>3. CASE CheckEmail(r)
  <2>1. UNCHANGED db /\ gate[r].pc = "check_email"
    BY <1>3 DEF CheckEmail, At
  <2>2. CASE \E p \in {"write"}, a \in {"email"} :
               /\ gate' = [gate EXCEPT ![r].con = FALSE, ![r].pc = p, ![r].answer = a]
               /\ \/ free' = free + 1 /\ leaked' = leaked
                  \/ free' = free /\ leaked' = leaked + 1
    BY <1>0, <1>1, <2>1, <2>2, ConnectionGone
  <2>3. CASE Returned(r, "update_pwd", None) /\ db[User_(r)] # None /\ db[User_(r)].email = Mail_(r)
    BY <1>0, <2>1, <2>3, ConnectionGone DEF Returned
  <2>. QED BY <1>3, <2>2, <2>3 DEF CheckEmail, Returned
<1>4. CASE UpdatePwd(r)
  <2>1. /\ \E a \in {"ok", "update"} : Returned(r, "write", a)
        /\ db' = db \/ (db[User_(r)] # None /\ db' = [db EXCEPT ![User_(r)].pwd = plan[r].pwd])
    BY <1>4 DEF UpdatePwd
  <2>2. PICK a \in {"ok", "update"} : Returned(r, "write", a)
    BY <2>1
  <2> DEFINE new == [db[User_(r)] EXCEPT !.pwd = plan[r].pwd]
  <2>3. db[User_(r)] # None => new \in [email: Email, pwd: Pwd] /\ new.email = db[User_(r)].email
    BY <1>0 DEF RowOrNone
  <2>4. db' = db \/ (db[User_(r)] # None /\ db' = [db EXCEPT ![User_(r)] = new])
    BY <1>0, <2>1
  <2>5. new \in [email: Email, pwd: Pwd] => new # None
    BY RowAssumption
  <2>. HIDE DEF new
  <2>6. /\ db' \in [User -> RowOrNone]
        /\ \A u \in User : db[u] # None => db'[u] # None /\ db'[u].email = db[u].email
    BY <1>0, <2>3, <2>4, <2>5 DEF RowOrNone
  <2>7. a \in Answers \cup {None} /\ a # "token"
    BY <1>1, <2>2
  <2>. QED BY <1>0, <2>2, <2>6, <2>7, ConnectionGone DEF Returned
<1>5. CASE CheckPwd(r)
  <2>1. UNCHANGED db /\ (Returned(r, "status", None) \/ Returned(r, "write", "password"))
    BY <1>5 DEF CheckPwd
  <2>2. CASE Returned(r, "status", None)
    BY <1>0, <2>1, <2>2, ConnectionGone DEF Returned
  <2>3. CASE Returned(r, "write", "password")
    <3>1. "password" \in Answers /\ "password" # "token"
      BY DEF Answers
    <3>. QED BY <1>0, <2>1, <2>3, <3>1, ConnectionGone DEF Returned
  <2>. QED BY <2>1, <2>2, <2>3
<1>. QED BY <1>2, <1>3, <1>4, <1>5

LEMMA GateNext ==
    ASSUME VarifyInv, StatusInv, FailInv, GateInv, [Next]_vars PROVE GateInv'
<1>0. /\ \A q \in Request : status'[q].pc # "idle" => status'[q].user \in User
      /\ \A q \in Request : status[q].user \in User => status'[q].user \in User
      /\ \A e \in Email : mails[e] \subseteq mails'[e]
  BY CallsNamed, VarifyNext
<1>1. CASE UNCHANGED <<plan, gate, db, free, leaked, profile>>
  BY <1>0, <1>1, GateStays
<1>2. CASE UNCHANGED vars \/ ServerStep \/ KeyStep
  BY <1>1, <1>2 DEF vars, reqVars, ServerStep, KeyStep, others
<1>3. ASSUME NEW r \in Request, CallVarify(r) \/ VarifyRuns(r) \/ CallStatus(r) \/ StatusRuns(r)
      PROVE  GateInv'
  BY <1>1, <1>3 DEF CallVarify, VarifyRuns, CallStatus, StatusRuns, reqVars, others
<1>4. ASSUME NEW r \in Request, Receive(r) \/ WriteResponse(r) \/ VarifyAnswer(r) \/ StatusAnswer(r)
      PROVE  GateInv'
  BY <1>4, Handlers
<1>5. ASSUME NEW r \in Request, Search(r) \/ SearchNumber(r) \/ ChatStep(r) PROVE GateInv'
  BY <1>5, Profiles
<1>6. ASSUME NEW r \in Request, GetConnection(r) PROVE GateInv'
  BY <1>6, ConnectionTaken
<1>7. ASSUME NEW r \in Request, CheckCode(r) PROVE GateInv'
  BY <1>7, CodeChecked
<1>8. ASSUME NEW r \in Request, RegUser(r) \/ CheckEmail(r) \/ UpdatePwd(r) \/ CheckPwd(r) PROVE GateInv'
  BY <1>8, Statements
<1>. QED BY <1>2, <1>3, <1>4, <1>5, <1>6, <1>7, <1>8 DEF Next, Work, GateStep

-----------------------------------------------------------------------------
(* All of it.                                                               *)

LEMMA FailNext == ASSUME FailInv, [Next]_vars PROVE FailInv'
<1>1. ASSUME NEW f, NEW ok \in Outcome(f), Count(ok) PROVE FailInv'
  <2>1. CASE ok = TRUE
    BY <1>1, <2>1 DEF FailInv, Count
  <2>2. CASE ok # TRUE
    <3>1. ok = FALSE /\ failures < FailureLimit
      BY <1>1, <2>2 DEF Outcome
    <3>. QED BY <1>1, <3>1, PoolAssumption DEF FailInv, Count
  <2>. QED BY <2>1, <2>2
<1>2. CASE UNCHANGED failures
  BY <1>2 DEF FailInv
<1>3. CASE UNCHANGED vars \/ ServerStep \/ KeyStep
  BY <1>2, <1>3 DEF vars, ServerStep, KeyStep
<1>4. ASSUME NEW r \in Request, Receive(r) \/ Search(r) \/ SearchNumber(r) \/ Work(r)
      PROVE  UNCHANGED failures \/ \E f \in {"redis", "sql", "rpc", "deadline", "client", "mail"} :
                                        \E ok \in Outcome(f) : Count(ok)
  BY <1>4 DEF Receive, Search, SearchNumber, Work, GateStep, ChatStep, WriteResponse, CallVarify,
       VarifyAnswer, GetConnection, CheckCode, RegUser, CheckEmail, UpdatePwd, CheckPwd, CallStatus,
       StatusAnswer, VarifyRuns, StatusRuns, CheckToken, ReadCache, ReadTable, FillCache
<1>. QED BY <1>1, <1>2, <1>3, <1>4 DEF Next

LEMMA EntryInit == Init => EntryInv
<1> SUFFICES ASSUME Init PROVE EntryInv
  OBVIOUS
<1>1. PICK s \in Scenarios :
        /\ plan = s.plan /\ faults = s.faults /\ db = s.rows
        /\ VarifyInit /\ StatusInit /\ failures = 0 /\ free = PoolSize /\ leaked = 0
        /\ gate = [r \in Request |-> [pc |-> "new", con |-> FALSE, typed |-> None, answer |-> None,
                                      key |-> None, row |-> None]]
        /\ profile = [k \in Key |-> None]
  BY DEF Init
<1>2. PlanOK /\ db \in [User -> RowOrNone]
  BY <1>1, ScenarioAssumption DEF PlanOK, RowOrNone
<1>3. VarifyInv
  BY <1>1, <1>2 DEF VarifyInit, VarifyInv, VarifyTypes, Calls, CodesKept, CodesSent, CallsTheir, CodesExpire
<1>4. StatusInv
  <2>1. StatusTypes
    BY <1>1, OldAssumption, OrderAssumption, CountAssumption DEF StatusInit, StatusTypes, Choices, Counts
  <2>. QED BY <1>1, <2>1, AbsentAssumption DEF StatusInit, StatusInv, Chooser, SteadyInv, BestInv, TokensExpire
<1>5. GateInv
  <2>1. GateTypes
    BY <1>1, <1>2, PoolAssumption DEF GateTypes, Gate, GatePc, DbPc, RowOrNone
  <2>2. Typists /\ Updates /\ Named
    BY <1>1 DEF Typists, Updates, Named, Granted, Proving, StatusInit
  <2>3. PoolAccounted
    <3>1. {r \in Request : gate[r].con} = {}
      BY <1>1
    <3>2. Cardinality({r \in Request : gate[r].con}) = 0
      BY <3>1, FS_EmptySet
    <3>. QED BY <1>1, <3>2, PoolAssumption DEF PoolAccounted
  <2>. QED BY <1>2, <2>1, <2>2, <2>3 DEF GateInv
<1>6. FailInv
  BY <1>1, PoolAssumption DEF FailInv
<1>. QED BY <1>3, <1>4, <1>5, <1>6 DEF EntryInv

LEMMA EntryCorrect == Spec => []EntryInv
<1>1. EntryInv /\ [Next]_vars => EntryInv'
  BY VarifyNext, StatusNext, GateNext, FailNext DEF EntryInv
<1>. QED BY <1>1, EntryInit, PTL DEF Spec

\* The types of all processes. A connection is never returned twice: no more of them are
\* idle or lost than there are (MySqlPool of GetServer).
THEOREM EntranceTypeCorrect == Spec => []TypeOK
<1>1. EntryInv => TypeOK
  <2> SUFFICES ASSUME EntryInv PROVE TypeOK
    OBVIOUS
  <2>1. VarifyTypeOK
    BY DEF EntryInv, VarifyInv, VarifyTypes, Calls, VarifyTypeOK
  <2>2. StatusTypeOK
    BY DEF EntryInv, StatusInv, StatusTypes, Chooser, Choices, Counts, StatusTypeOK
  <2>3. free \in 0..PoolSize /\ leaked \in 0..PoolSize
    <3>1. IsFiniteSet(Using)
      BY RequestAssumption, FS_Subset DEF Using
    <3>2. Cardinality(Using) \in Nat /\ free + leaked + Cardinality(Using) = PoolSize
      BY <3>1, FS_CardinalityType DEF EntryInv, GateInv, PoolAccounted, Using
    <3>. QED BY <3>2, PoolAssumption DEF EntryInv, GateInv, GateTypes
  <2>. QED BY <2>1, <2>2, <2>3 DEF EntryInv, GateInv, GateTypes, FailInv, TypeOK
<1>. QED BY <1>1, EntryCorrect, PTL

\* Every connection of GetServer's pool is idle, used by one request, or lost by a request
\* for a name that nobody has (CheckEmail).
THEOREM PoolAccountedCorrect == Spec => []PoolAccounted
<1>1. EntryInv => PoolAccounted
  BY DEF EntryInv, GateInv
<1>. QED BY <1>1, EntryCorrect, PTL

\* As long as no Redis command fails, every code and every token has a TTL or is about to
\* get one (SetRedisExpire, insertToken).
THEOREM KeysExpireCorrect == Spec => []KeysExpire
<1>1. EntryInv => KeysExpire
  BY DEF EntryInv, VarifyInv, StatusInv, CodesExpire, TokensExpire, KeysExpire
<1>. QED BY <1>1, EntryCorrect, PTL

\* The chosen ChatServer is one of the least busy among those whose counts stood still
\* while GetChatServer read them.
THEOREM ChoiceFoundCorrect == Spec => []ChoiceFound
<1>1. EntryInv => ChoiceFound
  <2> SUFFICES ASSUME EntryInv, NEW r \in Request, StatusAt(r, "read"), status[r].next > Len(Order),
                      NEW v \in Server, steady[v] # None
               PROVE  status[r].best # None /\ status[r].best.count <= steady[v]
    BY DEF ChoiceFound
  <2>1. PICK i \in 1..Len(Order) : Order[i] = v
    BY OrderAssumption
  <2>2. i < status[r].next
    BY <2>1, OrderAssumption DEF EntryInv, StatusInv, StatusTypes, Choices
  <2>. QED BY <2>1, <2>2 DEF EntryInv, StatusInv, BestInv, Beaten, StatusAt
<1>. QED BY <1>1, EntryCorrect, PTL

\* A row of the table appears or changes only by a request whose client typed a code that
\* was mailed to the e-mail of the row (/user_register, /reset_pwd).
THEOREM ProvenMailboxCorrect == Spec => ProvenMailbox
<1> DEFINE Step == \A u \in User : db'[u] # db[u] =>
                      \E r \in Request : gate[r].con /\ gate[r].typed \in mails[db'[u].email]
<1>1. EntryInv /\ [Next]_vars => [Step]_vars
  <2> SUFFICES ASSUME EntryInv, Next, NEW u \in User, db'[u] # db[u]
               PROVE  \E r \in Request : gate[r].con /\ gate[r].typed \in mails[db'[u].email]
    OBVIOUS
  <2>0. db \in [User -> RowOrNone] /\ PlanOK /\ Typists /\ Updates
    BY DEF EntryInv, GateInv, GateTypes
  <2>1. PICK r \in Request : RegUser(r) \/ UpdatePwd(r)
    BY DEF Next, Work, GateStep, ChatStep, Receive, Search, SearchNumber, WriteResponse, CallVarify,
       VarifyAnswer, GetConnection, CheckCode, CheckEmail, CheckPwd, CallStatus, StatusAnswer,
       VarifyRuns, StatusRuns, CheckToken, ReadCache, ReadTable, FillCache, ServerStep, KeyStep, reqVars
  <2>2. gate[r].con /\ gate[r].pc \in Proving
    BY <2>1 DEF RegUser, UpdatePwd, At, Proving
  <2>3. gate[r].typed \in mails[Mail_(r)]
    BY <2>0, <2>2 DEF Typists
  <2>4. db'[u].email = Mail_(r)
    <3>1. CASE RegUser(r)
      <4>1. db' = [db EXCEPT ![User_(r)] = Row(r)]
        BY <3>1 DEF RegUser
      <4>2. u = User_(r) /\ db'[u] = Row(r)
        BY <2>0, <4>1
      <4>. QED BY <4>2 DEF Row
    <3>2. CASE UpdatePwd(r)
      <4>1. db' = [db EXCEPT ![User_(r)].pwd = plan[r].pwd]
        BY <3>2 DEF UpdatePwd
      <4>2. u = User_(r)
        BY <2>0, <4>1
      <4>3. db[u] # None /\ db[u].email = Mail_(r)
        BY <2>0, <3>2, <4>2 DEF UpdatePwd, At, Updates
      <4>. QED BY <2>0, <4>1, <4>2, <4>3 DEF RowOrNone
    <3>. QED BY <2>1, <3>1, <3>2
  <2>. QED BY <2>2, <2>3, <2>4
<1>. QED BY <1>1, EntryCorrect, PTL DEF Spec, ProvenMailbox

-----------------------------------------------------------------------------
(* Nobody is stuck: what Answered needs beside fairness.                    *)

\* Request r, the call it has made, or what became of that call after GetServer gave it up
\* can take its next step without a failure.
CanGoOn(r) ==
    \/ gate[r].pc \in {"code", "write", "chat", "cache", "user", "fill"}
    \/ gate[r].pc \in DbPc /\ (gate[r].con \/ free > 0)
    \/ gate[r].pc = "varify" /\ varify[r].pc \in {"idle", "done"}
    \/ varify[r].pc \in {"get", "set", "expire", "mail"}
    \/ gate[r].pc = "status" /\ status[r].pc = "idle" /\ Owner(Mail_(r)) # {}
    \/ gate[r].pc = "status" /\ status[r].pc = "done"
    \/ status[r].pc = "wait" /\ choosing = None
    \/ status[r].pc \in {"read", "insert", "expire"}

\* As long as one connection is not lost, a request in progress can go on, or it waits for
\* a connection or for _server_mtx that another request has which can go on: waiting never
\* forms a chain or a ring, whatever fails.
NobodyStuck ==
    leaked < PoolSize =>
        \A r \in Request : InProgress(r) =>
            \/ CanGoOn(r)
            \/ \E q \in Request : q # r /\ CanGoOn(q) /\ (gate[q].con \/ choosing = q)

\* Only a request at a statement has a connection, and only a user that is in the table
\* goes on to StatusServer.
Holding     == \A r \in Request : gate[r].con => gate[r].pc \in DbPc
LoginsKnown == \A r \in Request : gate[r].pc = "status" => Owner(Mail_(r)) # {}
ReadyInv    == Holding /\ LoginsKnown

\* No row disappears or gets another e-mail.
LEMMA RowsKept ==
    ASSUME EntryInv, [Next]_vars
    PROVE  \A u \in User : db[u] # None => db'[u] # None /\ db'[u].email = db[u].email
<1>0. db \in [User -> RowOrNone] /\ PlanOK
  BY DEF EntryInv, GateInv, GateTypes
<1>1. CASE UNCHANGED db
  BY <1>1
<1>2. ASSUME NEW r \in Request, RegUser(r)
      PROVE  \A u \in User : db[u] # None => db'[u] # None /\ db'[u].email = db[u].email
  <2>1. db' = db \/ (db[User_(r)] = None /\ db' = [db EXCEPT ![User_(r)] = Row(r)])
    BY <1>2 DEF RegUser, Taken
  <2>. QED BY <1>0, <2>1
<1>3. ASSUME NEW r \in Request, UpdatePwd(r)
      PROVE  \A u \in User : db[u] # None => db'[u] # None /\ db'[u].email = db[u].email
  <2>1. plan[r].pwd \in Pwd
    BY <1>0 DEF PlanOK
  <2> DEFINE new == [db[User_(r)] EXCEPT !.pwd = plan[r].pwd]
  <2>2. db' = db \/ (db[User_(r)] # None /\ db' = [db EXCEPT ![User_(r)] = new])
    BY <1>3 DEF UpdatePwd
  <2>3. User_(r) \in User
    BY <1>0 DEF PlanOK, User_
  <2>4. db[User_(r)] # None => new \in [email: Email, pwd: Pwd] /\ new.email = db[User_(r)].email
    BY <1>0, <2>1, <2>3 DEF RowOrNone
  <2>5. new \in [email: Email, pwd: Pwd] => new # None
    BY RowAssumption
  <2>. HIDE DEF new
  <2>. QED BY <1>0, <2>2, <2>4, <2>5
<1>4. ASSUME NEW r \in Request, Receive(r) \/ Search(r) \/ SearchNumber(r) \/ ChatStep(r)
      PROVE  UNCHANGED db
  BY <1>4 DEF Receive, Search, SearchNumber, ChatStep, CheckToken, ReadCache, ReadTable, FillCache
<1>5. ASSUME NEW r \in Request, GateStep(r), ~RegUser(r), ~UpdatePwd(r) PROVE UNCHANGED db
  BY <1>5 DEF GateStep, WriteResponse, CallVarify, VarifyAnswer, GetConnection, CheckCode, CheckEmail,
     CheckPwd, CallStatus, StatusAnswer
<1>6. ASSUME NEW r \in Request, VarifyRuns(r) \/ StatusRuns(r) PROVE UNCHANGED db
  BY <1>6 DEF VarifyRuns, StatusRuns
<1>7. CASE UNCHANGED vars \/ ServerStep \/ KeyStep
  BY <1>1, <1>7 DEF vars, ServerStep, KeyStep
<1>. QED BY <1>1, <1>2, <1>3, <1>4, <1>5, <1>6, <1>7 DEF Next, Work

\* One request goes on.
LEMMA ReadyTurns ==
    ASSUME EntryInv, ReadyInv, [Next]_vars, UNCHANGED plan, NEW r \in Request,
           \A q \in Request : q # r => gate'[q] = gate[q],
           gate'[r].con => gate'[r].pc \in DbPc,
           gate'[r].pc = "status" => gate[r].pc = "status" \/ Owner(Mail_(r)) # {}
    PROVE  ReadyInv'
<1>1. Holding'
  BY DEF ReadyInv, Holding, DbPc
<1>2. \A u \in User : db[u] # None => db'[u] # None /\ db'[u].email = db[u].email
  BY RowsKept
<1>3. ASSUME NEW q \in Request, gate'[q].pc = "status"
      PROVE  \E u \in User : db'[u] # None /\ db'[u].email = plan'[q].email
  <2>1. Owner(Mail_(q)) # {}
    BY <1>3 DEF ReadyInv, LoginsKnown
  <2>. QED BY <1>2, <2>1 DEF Owner, Mail_
<1>4. LoginsKnown'
  BY <1>3 DEF LoginsKnown, Owner, Mail_
<1>. QED BY <1>1, <1>4 DEF ReadyInv

LEMMA ReadyStep ==
    ASSUME EntryInv, ReadyInv, [Next]_vars
    PROVE  ReadyInv'
<1>0. gate \in [Request -> Gate]
  BY DEF EntryInv, GateInv, GateTypes
<1>1. CASE UNCHANGED <<plan, gate>>
  <2>1. CASE \E r \in Request : TRUE
    BY <1>1, <2>1, ReadyTurns DEF ReadyInv, Holding
  <2>2. CASE ~ \E r \in Request : TRUE
    BY <2>2 DEF ReadyInv, Holding, LoginsKnown
  <2>. QED BY <2>1, <2>2
<1>2. CASE UNCHANGED vars \/ ServerStep \/ KeyStep
  BY <1>1, <1>2 DEF vars, reqVars, ServerStep, KeyStep, others
<1>3. ASSUME NEW r \in Request, CallVarify(r) \/ VarifyRuns(r) \/ CallStatus(r) \/ StatusRuns(r)
      PROVE  ReadyInv'
  BY <1>1, <1>3 DEF CallVarify, VarifyRuns, CallStatus, StatusRuns, reqVars, others
<1>4. ASSUME NEW r \in Request,
             \/ Receive(r) \/ WriteResponse(r) \/ VarifyAnswer(r) \/ StatusAnswer(r)
             \/ Search(r) \/ SearchNumber(r) \/ ChatStep(r)
      PROVE  ReadyInv'
  <2>1. gate[r] \in Gate
    BY <1>0
  <2>2. /\ UNCHANGED plan /\ gate[r].pc \notin DbPc
    BY <1>4 DEF Receive, WriteResponse, VarifyAnswer, StatusAnswer, Search, SearchBy, SearchNumber,
       ChatStep, CheckToken, ReadCache, ReadTable, FillCache, At, others, DbPc
  <2> DEFINE Goal == /\ \A q \in Request : q # r => gate'[q] = gate[q]
                     /\ gate'[r].con = gate[r].con
                     /\ gate'[r].pc # "status"
  <2>3. ASSUME \E p \in {"varify", "check_pwd", "code", "cut", "chat", "end", "user"} : To(r, p)
        PROVE  Goal
    BY <1>0, <2>1, <2>3 DEF To, Gate
  <2>4. ASSUME \E a : Reply(r, a) PROVE Goal
    BY <1>0, <2>1, <2>4 DEF Reply, Gate
  <2>5. CASE Receive(r)
    BY <2>3, <2>4, <2>2, <2>5, ReadyTurns DEF Receive, ReadyInv, Holding
  <2>6. CASE WriteResponse(r) \/ SearchNumber(r) \/ FillCache(r)
    BY <2>2, <2>3, <2>6, ReadyTurns DEF WriteResponse, SearchNumber, FillCache, ReadyInv, Holding
  <2>7. CASE VarifyAnswer(r) \/ StatusAnswer(r)
    BY <2>2, <2>4, <2>7, ReadyTurns DEF VarifyAnswer, StatusAnswer, ReadyInv, Holding
  <2>8. CASE Search(r)
    <3>1. Goal
      BY <1>0, <2>1, <2>8 DEF Search, SearchBy, Gate
    <3>. QED BY <2>2, <3>1, ReadyTurns DEF ReadyInv, Holding
  <2>9. CASE CheckToken(r)
    <3>1. Goal
      BY <1>0, <2>1, <2>9 DEF CheckToken, Gate
    <3>. QED BY <2>2, <3>1, ReadyTurns DEF ReadyInv, Holding
  <2>10. CASE ReadCache(r)
    <3>1. Goal
      BY <1>0, <2>1, <2>10 DEF ReadCache, To, Gate
    <3>. QED BY <2>2, <3>1, ReadyTurns DEF ReadyInv, Holding
  <2>11. CASE ReadTable(r)
    <3>1. Goal
      BY <1>0, <2>1, <2>11 DEF ReadTable, Gate
    <3>. QED BY <2>2, <3>1, ReadyTurns DEF ReadyInv, Holding
  <2>. QED BY <1>4, <2>5, <2>6, <2>7, <2>8, <2>9, <2>10, <2>11 DEF ChatStep
<1>5. ASSUME NEW r \in Request, CheckCode(r) PROVE ReadyInv'
  <2>1. /\ UNCHANGED plan
        /\ \A q \in Request : q # r => gate'[q] = gate[q]
        /\ gate'[r].con = gate[r].con /\ gate[r].pc \notin DbPc
        /\ gate'[r].pc # "status"
    BY <1>0, <1>5 DEF CheckCode, Accept, Reply, At, others, DbPc, Gate
  <2>. QED BY <2>1, ReadyTurns DEF ReadyInv, Holding
<1>6. ASSUME NEW r \in Request, GetConnection(r) PROVE ReadyInv'
  <2>1. /\ UNCHANGED plan
        /\ \A q \in Request : q # r => gate'[q] = gate[q]
        /\ gate'[r].pc = gate[r].pc /\ gate[r].pc \in DbPc
    BY <1>0, <1>6 DEF GetConnection, others, Gate
  <2>. QED BY <2>1, ReadyTurns DEF DbPc
<1>7. ASSUME NEW r \in Request, RegUser(r) \/ CheckEmail(r) \/ UpdatePwd(r) \/ CheckPwd(r)
      PROVE  ReadyInv'
  <2> DEFINE Goal == /\ \A q \in Request : q # r => gate'[q] = gate[q]
                     /\ gate'[r].con = FALSE
                     /\ gate'[r].pc = "status" => PwdRight(r)
  <2>1. gate[r] \in Gate
    BY <1>0
  <2>2. ASSUME NEW p \in {"write", "update_pwd", "status"}, NEW a \in Answers \cup {None},
               gate' = [gate EXCEPT ![r].con = FALSE, ![r].pc = p, ![r].answer = a],
               p = "status" => PwdRight(r)
        PROVE  Goal
    BY <1>0, <2>1, <2>2 DEF Gate
  <2>3. {"ok", "exists", "email", "update", "password"} \subseteq Answers
    BY DEF Answers
  <2>4. ASSUME RegUser(r) PROVE Goal
    <3>1. \E a \in {"ok", "exists"} : Returned(r, "write", a)
      BY <2>4 DEF RegUser
    <3>. QED BY <2>2, <2>3, <3>1 DEF Returned
  <2>5. ASSUME CheckEmail(r) PROVE Goal
    <3>1. \/ gate' = [gate EXCEPT ![r].con = FALSE, ![r].pc = "write", ![r].answer = "email"]
          \/ gate' = [gate EXCEPT ![r].con = FALSE, ![r].pc = "update_pwd", ![r].answer = None]
      BY <2>5 DEF CheckEmail, Returned
    <3>. QED BY <2>2, <2>3, <3>1
  <2>6. ASSUME UpdatePwd(r) PROVE Goal
    <3>1. \E a \in {"ok", "update"} : Returned(r, "write", a)
      BY <2>6 DEF UpdatePwd
    <3>. QED BY <2>2, <2>3, <3>1 DEF Returned
  <2>7. ASSUME CheckPwd(r) PROVE Goal
    <3>1. (Returned(r, "status", None) /\ PwdRight(r)) \/ Returned(r, "write", "password")
      BY <2>7 DEF CheckPwd
    <3>. QED BY <2>2, <2>3, <3>1 DEF Returned
  <2>8. Goal
    BY <1>7, <2>4, <2>5, <2>6, <2>7
  <2>9. UNCHANGED plan
    BY <1>7 DEF RegUser, CheckEmail, UpdatePwd, CheckPwd, others
  <2>. QED BY <2>8, <2>9, ReadyTurns DEF PwdRight
<1>. QED BY <1>2, <1>3, <1>4, <1>5, <1>6, <1>7 DEF Next, Work, GateStep

\* A request that cannot go on waits for one that can.
LEMMA ReadyNow == EntryInv /\ ReadyInv => NobodyStuck
<1> SUFFICES ASSUME EntryInv, ReadyInv, leaked < PoolSize, NEW r \in Request, InProgress(r), ~CanGoOn(r)
             PROVE  \E q \in Request : q # r /\ CanGoOn(q) /\ (gate[q].con \/ choosing = q)
  BY DEF NobodyStuck
<1>1. CASE gate[r].pc \in DbPc
  <2>1. ~gate[r].con /\ free = 0
    BY <1>1 DEF CanGoOn, EntryInv, GateInv, GateTypes
  <2>2. IsFiniteSet(Using)
    BY RequestAssumption, FS_Subset DEF Using
  <2>3. free + leaked + Cardinality(Using) = PoolSize
    BY DEF EntryInv, GateInv, PoolAccounted, Using
  <2>4. Cardinality(Using) # 0
    BY <2>1, <2>3, PoolAssumption DEF EntryInv, GateInv, GateTypes
  <2>5. Using # {}
    BY <2>4, FS_EmptySet
  <2>6. PICK q \in Request : gate[q].con
    BY <2>5 DEF Using
  <2>7. q # r /\ CanGoOn(q)
    BY <2>1, <2>6 DEF CanGoOn, ReadyInv, Holding
  <2>. QED BY <2>6, <2>7
<1>2. CASE gate[r].pc = "varify"
  <2>1. varify[r].pc \in {"idle", "get", "set", "expire", "mail", "done"}
    BY DEF EntryInv, VarifyInv, VarifyTypes, Calls
  <2>. QED BY <1>2, <2>1 DEF CanGoOn
<1>3. CASE gate[r].pc = "status"
  <2>1. status[r].pc \in {"idle", "wait", "read", "insert", "expire", "done"}
        /\ choosing \in Request \cup {None}
    BY DEF EntryInv, StatusInv, StatusTypes, Choices
  <2>2. Owner(Mail_(r)) # {}
    BY <1>3 DEF ReadyInv, LoginsKnown
  <2>3. status[r].pc = "wait" /\ choosing \in Request
    BY <1>3, <2>1, <2>2 DEF CanGoOn
  <2>4. status[choosing].pc = "read"
    BY <2>3 DEF EntryInv, StatusInv, Chooser
  <2>5. choosing # r /\ CanGoOn(choosing)
    BY <2>3, <2>4 DEF CanGoOn
  <2>. QED BY <2>3, <2>5
<1>. QED BY <1>1, <1>2, <1>3 DEF InProgress, CanGoOn

\* Of Answered (every HTTP request is answered or cut off) all but the fairness: GetServer,
\* VarifyServer and StatusServer never wait for each other in a ring, for any number of
\* requests and connections, any scenario and any failures.
THEOREM NobodyStuckCorrect == Spec => []NobodyStuck
<1>1. Init => ReadyInv
  BY DEF Init, ReadyInv, Holding, LoginsKnown
<1>2. EntryInv /\ ReadyInv /\ [Next]_vars => ReadyInv'
  BY ReadyStep
<1>. QED BY <1>1, <1>2, EntryCorrect, ReadyNow, PTL DEF Spec
=============================================================================
