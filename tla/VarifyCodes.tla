---------------------------- MODULE VarifyCodes ----------------------------
(***************************************************************************)
(* VarifyServer: GetVarifyCode keeps one code per e-mail in Redis and      *)
(* mails it.  node runs one step at a time, but every await lets the steps *)
(* of other calls in.  A call and the code it makes up bear the name of    *)
(* the HTTP request they are for.  ok tells whether a command succeeds.    *)
(***************************************************************************)
CONSTANTS
    Request,
    Email,
    None

VARIABLES
    code,       \* Redis code_<email>: None or the code and whether it has a TTL
    mails,      \* mails[e]: the codes that have been mailed to e
    varify      \* varify[r]: the call of request r: pc, email, uniqueId and its error

VarifyInit ==
    /\ code   = [e \in Email |-> None]
    /\ mails  = [e \in Email |-> {}]
    /\ varify = [r \in Request |-> [pc |-> "idle", email |-> None, id |-> None, error |-> FALSE]]

VarifyTypeOK ==
    /\ code   \in [Email -> [id: Request, ttl: BOOLEAN] \cup {None}]
    /\ mails  \in [Email -> SUBSET Request]
    /\ varify \in [Request -> [pc: {"idle", "get", "set", "expire", "mail", "done"},
                               email: Email \cup {None}, id: Request \cup {None},
                               error: BOOLEAN]]

VarifyAt(r, p) == varify[r].pc = p
VarifyTo(r, p) == varify' = [varify EXCEPT ![r].pc = p]

\* callback.
VarifyDone(r, failed) == varify' = [varify EXCEPT ![r].pc = "done", ![r].error = failed]

VarifyCall(r, e) ==
    /\ varify' = [varify EXCEPT ![r] = [pc |-> "get", email |-> e, id |-> None, error |-> FALSE]]
    /\ UNCHANGED <<code, mails>>

\* A code that is there is mailed again, its TTL goes on as it was.  A failed GetRedis
\* returns null as for a missing key.
VarifyGet(r, ok) ==
    LET found == code[varify[r].email]
    IN  /\ VarifyAt(r, "get")
        /\ varify' = [varify EXCEPT
              ![r].id = IF ok /\ found # None THEN found.id ELSE r,
              ![r].pc = IF ok /\ found # None THEN "mail" ELSE "set"]
        /\ UNCHANGED <<code, mails>>

\* Mutant: SetRedisExpire without the second command.
VarifySetForEver(r, ok) ==
    /\ VarifyAt(r, "set")
    /\ code' = [code EXCEPT ![varify[r].email] = [id |-> r, ttl |-> FALSE]]
    /\ VarifyTo(r, "mail")
    /\ UNCHANGED mails

\* SetRedisExpire, its first command: a failure may still have been executed.
VarifySet(r, ok) ==
    LET set == [code EXCEPT ![varify[r].email] = [id |-> r, ttl |-> FALSE]]
    IN  /\ VarifyAt(r, "set")
        /\ \/ ok /\ code' = set /\ VarifyTo(r, "expire")
           \/ ~ok /\ code' \in {code, set} /\ VarifyDone(r, TRUE)
        /\ UNCHANGED mails

\* Its second command.
VarifyExpire(r, ok) ==
    LET e == varify[r].email
    IN  /\ VarifyAt(r, "expire")
        /\ \/ /\ ok /\ VarifyTo(r, "mail")
              /\ code' = IF code[e] = None THEN code ELSE [code EXCEPT ![e].ttl = TRUE]
           \/ ~ok /\ VarifyDone(r, TRUE) /\ UNCHANGED code
        /\ UNCHANGED mails

\* Mutant: a mail that fails has no callback.
VarifyMailSilent(r, ok) ==
    /\ VarifyAt(r, "mail")
    /\ IF ok THEN VarifyDone(r, FALSE) ELSE VarifyTo(r, "lost")
    /\ mails' = IF ok THEN [mails EXCEPT ![varify[r].email] = @ \cup {varify[r].id}] ELSE mails
    /\ UNCHANGED code

\* SendMail and the callback.
VarifyMail(r, ok) ==
    /\ VarifyAt(r, "mail")
    /\ VarifyDone(r, ~ok)
    /\ mails' = IF ok THEN [mails EXCEPT ![varify[r].email] = @ \cup {varify[r].id}] ELSE mails
    /\ UNCHANGED code

VarifyStep(r, ok) ==
    VarifyGet(r, ok) \/ VarifySet(r, ok) \/ VarifyExpire(r, ok) \/ VarifyMail(r, ok)

\* Ten minutes are over.
CodeGone(e) ==
    /\ code[e] # None /\ code[e].ttl
    /\ code' = [code EXCEPT ![e] = None]
    /\ UNCHANGED <<mails, varify>>
=============================================================================
