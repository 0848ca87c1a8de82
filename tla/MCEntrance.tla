----------------------------- MODULE MCEntrance -----------------------------
EXTENDS Entrance

CONSTANTS r1, r2, r3, n1, n2, e1, e2, p1, p2, v1, v2, v3

Names == <<v1, v2, v3>>

Ask(kind, user, email, pwd) == [kind |-> kind, user |-> user, email |-> email, pwd |-> pwd]

Plan(a, b, c) == [r \in Request |-> IF r = r1 THEN a ELSE IF r = r2 THEN b ELSE c]

Nobody == [u \in User |-> None]
Known  == [u \in User |-> IF u = n1 THEN [email |-> e1, pwd |-> p1] ELSE None]

Scenario(plan_, rows, faults_) == [plan |-> plan_, rows |-> rows, faults |-> faults_]

Code1  == Ask("code", n1, e1, p1)
Code2  == Ask("code", n2, e2, p1)
Join1  == Ask("register", n1, e1, p1)
Reset1 == Ask("reset", n1, e1, p2)
Reset2 == Ask("reset", n2, e1, p2)
Login1 == Ask("login", n1, e1, p1)
Find1  == Ask("search", n1, e1, p1)

All == {
    \* Two calls for a code of one mailbox, and one registration.
    Scenario(Plan(Code1, Code1, Join1), Nobody, {"time", "mail", "deadline", "rpc"}),
    Scenario(Plan(Code1, Code1, Join1), Nobody, {"redis", "sql"}),
    \* Two mailboxes.
    Scenario(Plan(Code1, Code2, Join1), Nobody, {"client"}),
    Scenario(Plan(Code2, Code1, Reset1), Known, {"sql"}),
    \* A name nobody has, and a login that needs a connection as well.
    Scenario(Plan(Code1, Reset2, Login1), Known, {"time"}),
    Scenario(Plan(Code1, Reset1, Login1), Known, {"time", "sql"}),
    \* Logins of one user, and servers whose counts change while they are read.
    Scenario(Plan(Login1, Login1, Find1), Known, {"time", "redis"}),
    Scenario(Plan(Login1, Find1, Find1), Known, {"count", "rpc"}),
    Scenario(Plan(Login1, Find1, Find1), Known, {"crash", "client"})
}
=============================================================================
