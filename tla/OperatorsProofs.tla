--------------------------- MODULE OperatorsProofs --------------------------
(***************************************************************************)
(* What the users of the panel rely on.  A session says of its user what   *)
(* the table says; the audit log says of a setting what the row of the     *)
(* instance says; what the file manager has written is committed in the    *)
(* end; the loop that restarts crashed instances leaves alone what was     *)
(* stopped, and has one restart under way at most; the history of the      *)
(* metrics is kept, and the counters that are exported never go back.      *)
(* For any number of users, sessions, settings, paths and requests under   *)
(* way, and all delays and limits.                                         *)
(***************************************************************************)
EXTENDS Accounts, FileManager, Settings, AutoRestart, Metrics, SequenceTheorems, FiniteSetTheorems, TLAPS

-----------------------------------------------------------------------------
(* Users and sessions.                                                     *)

Name == Names \cup {"", "admin"}
ChangeOps == {"approve", "reject", "role", "password", "username"}
Row == [there : BOOLEAN, name : Name, pw : Nat, role : Roles, approved : BOOLEAN]
Session == [user : Nat, name : Name, pw : Nat, role : Roles, old : BOOLEAN, overtaken : BOOLEAN]
AccountRequest == [pc : {"idle", "login", "change", "drop"}, op : ChangeOps \cup {""}, user : Nat, read : Row,
            arg : Name \cup Roles, overtaken : BOOLEAN]

\* A change has a user and an argument that fits what it does.
Fits(r) ==
    /\ r.pc # "idle" => r.user \in Ids
    /\ r.pc = "change" => r.op \in ChangeOps
    /\ r.op = "role" => r.arg \in Roles
    /\ r.op = "username" => r.arg \in Name

TypeInv ==
    /\ users \in [Ids -> Row]
    /\ sessions \in [Tokens -> Session]
    /\ request \in [Handlers -> AccountRequest]
    /\ created \in 1 .. MaxUsers
    /\ \A h \in Handlers : Fits(request[h])
    /\ \A h \in Handlers : request[h].pc = "login" => request[h].user <= created
    /\ \A t \in Tokens : sessions[t].user \in 0 .. created
    /\ \A u \in Ids : u > created => ~users[u].there

-----------------------------------------------------------------------------
LEMMA Records ==
    /\ Nobody \in Row /\ NoSession \in Session /\ Idle \in AccountRequest /\ Fits(Idle)
    /\ ~Nobody.there /\ NoSession.user = 0 /\ Idle.pc = "idle" /\ Idle.op = ""
  BY DEF Nobody, NoSession, Idle, Row, Session, AccountRequest, Fits, Roles, Name, ChangeOps

\* The first user, or a new one.
LEMMA NewRow ==
    ASSUME NEW name \in Name, NEW role \in Roles, NEW approved \in BOOLEAN
    PROVE  [there |-> TRUE, name |-> name, pw |-> 0, role |-> role, approved |-> approved] \in Row
  BY DEF Row

\* What a change does to the row of its user: none that is gone comes back, and
\* an approval changes nothing a session has been given.
LEMMA ChangedRow ==
    ASSUME TypeInv, NEW r \in AccountRequest, Fits(r), r.pc = "change"
    PROVE  /\ Changed(r) \in Row
           /\ Changed(r).there => users[r.user].there
           /\ r.op = "approve" /\ users[r.user].there /\ users[r.user].approved
              => Changed(r) = users[r.user]
<1> DEFINE u == users[r.user]
<1>1. u \in Row /\ r.op \in ChangeOps
  BY DEF TypeInv, Fits
<1>2. CASE ~u.there
  BY <1>1, <1>2 DEF Changed
<1>3. CASE u.there
  <2>1. CASE r.op = "approve"
    <3>1. Changed(r) = [u EXCEPT !.approved = TRUE]
      BY <1>3, <2>1 DEF Changed, ApproveUser
    <3>2. u.approved => [u EXCEPT !.approved = TRUE] = u
      BY <1>1 DEF Row
    <3> QED
      BY <1>1, <1>3, <3>1, <3>2 DEF Row
  <2>2. CASE r.op = "reject"
    BY <1>3, <2>2, Records DEF Changed, RejectUser
  <2>3. CASE r.op = "role"
    BY <1>1, <1>3, <2>3 DEF Changed, UpdateUserRole, Row, Fits
  <2>4. CASE r.op = "password"
    BY <1>1, <1>3, <2>4 DEF Changed, UpdateUserPassword, Row
  <2>5. CASE r.op = "username"
    BY <1>1, <1>3, <2>5 DEF Changed, UpdateUsername, Row, Fits
  <2> QED
    BY <1>1, <2>1, <2>2, <2>3, <2>4, <2>5 DEF ChangeOps
<1> QED
  BY <1>2, <1>3

\* A change as it begins.
LEMMA ChangeRecord ==
    ASSUME NEW u \in Ids, NEW op \in ChangeOps, NEW arg \in Name \cup Roles, MaxUsers \in Nat,
           op = "role" => arg \in Roles, op = "username" => arg \in Name
    PROVE  LET r == [Idle EXCEPT !.pc = "change", !.op = op, !.user = u, !.arg = arg] IN
           r \in AccountRequest /\ Fits(r) /\ r.pc = "change"
<1>1. u \in Nat /\ Idle \in AccountRequest
  <2>1. u \in Nat
    BY DEF Ids
  <2> QED
    BY <2>1, Records
<1> DEFINE r == [Idle EXCEPT !.pc = "change", !.op = op, !.user = u, !.arg = arg]
<1>2. r \in AccountRequest
  BY <1>1 DEF AccountRequest
<1>3. r.pc = "change" /\ r.user = u /\ r.op = op /\ r.arg = arg
  BY <1>1 DEF AccountRequest
<1> HIDE DEF r
<1>4. Fits(r)
  BY <1>3 DEF Fits
<1> QED
  BY <1>2, <1>3, <1>4 DEF r

LEMMA DropRecord ==
    ASSUME NEW r \in AccountRequest, Fits(r), r.pc = "change"
    PROVE  LET d == [r EXCEPT !.pc = "drop"] IN
           d \in AccountRequest /\ Fits(d) /\ d.pc = "drop" /\ d.user = r.user
  BY DEF AccountRequest, Fits

LEMMA OvertakenRecord ==
    ASSUME NEW r \in AccountRequest, Fits(r)
    PROVE  LET d == [r EXCEPT !.overtaken = TRUE] IN
           d \in AccountRequest /\ Fits(d) /\ d.pc = r.pc /\ d.user = r.user /\ d.overtaken
  BY DEF AccountRequest, Fits

\* The five changes begin in the same way.
LEMMA Begins ==
    ASSUME TypeInv, MaxUsers \in Nat, NEW h \in Handlers, NEW u \in Ids, NEW s,
           \/ apiApproveUser(h, s, u) \/ apiRejectUser(h, s, u) \/ apiChangeRole(h, s, u)
           \/ apiChangePassword(h, s, u) \/ apiChangeUsername(h, s, u)
    PROVE  /\ UNCHANGED <<users, created, sessions>> /\ request[h].pc = "idle"
           /\ \E r \in AccountRequest : Fits(r) /\ r.pc = "change" /\ request' = [request EXCEPT ![h] = r]
<1>1. ASSUME NEW op \in ChangeOps, NEW arg \in Name \cup Roles, Change(h, op, u, arg),
             op = "role" => arg \in Roles, op = "username" => arg \in Name
      PROVE  /\ UNCHANGED <<users, created, sessions>> /\ request[h].pc = "idle"
             /\ \E r \in AccountRequest : Fits(r) /\ r.pc = "change" /\ request' = [request EXCEPT ![h] = r]
  <2> DEFINE r == [Idle EXCEPT !.pc = "change", !.op = op, !.user = u, !.arg = arg]
  <2>1. r \in AccountRequest /\ Fits(r) /\ r.pc = "change"
    BY <1>1, ChangeRecord
  <2>2. UNCHANGED <<users, created, sessions>> /\ request[h].pc = "idle" /\ request' = [request EXCEPT ![h] = r]
    BY <1>1 DEF Change, Free
  <2> QED
    BY <2>1, <2>2
<1>2. \E op \in ChangeOps, arg \in Name \cup Roles :
         /\ Change(h, op, u, arg)
         /\ op = "role" => arg \in Roles
         /\ op = "username" => arg \in Name
  BY DEF apiApproveUser, apiRejectUser, apiChangeRole, apiChangePassword, apiChangeUsername, ChangeOps, Name
<1> QED
  BY <1>1, <1>2

\* What a write does: nothing, if the name is taken, or one row changes, the
\* logins that have read it are overtaken, and the sessions are to be dropped.
LEMMA WriteEffect ==
    ASSUME TypeInv, NEW h \in Handlers, Write(h)
    PROVE  LET r == request[h] IN
           /\ r.pc = "change" /\ UNCHANGED <<created, sessions>>
           /\ \/ users' = users /\ request' = [request EXCEPT ![h] = Idle]
              \/ /\ users' = [users EXCEPT ![r.user] = Changed(r)]
                 /\ request' \in [Handlers -> AccountRequest]
                 /\ IF r.op = "approve" THEN request'[h] = Idle
                    ELSE request'[h].pc = "drop" /\ request'[h].user = r.user
                 /\ Fits(request'[h])
                 /\ \A g \in Handlers \ {h} :
                       IF request[g].pc = "login" /\ request[g].user = r.user
                       THEN /\ request'[g].pc = "login" /\ request'[g].user = r.user
                            /\ request'[g].overtaken /\ Fits(request'[g])
                       ELSE request'[g] = request[g]
<1> DEFINE r == request[h]
<1>1. r.pc = "change" /\ UNCHANGED <<created, sessions>> /\ r \in AccountRequest /\ Fits(r)
  BY DEF Write, TypeInv
<1>2. CASE users' = users /\ request' = [request EXCEPT ![h] = Idle]
  BY <1>1, <1>2
<1>3. CASE /\ users' = [users EXCEPT ![r.user] = Changed(r)]
           /\ request' = [g \in Handlers |->
                 IF g = h THEN (IF r.op = "approve" THEN Idle ELSE [r EXCEPT !.pc = "drop"])
                 ELSE IF request[g].pc = "login" /\ request[g].user = r.user
                 THEN [request[g] EXCEPT !.overtaken = TRUE]
                 ELSE request[g]]
  <2>1. /\ request'[h] \in AccountRequest /\ Fits(request'[h])
        /\ IF r.op = "approve" THEN request'[h] = Idle
           ELSE request'[h].pc = "drop" /\ request'[h].user = r.user
    BY <1>1, <1>3, DropRecord, Records
  <2>2. ASSUME NEW g \in Handlers \ {h}
        PROVE  /\ request'[g] \in AccountRequest
               /\ IF request[g].pc = "login" /\ request[g].user = r.user
                  THEN /\ request'[g].pc = "login" /\ request'[g].user = r.user
                       /\ request'[g].overtaken /\ Fits(request'[g])
                  ELSE request'[g] = request[g]
    <3>1. request[g] \in AccountRequest /\ Fits(request[g])
      BY DEF TypeInv
    <3> QED
      BY <1>3, <3>1, OvertakenRecord
  <2>3. request' \in [Handlers -> AccountRequest]
    BY <1>3, <2>1, <2>2
  <2> QED
    BY <1>1, <1>3, <2>1, <2>2, <2>3
<1> QED
  BY <1>2, <1>3 DEF Write

-----------------------------------------------------------------------------
(* The invariant.                                                          *)

\* A login that has not been overtaken has read the row as it is.
LoginsAreCurrent ==
    \A h \in Handlers :
       request[h].pc = "login" /\ ~request[h].overtaken =>
          /\ request[h].read = users[request[h].user]
          /\ users[request[h].user].there /\ users[request[h].user].approved

\* What a session is exempt for, and what it has to agree with.
Dropping(req, u) == \E h \in Handlers : req[h].pc = "drop" /\ req[h].user = u
Agrees(s, rec) == rec.there /\ rec.approved /\ s.role = rec.role /\ s.name = rec.name /\ s.pw = rec.pw

SessionInv ==
    \A t \in Tokens :
       sessions[t].user # 0 =>
          \/ sessions[t].overtaken \/ Dropping(request, sessions[t].user)
          \/ Agrees(sessions[t], users[sessions[t].user])

Inv == TypeInv /\ LoginsAreCurrent /\ SessionInv

\* Rows that stay, sessions that stay or end, and requests that do not end a
\* change: all agree as before.
LEMMA Kept ==
    ASSUME SessionInv,
           \A t \in Tokens :
              sessions'[t].user = 0 \/
              /\ sessions'[t].user = sessions[t].user /\ sessions'[t].role = sessions[t].role
              /\ sessions'[t].name = sessions[t].name /\ sessions'[t].pw = sessions[t].pw
              /\ sessions[t].overtaken => sessions'[t].overtaken
              /\ Dropping(request, sessions[t].user) => Dropping(request', sessions[t].user)
              /\ Agrees(sessions[t], users[sessions[t].user]) =>
                    \/ Agrees(sessions[t], users'[sessions[t].user])
                    \/ Dropping(request', sessions[t].user)
    PROVE  SessionInv'
<1> SUFFICES ASSUME NEW t \in Tokens, sessions'[t].user # 0
             PROVE  \/ sessions'[t].overtaken \/ Dropping(request', sessions'[t].user)
                    \/ Agrees(sessions'[t], users'[sessions'[t].user])
  BY DEF SessionInv
<1>1. \/ sessions[t].overtaken \/ Dropping(request, sessions[t].user)
      \/ Agrees(sessions[t], users[sessions[t].user])
  BY DEF SessionInv
<1> QED
  BY <1>1 DEF Agrees

LEMMA DroppingKept ==
    ASSUME NEW h \in Handlers, NEW r, request \in [Handlers -> AccountRequest], request[h].pc # "drop",
           request' = [request EXCEPT ![h] = r], NEW u, Dropping(request, u)
    PROVE  Dropping(request', u)
  BY DEF Dropping

\* A session ends, or gets old.
LEMMA SessionStep ==
    ASSUME Inv, NEW t \in Tokens, UNCHANGED <<users, created, request>>,
           \/ sessions' = [sessions EXCEPT ![t] = NoSession]
           \/ sessions' = [sessions EXCEPT ![t].old = TRUE]
    PROVE  Inv'
<1>1. sessions \in [Tokens -> Session] /\ \A x \in Tokens : sessions[x].user \in 0 .. created
  BY DEF Inv, TypeInv
<1>2. /\ sessions' \in [Tokens -> Session]
      /\ \A x \in Tokens :
            sessions'[x].user = 0 \/
            /\ sessions'[x].user = sessions[x].user /\ sessions'[x].role = sessions[x].role
            /\ sessions'[x].name = sessions[x].name /\ sessions'[x].pw = sessions[x].pw
            /\ sessions'[x].overtaken = sessions[x].overtaken
  <2>1. CASE sessions' = [sessions EXCEPT ![t] = NoSession]
    BY <1>1, <2>1, Records
  <2>2. CASE sessions' = [sessions EXCEPT ![t].old = TRUE]
    BY <1>1, <2>2 DEF Session
  <2> QED
    BY <2>1, <2>2
<1>3. TypeInv'
  <2>1. created \in Nat
    BY DEF Inv, TypeInv
  <2>2. \A x \in Tokens : sessions'[x].user \in 0 .. created
    BY <1>1, <1>2, <2>1
  <2> QED
    BY <1>2, <2>2 DEF Inv, TypeInv
<1>4. LoginsAreCurrent'
  BY DEF Inv, LoginsAreCurrent
<1>5. SessionInv'
  BY <1>2, Kept DEF Inv
<1> QED
  BY <1>3, <1>4, <1>5 DEF Inv

\* A request begins or ends without a change of rows or sessions.
LEMMA AccountStep ==
    ASSUME Inv, NEW h \in Handlers, NEW r \in AccountRequest, Fits(r), request[h].pc # "drop",
           UNCHANGED <<users, created, sessions>>, request' = [request EXCEPT ![h] = r],
           r.pc = "login" => r.read = users[r.user] /\ r.read.there /\ r.read.approved
    PROVE  Inv'
<1>0. r.pc = "login" => r.user <= created
  BY DEF Inv, TypeInv, Fits, Ids
<1>1. TypeInv'
  BY <1>0 DEF Inv, TypeInv
<1>2. LoginsAreCurrent'
  BY DEF Inv, TypeInv, LoginsAreCurrent
<1>3. \A u : Dropping(request, u) => Dropping(request', u)
  BY DroppingKept DEF Inv, TypeInv
<1>4. SessionInv'
  BY <1>3, Kept DEF Inv
<1> QED
  BY <1>1, <1>2, <1>4 DEF Inv

\* A new user comes with a new id, that no login and no session has.
LEMMA CreateUserStep ==
    ASSUME Inv, MaxUsers \in Nat, created < MaxUsers,
           NEW name \in Name, NEW role \in Roles, NEW approved \in BOOLEAN,
           users' = CreateUser(users, name, role, approved), created' = created + 1,
           UNCHANGED <<sessions, request>>
    PROVE  Inv'
<1> DEFINE rec == [there |-> TRUE, name |-> name, pw |-> 0, role |-> role, approved |-> approved]
<1>1. created \in Nat /\ created + 1 \in Ids /\ created + 1 \in 1 .. MaxUsers
  BY DEF Inv, TypeInv, Ids
<1>2. users' = [users EXCEPT ![created + 1] = rec] /\ rec \in Row
  BY NewRow DEF CreateUser
<1> HIDE DEF rec
<1>3. users \in [Ids -> Row] /\ users' \in [Ids -> Row]
  BY <1>1, <1>2 DEF Inv, TypeInv
<1>4. \A u \in Ids : users[u].there => users'[u] = users[u]
  BY <1>1, <1>2, <1>3 DEF Inv, TypeInv
<1>5. \A u \in Ids : u > created + 1 => ~users'[u].there
  BY <1>1, <1>2, <1>3 DEF Inv, TypeInv, Ids
<1>6. TypeInv'
  <2>1. \A t \in Tokens : sessions[t].user \in 0 .. created + 1
    BY <1>1 DEF Inv, TypeInv
  <2>2. \A h \in Handlers : request[h].pc = "login" => request[h].user <= created + 1
    BY <1>1 DEF Inv, TypeInv, Fits, Ids
  <2> QED
    BY <1>1, <1>3, <1>5, <2>1, <2>2 DEF Inv, TypeInv
<1>7. LoginsAreCurrent'
  BY <1>4 DEF Inv, TypeInv, Fits, LoginsAreCurrent
<1>8. SessionInv'
  <2>1. \A t \in Tokens : sessions[t].user = 0 \/ sessions[t].user \in Ids
    BY <1>1 DEF Inv, TypeInv, Ids
  <2>2. \A t \in Tokens : sessions[t].user # 0 /\ Agrees(sessions[t], users[sessions[t].user]) =>
           Agrees(sessions[t], users'[sessions[t].user])
    BY <1>4, <2>1 DEF Agrees
  <2> QED
    BY <2>2, Kept DEF Inv
<1> QED
  BY <1>6, <1>7, <1>8 DEF Inv

\* A login ends with a session that says what the login has read.
LEMMA CreateStep ==
    ASSUME Inv, NEW h \in Handlers, Create(h), MaxUsers \in Nat PROVE Inv'
<1> DEFINE r == request[h]
           s == [user |-> r.user, name |-> r.read.name, pw |-> r.read.pw, role |-> r.read.role,
                 old |-> FALSE, overtaken |-> r.overtaken]
<1>1. PICK t \in Tokens : sessions' = [sessions EXCEPT ![t] = s]
  BY DEF Create
<1>2. r.pc = "login" /\ request' = [request EXCEPT ![h] = Idle] /\ UNCHANGED <<users, created>>
  BY DEF Create
<1>3. r \in AccountRequest /\ Fits(r) /\ r.user \in Ids /\ r.user \in Nat
  BY <1>2 DEF Inv, TypeInv, Fits, Ids
<1>4. s \in Session
  BY <1>3 DEF AccountRequest, Row, Session
<1>5. /\ s.user = r.user /\ s.name = r.read.name /\ s.pw = r.read.pw /\ s.role = r.read.role
      /\ s.overtaken = r.overtaken
  OBVIOUS
<1>6. r.overtaken \/ Agrees(s, users[s.user])
  BY <1>2, <1>5 DEF Inv, LoginsAreCurrent, Agrees
<1> HIDE DEF s
<1>7. TypeInv'
  <2>1. s.user \in 0 .. created
    BY <1>2, <1>3, <1>5 DEF Inv, TypeInv
  <2> QED
    BY <1>1, <1>2, <1>4, <2>1, Records DEF Inv, TypeInv
<1>8. LoginsAreCurrent'
  BY <1>2, Records DEF Inv, TypeInv, LoginsAreCurrent
<1>9. SessionInv'
  <2> SUFFICES ASSUME NEW x \in Tokens, sessions'[x].user # 0
               PROVE  \/ sessions'[x].overtaken \/ Dropping(request', sessions'[x].user)
                      \/ Agrees(sessions'[x], users'[sessions'[x].user])
    BY DEF SessionInv
  <2>1. CASE x = t
    <3>1. sessions'[x] = s
      BY <1>1, <2>1 DEF Inv, TypeInv
    <3> QED
      BY <1>2, <1>5, <1>6, <3>1
  <2>2. CASE x # t
    <3>1. sessions'[x] = sessions[x]
      BY <1>1, <2>2 DEF Inv, TypeInv
    <3>2. \/ sessions[x].overtaken \/ Dropping(request, sessions[x].user)
          \/ Agrees(sessions[x], users[sessions[x].user])
      BY <3>1 DEF Inv, SessionInv
    <3>3. Dropping(request, sessions[x].user) => Dropping(request', sessions[x].user)
      BY <1>2, DroppingKept DEF Inv, TypeInv
    <3> QED
      BY <1>2, <3>1, <3>2, <3>3
  <2> QED
    BY <2>1, <2>2
<1> QED
  BY <1>7, <1>8, <1>9 DEF Inv

\* The sessions of the user end with the change.
LEMMA DropStep ==
    ASSUME Inv, NEW h \in Handlers, Drop(h) PROVE Inv'
<1> DEFINE u == request[h].user
<1>1. /\ request[h].pc = "drop" /\ request' = [request EXCEPT ![h] = Idle] /\ UNCHANGED <<users, created>>
      /\ sessions' = [t \in Tokens |-> IF sessions[t].user = u THEN NoSession ELSE sessions[t]]
  BY DEF Drop, DeleteUserSessions
<1>2. TypeInv'
  <2>1. sessions' \in [Tokens -> Session] /\ \A t \in Tokens : sessions'[t].user \in 0 .. created
    <3>1. 0 \in 0 .. created
      BY DEF Inv, TypeInv
    <3> QED
      BY <1>1, <3>1, Records DEF Inv, TypeInv
  <2>2. request' \in [Handlers -> AccountRequest] /\ \A g \in Handlers : request'[g] \in {Idle, request[g]}
    BY <1>1, Records DEF Inv, TypeInv
  <2> QED
    BY <1>1, <2>1, <2>2, Records DEF Inv, TypeInv
<1>3. LoginsAreCurrent'
  BY <1>1, Records DEF Inv, TypeInv, LoginsAreCurrent
<1>4. \A v : v # u /\ Dropping(request, v) => Dropping(request', v)
  BY <1>1 DEF Dropping, Inv, TypeInv
<1>5. SessionInv'
  <2>1. ASSUME NEW t \in Tokens
        PROVE  sessions'[t].user = 0 \/ (sessions[t].user # u /\ sessions'[t] = sessions[t])
    BY <1>1, Records
  <2> HIDE DEF u
  <2> QED
    BY <1>1, <1>4, <2>1, Kept DEF Inv
<1> QED
  BY <1>2, <1>3, <1>5 DEF Inv

\* A write leaves sessions behind that differ from the row only if it is going
\* to drop them, and logins only if it has overtaken them.
LEMMA WriteStep ==
    ASSUME Inv, NEW h \in Handlers, Write(h), MaxUsers \in Nat PROVE Inv'
<1> DEFINE r == request[h]
<1>1. r.pc = "change" /\ r \in AccountRequest /\ Fits(r) /\ r.user \in Ids /\ TypeInv /\ UNCHANGED <<created, sessions>>
  BY WriteEffect DEF Inv, TypeInv, Fits
<1>2. CASE users' = users /\ request' = [request EXCEPT ![h] = Idle]
  <2>1. request[h].pc # "drop" /\ Idle.pc # "login"
    BY <1>1, Records
  <2> QED
    BY <1>1, <1>2, <2>1, Records, AccountStep
<1>3. CASE /\ users' = [users EXCEPT ![r.user] = Changed(r)]
           /\ request' \in [Handlers -> AccountRequest]
           /\ IF r.op = "approve" THEN request'[h] = Idle
              ELSE request'[h].pc = "drop" /\ request'[h].user = r.user
           /\ Fits(request'[h])
           /\ \A g \in Handlers \ {h} :
                 IF request[g].pc = "login" /\ request[g].user = r.user
                 THEN /\ request'[g].pc = "login" /\ request'[g].user = r.user
                      /\ request'[g].overtaken /\ Fits(request'[g])
                 ELSE request'[g] = request[g]
  <2>1. /\ Changed(r) \in Row
        /\ Changed(r).there => users[r.user].there
        /\ r.op = "approve" /\ users[r.user].there /\ users[r.user].approved => Changed(r) = users[r.user]
    BY <1>1, ChangedRow
  <2> DEFINE rec == Changed(r)
  <2>2. users'[r.user] = rec /\ \A u \in Ids \ {r.user} : users'[u] = users[u]
    BY <1>1, <1>3 DEF TypeInv
  <2>3. TypeInv'
    <3>1. users' \in [Ids -> Row]
      BY <1>1, <1>3, <2>1 DEF TypeInv
    <3>2. \A u \in Ids : u > created => ~users'[u].there
      BY <1>1, <2>1, <2>2 DEF TypeInv
    <3>3. ASSUME NEW g \in Handlers
          PROVE  Fits(request'[g]) /\ (request'[g].pc = "login" => request'[g].user <= created)
      BY <1>1, <1>3, Records DEF TypeInv
    <3> QED
      BY <1>1, <1>3, <3>1, <3>2, <3>3 DEF TypeInv
  <2>4. LoginsAreCurrent'
    <3> SUFFICES ASSUME NEW g \in Handlers, request'[g].pc = "login", ~request'[g].overtaken
                 PROVE  /\ request'[g].read = users'[request'[g].user]
                        /\ users'[request'[g].user].there /\ users'[request'[g].user].approved
      BY DEF LoginsAreCurrent
    <3>1. g # h /\ request'[g] = request[g] /\ request[g].user # r.user /\ request[g].user \in Ids
      BY <1>1, <1>3, Records DEF TypeInv, Fits
    <3> QED
      BY <2>2, <3>1 DEF Inv, LoginsAreCurrent
  <2>5. \A u : Dropping(request, u) => Dropping(request', u)
    BY <1>1, <1>3 DEF Dropping
  <2>6. ASSUME NEW t \in Tokens, sessions[t].user # 0, Agrees(sessions[t], users[sessions[t].user])
        PROVE  \/ Agrees(sessions[t], users'[sessions[t].user])
               \/ Dropping(request', sessions[t].user)
    <3>1. sessions[t].user \in Ids
      BY <1>1, <2>6 DEF TypeInv, Ids
    <3>2. CASE sessions[t].user # r.user
      BY <2>2, <2>6, <3>1, <3>2
    <3>3. CASE sessions[t].user = r.user /\ r.op # "approve"
      BY <1>3, <3>3 DEF Dropping
    <3>4. CASE sessions[t].user = r.user /\ r.op = "approve"
      BY <2>1, <2>2, <2>6, <3>4 DEF Agrees
    <3> QED
      BY <3>2, <3>3, <3>4
  <2>7. SessionInv'
    BY <1>1, <2>5, <2>6, Kept DEF Inv
  <2> QED
    BY <2>3, <2>4, <2>7 DEF Inv
<1> QED
  BY <1>1, <1>2, <1>3, WriteEffect

\* Sessions and requests are in memory only.
LEMMA RestartStep ==
    ASSUME Inv, MasterRestart, MaxUsers \in Nat PROVE Inv'
<1>1. /\ sessions' = [t \in Tokens |-> NoSession] /\ request' = [h \in Handlers |-> Idle]
      /\ \/ UNCHANGED <<users, created>>
         \/ /\ created < MaxUsers /\ created' = created + 1
            /\ users' = CreateUser(users, "admin", "admin", TRUE)
  BY DEF MasterRestart
<1>2. /\ sessions' \in [Tokens -> Session] /\ request' \in [Handlers -> AccountRequest]
      /\ \A t \in Tokens : sessions'[t].user = 0
      /\ \A h \in Handlers : Fits(request'[h]) /\ request'[h].pc = "idle"
  BY <1>1, Records
<1>3. /\ users' \in [Ids -> Row] /\ created' \in 1 .. MaxUsers
      /\ \A u \in Ids : u > created' => ~users'[u].there
  <2>1. CASE UNCHANGED <<users, created>>
    BY <2>1 DEF Inv, TypeInv
  <2>2. CASE created < MaxUsers /\ created' = created + 1 /\ users' = CreateUser(users, "admin", "admin", TRUE)
    <3> DEFINE rec == [there |-> TRUE, name |-> "admin", pw |-> 0, role |-> "admin", approved |-> TRUE]
    <3>1. rec \in Row /\ users' = [users EXCEPT ![created + 1] = rec]
      BY <2>2, NewRow DEF CreateUser, Name, Roles
    <3> HIDE DEF rec
    <3>2. created \in Nat /\ created + 1 \in 1 .. MaxUsers /\ created + 1 \in Ids
      BY <2>2 DEF Inv, TypeInv, Ids
    <3>3. users' \in [Ids -> Row] /\ \A u \in Ids \ {created + 1} : users'[u] = users[u]
      BY <3>1, <3>2 DEF Inv, TypeInv
    <3>4. \A u \in Ids : u > created + 1 => u # created + 1 /\ u > created
      BY <3>2 DEF Ids
    <3> QED
      BY <2>2, <3>2, <3>3, <3>4 DEF Inv, TypeInv
  <2> QED
    BY <1>1, <2>1, <2>2
<1>4. TypeInv'
  <2>1. \A t \in Tokens : sessions'[t].user \in 0 .. created'
    BY <1>2, <1>3
  <2> QED
    BY <1>2, <1>3, <2>1 DEF TypeInv
<1> QED
  BY <1>2, <1>4 DEF Inv, LoginsAreCurrent, SessionInv

LEMMA AccountsStep ==
    ASSUME MaxUsers \in Nat, Inv, [AccountsNext]_accountsVars PROVE Inv'
<1>1. ASSUME NEW h \in Handlers, Create(h) PROVE Inv'
  BY <1>1, CreateStep
<1>2. ASSUME NEW h \in Handlers, Write(h) PROVE Inv'
  BY <1>2, WriteStep
<1>3. ASSUME NEW h \in Handlers, Drop(h) PROVE Inv'
  BY <1>3, DropStep
<1>4. ASSUME NEW h \in Handlers, NEW u \in Ids, apiLogin(h, u) PROVE Inv'
  <2> DEFINE r == [Idle EXCEPT !.pc = "login", !.user = u, !.read = users[u]]
  <2>1. /\ request[h].pc = "idle" /\ users[u].there /\ users[u].approved
        /\ request' = [request EXCEPT ![h] = r] /\ UNCHANGED <<users, created, sessions>>
    BY <1>4 DEF apiLogin, Free
  <2>2. r \in AccountRequest /\ Fits(r) /\ r.user = u /\ r.read = users[u]
    <3>1. users[u] \in Row
      BY DEF Inv, TypeInv
    <3>2. u \in Nat
      BY DEF Ids
    <3>3. Idle \in AccountRequest /\ Idle.op = ""
      BY Records
    <3>4. r \in AccountRequest
      BY <3>1, <3>2, <3>3 DEF AccountRequest
    <3>5. r.pc = "login" /\ r.user = u /\ r.read = users[u] /\ r.op = Idle.op
      BY <3>1, <3>2, <3>3 DEF AccountRequest
    <3> HIDE DEF r
    <3>6. Fits(r)
      BY <3>3, <3>5 DEF Fits
    <3> QED
      BY <3>4, <3>5, <3>6
  <2> HIDE DEF r
  <2> QED
    BY <2>1, <2>2, AccountStep
<1>5. ASSUME NEW h \in Handlers, NEW u \in Ids, NEW s,
             \/ apiApproveUser(h, s, u) \/ apiRejectUser(h, s, u) \/ apiChangeRole(h, s, u)
             \/ apiChangePassword(h, s, u) \/ apiChangeUsername(h, s, u)
      PROVE  Inv'
  <2>1. TypeInv
    BY DEF Inv
  <2>2. UNCHANGED <<users, created, sessions>> /\ request[h].pc = "idle"
    BY <1>5, <2>1, Begins
  <2>3. PICK r \in AccountRequest : Fits(r) /\ r.pc = "change" /\ request' = [request EXCEPT ![h] = r]
    BY <1>5, <2>1, Begins
  <2> QED
    BY <2>2, <2>3, AccountStep
<1>6. ASSUME NEW t \in Tokens, apiLogout(t) \/ Expire(t) \/ GetExpired(t) PROVE Inv'
  BY <1>6, SessionStep DEF apiLogout, Expire, GetExpired
<1>7. ASSUME NEW name \in Names, apiRegister(name) PROVE Inv'
  <2>1. "viewer" \in Roles /\ FALSE \in BOOLEAN /\ name \in Name
    BY DEF Roles, Name
  <2> QED
    BY <1>7, <2>1, CreateUserStep DEF apiRegister
<1>8. ASSUME MasterRestart PROVE Inv'
  BY <1>8, RestartStep
<1>9. ASSUME UNCHANGED accountsVars PROVE Inv'
  <2>1. UNCHANGED <<users, created, sessions, request>>
    BY <1>9 DEF accountsVars
  <2>2. TypeInv' /\ LoginsAreCurrent'
    BY <2>1 DEF Inv, TypeInv, LoginsAreCurrent
  <2>3. SessionInv'
    BY <2>1 DEF Inv, SessionInv
  <2> QED
    BY <2>2, <2>3 DEF Inv
<1> QED
  BY <1>1, <1>2, <1>3, <1>4, <1>5, <1>6, <1>7, <1>8, <1>9 DEF AccountsNext

\* The invariant holds in every reachable state.
LEMMA Invariance ==
    ASSUME MaxUsers \in Nat \ {0} PROVE AccountsSpec => []Inv
<1>1. AccountsInit => Inv
  <2> SUFFICES ASSUME AccountsInit PROVE Inv
    OBVIOUS
  <2> DEFINE rec == [there |-> TRUE, name |-> "admin", pw |-> 0, role |-> "admin", approved |-> TRUE]
  <2>1. rec \in Row
    BY NewRow DEF Name, Roles
  <2>2. /\ users = [[u \in Ids |-> Nobody] EXCEPT ![1] = rec] /\ created = 1
        /\ sessions = [t \in Tokens |-> NoSession] /\ request = [h \in Handlers |-> Idle]
    BY DEF AccountsInit, NoTable
  <2> HIDE DEF rec
  <2>3. users \in [Ids -> Row] /\ \A u \in Ids : u > 1 => ~users[u].there
    <3>1. 1 \in Ids /\ \A u \in Ids : u > 1 => u # 1
      BY DEF Ids
    <3>2. users \in [Ids -> Row] /\ \A u \in Ids \ {1} : users[u] = Nobody
      BY <2>1, <2>2, <3>1, Records
    <3> QED
      BY <3>1, <3>2, Records
  <2>4. /\ sessions \in [Tokens -> Session] /\ request \in [Handlers -> AccountRequest]
        /\ \A t \in Tokens : sessions[t].user = 0
        /\ \A h \in Handlers : Fits(request[h]) /\ request[h].pc = "idle"
    BY <2>2, Records
  <2>5. TypeInv
    BY <2>2, <2>3, <2>4 DEF TypeInv
  <2> QED
    BY <2>4, <2>5 DEF Inv, LoginsAreCurrent, SessionInv
<1>2. Inv /\ [AccountsNext]_accountsVars => Inv'
  BY AccountsStep
<1> QED
  BY <1>1, <1>2, PTL DEF AccountsSpec

\* Roles, ids and requests have their types, and ids that were not given belong
\* to nobody.
THEOREM TypeCorrect ==
    ASSUME MaxUsers \in Nat \ {0} PROVE AccountsSpec => []AccountsTypeOK
<1>1. Inv => AccountsTypeOK
  <2> SUFFICES ASSUME Inv PROVE AccountsTypeOK
    OBVIOUS
  <2>1. \A u \in Ids : users[u].role \in Roles
    BY DEF Inv, TypeInv, Row
  <2>2. \A h \in Handlers : request[h].pc \in {"idle", "login", "change", "drop"}
    BY DEF Inv, TypeInv, AccountRequest
  <2>3. created \in 0 .. MaxUsers
    BY DEF Inv, TypeInv
  <2> QED
    BY <2>1, <2>2, <2>3 DEF Inv, TypeInv, AccountsTypeOK
<1> QED
  BY <1>1, Invariance, PTL

\* A session agrees with the row of its user, but for the sessions about to be
\* dropped and those of a login that a change has overtaken: for any number of
\* users, sessions and requests under way.
THEOREM SessionsStayCurrent ==
    ASSUME MaxUsers \in Nat \ {0} PROVE AccountsSpec => []SessionsAreCurrent
<1>1. Inv => SessionsAreCurrent
  BY DEF Inv, SessionInv, SessionsAreCurrent, Dropping, Agrees
<1> QED
  BY <1>1, Invariance, PTL

-----------------------------------------------------------------------------
(* The file manager and its git history.                                   *)

ContextPcs == {"free", "reset", "call", "copied", "respond", "restoring"}
JobPcs == {"none", "user", "add", "commit"}
Kinds == {"none", "write", "delete", "mkdir", "rename", "move", "copy", "restore"}
Somebody == Users \cup {NoUser}
Context == [pc : ContextPcs, user : Somebody, kind : Kinds, from : SUBSET Paths, to : SUBSET Paths,
            entry : Int, op : Int]
CommitJob == [pc : JobPcs, context : Contexts \cup {0}, paths : SUBSET Paths, author : Somebody, actor : Somebody]

Commit == [tree : [Paths -> Int], author : Somebody, actor : Somebody]

FilesTypes ==
    /\ files \in [Paths -> Int] /\ index \in [Paths -> Int]
    /\ commits \in Seq(Commit)
    /\ context \in [Contexts -> Context]
    /\ job \in [Ops -> CommitJob]
    /\ ops \in 0 .. MaxOps
    /\ missed \subseteq Paths

\* A request has a number of its own, under which no goroutine has been started
\* before it gets to that.
NumberInv ==
    /\ \A n \in Ops : job[n].pc # "none" => n <= ops /\ job[n].context \in Contexts
    /\ \A c \in Contexts : context[c].pc # "free" => context[c].op \in 1 .. ops
    /\ \A c \in Contexts : context[c].pc \in {"reset", "call", "copied", "respond"} =>
                              job[context[c].op].pc = "none"
    /\ \A c, d \in Contexts : context[c].pc # "free" /\ context[d].pc # "free"
                              /\ context[c].op = context[d].op => c = d
    /\ \A c \in Contexts : context[c].pc = "copied" => context[c].kind = "move"

\* Somebody will see to the path: the handler that has changed it, or the
\* goroutine it has left behind.
Seen(p) ==
    \/ \E c \in Contexts : context[c].pc \in {"copied", "respond"} /\ p \in CommitPaths(context[c])
    \/ \E n \in Ops : job[n].pc \in {"user", "add"} /\ p \in job[n].paths
Staged(p) == \E n \in Ops : job[n].pc = "commit" /\ p \in job[n].paths

\* A file that git has not staged is seen to, and one that is staged and not
\* committed is about to be, by some goroutine or other.
CommitInv ==
    \A p \in Paths \ missed : /\ files[p] = index[p] \/ Seen(p)
                              /\ index[p] = head[p] \/ Staged(p)

\* A restore is from a commit there is.
EntryInv ==
    \A c \in Contexts : context[c].pc # "free" /\ context[c].kind = "restore" => context[c].entry \in DOMAIN commits

FilesInv == FilesTypes /\ NumberInv /\ EntryInv /\ CommitInv

LEMMA FreeContextType == FreeContext \in Context /\ FreeContext.pc = "free"
<1>1. NoUser \in Somebody /\ {} \in SUBSET Paths
  BY DEF Somebody
<1> QED
  BY <1>1 DEF FreeContext, Context, ContextPcs, Kinds

LEMMA NoJobType == NoJob \in CommitJob /\ NoJob.pc = "none"
  BY DEF NoJob, CommitJob, JobPcs, Somebody

LEMMA FilesStart == FilesInit => FilesInv
<1> SUFFICES ASSUME FilesInit PROVE FilesInv
  OBVIOUS
<1>1. files \in [Paths -> Int] /\ index = files /\ commits = <<>> /\ head = files /\ ops = 0 /\ missed = {}
  BY DEF FilesInit, NoFiles, head
<1>2. /\ context \in [Contexts -> Context] /\ \A c \in Contexts : context[c].pc = "free"
      /\ job \in [Ops -> CommitJob] /\ \A n \in Ops : job[n].pc = "none"
  BY FreeContextType, NoJobType DEF FilesInit
<1>3. FilesTypes
  BY <1>1, <1>2, FilesAssumption DEF FilesTypes
<1>4. NumberInv
  BY <1>2 DEF NumberInv
<1>5. CommitInv
  BY <1>1 DEF CommitInv
<1>6. EntryInv
  BY <1>2 DEF EntryInv
<1> QED
  BY <1>3, <1>4, <1>5, <1>6 DEF FilesInv

LEMMA EntriesStay ==
    ASSUME EntryInv, DOMAIN commits \subseteq DOMAIN commits', NEW c \in Contexts,
           \A d \in Contexts \ {c} : context'[d] = context[d],
           \/ context'[c].pc = "free"
           \/ context[c].pc # "free" /\ context'[c].kind = context[c].kind /\ context'[c].entry = context[c].entry
    PROVE  EntryInv'
  BY DEF EntryInv

LEMMA HeadStays == ASSUME UNCHANGED commits PROVE head' = head
  BY DEF head

\* A request is started.
LEMMA ResetStep ==
    ASSUME FilesInv, NEW c \in Contexts, NEW kind \in Kinds, NEW from \in SUBSET Paths,
           NEW to \in SUBSET Paths, NEW entry \in Int, Reset(c, kind, from, to, entry),
           kind = "restore" => entry \in DOMAIN commits
    PROVE  FilesInv'
<1> USE DEF FilesInv
<1> DEFINE n == ops + 1
<1>1. n \in Int /\ n \in 1 .. MaxOps /\ n \in Ops /\ ops \in Nat
  BY FilesAssumption DEF Reset, FilesTypes, Ops
<1>2. /\ context[c].pc = "free" /\ ops' = n
      /\ context' = [context EXCEPT ![c] =
            [pc |-> "reset", user |-> NoUser, kind |-> kind, from |-> from, to |-> to,
             entry |-> entry, op |-> n]]
      /\ UNCHANGED <<files, index, commits, job, missed>>
  BY DEF Reset
<1>a. NoUser \in Somebody
  BY DEF Somebody
<1>b. n = ops + 1
  OBVIOUS
<1> HIDE DEF n
<1>3. /\ context' \in [Contexts -> Context]
      /\ context'[c].pc = "reset" /\ context'[c].op = n
      /\ context'[c].kind = kind /\ context'[c].entry = entry
      /\ \A d \in Contexts \ {c} : context'[d] = context[d]
  BY <1>1, <1>2, <1>a DEF FilesTypes, Context, ContextPcs
<1>4. FilesTypes'
  BY <1>1, <1>2, <1>3, FilesAssumption DEF FilesTypes
<1>5. job[n].pc = "none"
  BY <1>1, <1>b DEF NumberInv, FilesTypes
<1>6. NumberInv'
  <2>1. \A m \in Ops : job'[m].pc # "none" => m <= ops' /\ job'[m].context \in Contexts
    BY <1>1, <1>2, <1>b DEF NumberInv, Ops
  <2>2. ASSUME NEW d \in Contexts, context'[d].pc # "free" PROVE context'[d].op \in 1 .. ops'
    BY <1>1, <1>2, <1>b, <1>3, <2>2 DEF NumberInv
  <2>3. ASSUME NEW d \in Contexts, context'[d].pc \in {"reset", "call", "copied", "respond"}
        PROVE  job'[context'[d].op].pc = "none"
    BY <1>2, <1>3, <1>5, <2>3 DEF NumberInv
  <2>4. ASSUME NEW d \in Contexts, NEW e \in Contexts, context'[d].pc # "free", context'[e].pc # "free",
               context'[d].op = context'[e].op
        PROVE  d = e
    <3>1. \A b \in Contexts \ {c} : context[b].pc # "free" => context[b].op # n
      BY <1>1, <1>b DEF NumberInv
    <3> QED
      BY <1>3, <2>4, <3>1 DEF NumberInv
  <2>5. ASSUME NEW d \in Contexts, context'[d].pc = "copied" PROVE context'[d].kind = "move"
    BY <1>3, <2>5 DEF NumberInv
  <2> QED
    BY <2>1, <2>2, <2>3, <2>4, <2>5 DEF NumberInv
<1>7. CommitInv'
  <2>1. \A p \in Paths : Seen(p) => Seen(p)'
    BY <1>2, <1>3 DEF Seen, CommitPaths
  <2>2. \A p \in Paths : Staged(p) => Staged(p)'
    BY <1>2 DEF Staged
  <2> QED
    BY <1>2, <2>1, <2>2, HeadStays DEF CommitInv
<1>8. EntryInv'
  BY <1>2, <1>3 DEF EntryInv
<1> QED
  BY <1>4, <1>6, <1>7, <1>8

\* Where a step leaves the other contexts alone and the number of its own, and the
\* goroutines, the numbers are kept.
LEMMA NumbersStay ==
    ASSUME NumberInv, UNCHANGED <<ops, job>>, NEW c \in Contexts, context[c].pc # "free",
           \A d \in Contexts \ {c} : context'[d] = context[d],
           \/ context'[c].pc = "free"
           \/ /\ context[c].pc \in {"reset", "call", "copied", "respond"} /\ context'[c].op = context[c].op
              /\ context'[c].pc = "copied" => context'[c].kind = "move"
    PROVE  NumberInv'
<1>1. \A m \in Ops : job'[m].pc # "none" => m <= ops' /\ job'[m].context \in Contexts
  BY DEF NumberInv
<1>2. ASSUME NEW d \in Contexts, context'[d].pc # "free" PROVE context'[d].op \in 1 .. ops'
  BY <1>2 DEF NumberInv
<1>3. ASSUME NEW d \in Contexts, context'[d].pc \in {"reset", "call", "copied", "respond"}
      PROVE  job'[context'[d].op].pc = "none"
  BY <1>3 DEF NumberInv
<1>4. ASSUME NEW d \in Contexts, NEW e \in Contexts, context'[d].pc # "free", context'[e].pc # "free",
             context'[d].op = context'[e].op
      PROVE  d = e
  BY <1>4 DEF NumberInv
<1>5. ASSUME NEW d \in Contexts, context'[d].pc = "copied" PROVE context'[d].kind = "move"
  BY <1>5 DEF NumberInv
<1> QED
  BY <1>1, <1>2, <1>3, <1>4, <1>5 DEF NumberInv

LEMMA AtEffect ==
    ASSUME FilesTypes, NEW c \in Contexts, NEW pc \in ContextPcs, HandlerAt(c, pc)
    PROVE  /\ context' \in [Contexts -> Context]
           /\ context'[c].pc = pc /\ context'[c].op = context[c].op /\ context'[c].kind = context[c].kind
           /\ context'[c].from = context[c].from /\ context'[c].to = context[c].to
           /\ context'[c].entry = context[c].entry
           /\ \A d \in Contexts \ {c} : context'[d] = context[d]
  BY DEF FilesTypes, HandlerAt, Context

LEMMA ReturnEffect ==
    ASSUME FilesTypes, NEW c \in Contexts, Return(c)
    PROVE  /\ context' \in [Contexts -> Context] /\ context'[c].pc = "free"
           /\ \A d \in Contexts \ {c} : context'[d] = context[d]
<1> DEFINE u == context[c].user
<1>1. u \in Somebody
  BY DEF FilesTypes, Context
<1>2. context' = [context EXCEPT ![c] = [FreeContext EXCEPT !.user = u]]
  BY DEF Return
<1> HIDE DEF u
<1>3. [FreeContext EXCEPT !.user = u] \in Context /\ [FreeContext EXCEPT !.user = u].pc = "free"
  BY <1>1, FreeContextType DEF Context
<1> QED
  BY <1>2, <1>3 DEF FilesTypes

\* A handler that returns with nothing done.
LEMMA LeaveStep ==
    ASSUME FilesInv, NEW c \in Contexts, Return(c), context[c].pc \in {"call", "restoring"},
           UNCHANGED <<files, index, commits, job, ops, missed>>
    PROVE  FilesInv'
<1> USE DEF FilesInv
<1>1. /\ context' \in [Contexts -> Context] /\ context'[c].pc = "free"
      /\ \A d \in Contexts \ {c} : context'[d] = context[d]
  BY ReturnEffect
<1>2. FilesTypes'
  BY <1>1 DEF FilesTypes
<1>3. NumberInv'
  BY <1>1, NumbersStay
<1>4. \A p \in Paths : (Seen(p) => Seen(p)') /\ (Staged(p) => Staged(p)')
  BY <1>1 DEF Seen, Staged, CommitPaths
<1>5. CommitInv'
  BY <1>4, HeadStays DEF CommitInv
<1>6. EntryInv'
  BY <1>1, EntriesStay
<1> QED
  BY <1>2, <1>3, <1>5, <1>6

LEMMA UnansweredStep ==
    ASSUME FilesInv, NEW c \in Contexts, Unanswered(c)
    PROVE  FilesInv'
<1> USE DEF FilesInv
<1>1. /\ context[c].pc \in {"copied", "respond"} /\ missed' = missed \cup CommitPaths(context[c])
      /\ Return(c) /\ UNCHANGED <<files, index, commits, job, ops>>
  BY DEF Unanswered
<1>2. /\ context' \in [Contexts -> Context] /\ context'[c].pc = "free"
      /\ \A d \in Contexts \ {c} : context'[d] = context[d]
  BY <1>1, ReturnEffect
<1>3. CommitPaths(context[c]) \subseteq Paths
  BY DEF FilesTypes, Context, CommitPaths
<1>4. FilesTypes'
  BY <1>1, <1>2, <1>3 DEF FilesTypes
<1>5. NumberInv'
  BY <1>1, <1>2, NumbersStay
<1>6. \A p \in Paths \ CommitPaths(context[c]) : (Seen(p) => Seen(p)') /\ (Staged(p) => Staged(p)')
  <2> HIDE DEF FilesInv
  <2> QED
    BY <1>1, <1>2 DEF Seen, Staged
<1>7. CommitInv'
  BY <1>1, <1>6, HeadStays DEF CommitInv
<1>8. EntryInv'
  BY <1>1, <1>2, EntriesStay
<1> QED
  BY <1>4, <1>5, <1>7, <1>8

LEMMA AuthenticateStep ==
    ASSUME FilesInv, NEW c \in Contexts, NEW u \in Users, Authenticate(c, u)
    PROVE  FilesInv'
<1> USE DEF FilesInv
<1>1. /\ context[c].pc = "reset" /\ context' = [context EXCEPT ![c].pc = "call", ![c].user = u]
      /\ UNCHANGED <<files, index, commits, job, ops, missed>>
  BY DEF Authenticate
<1>2. /\ context' \in [Contexts -> Context] /\ context'[c].pc = "call" /\ context'[c].op = context[c].op
      /\ context'[c].kind = context[c].kind /\ context'[c].entry = context[c].entry
      /\ \A d \in Contexts \ {c} : context'[d] = context[d]
  <2>1. u \in Somebody
    BY DEF Somebody
  <2> QED
    BY <1>1, <2>1, ZenonT(60) DEF FilesTypes, Context, ContextPcs
<1>3. FilesTypes'
  BY <1>1, <1>2 DEF FilesTypes
<1>4. NumberInv'
  BY <1>1, <1>2, NumbersStay
<1>5. \A p \in Paths : (Seen(p) => Seen(p)') /\ (Staged(p) => Staged(p)')
  BY <1>1, <1>2 DEF Seen, Staged, CommitPaths
<1>6. CommitInv'
  BY <1>1, <1>5, HeadStays DEF CommitInv
<1>7. EntryInv'
  BY <1>1, <1>2, EntriesStay
<1> QED
  BY <1>3, <1>4, <1>6, <1>7

\* The agent changes files: none but those that the handler will have committed.
LEMMA ChangeEffect ==
    ASSUME FilesTypes, NumberInv, NEW c \in Contexts,
           \/ WriteFile(c) \/ DeleteFile(c) \/ CreateDirectory(c) \/ RenameFile(c)
           \/ CopyFile(c) \/ DeleteMoved(c)
    PROVE  /\ context[c].pc \in {"call", "copied"}
           /\ HandlerAt(c, "respond") \/ (HandlerAt(c, "copied") /\ context[c].kind = "move")
           /\ files' \in [Paths -> Int]
           /\ \A p \in Paths \ CommitPaths(context[c]) : files'[p] = files[p]
           /\ UNCHANGED <<index, commits, job, ops, missed>>
<1> DEFINE r == context[c]
<1>0. r \in Context
  BY DEF FilesTypes
<1>1. ASSUME NEW S \in SUBSET CommitPaths(r), NEW content \in [S -> Int], FilesChange(c, content)
      PROVE  /\ files' \in [Paths -> Int]
             /\ \A p \in Paths \ CommitPaths(r) : files'[p] = files[p]
             /\ UNCHANGED <<index, commits, job, ops, missed>>
  BY <1>1 DEF FilesChange, FilesTypes
<1>2. CASE WriteFile(c)
  <2>1. r.pc = "call" /\ r.kind = "write" /\ FilesChange(c, [p \in r.to |-> r.op]) /\ HandlerAt(c, "respond")
    BY <1>2 DEF WriteFile
  <2>2. r.to \in SUBSET CommitPaths(r) /\ [p \in r.to |-> r.op] \in [r.to -> Int]
    BY <1>0, <2>1 DEF CommitPaths, Context
  <2> QED
    BY <1>1, <2>1, <2>2
<1>3. CASE DeleteFile(c)
  <2> DEFINE there == {p \in r.from : files[p] # 0}
  <2>1. r.pc = "call" /\ r.kind = "delete" /\ FilesChange(c, [p \in there |-> 0]) /\ HandlerAt(c, "respond")
    BY <1>3 DEF DeleteFile
  <2>2. there \in SUBSET CommitPaths(r) /\ [p \in there |-> 0] \in [there -> Int]
    BY <2>1 DEF CommitPaths
  <2> QED
    BY <1>1, <2>1, <2>2
<1>4. CASE CreateDirectory(c)
  BY <1>4 DEF CreateDirectory, FilesTypes
<1>5. CASE RenameFile(c)
  <2>1. r.pc = "call" /\ r.kind \in {"rename", "move"} /\ HandlerAt(c, "respond")
    BY <1>5 DEF RenameFile
  <2>2. PICK p \in r.from, q \in r.to : FilesChange(c, [x \in {p, q} |-> IF x = q THEN files[p] ELSE 0])
    BY <1>5 DEF RenameFile
  <2>3. files[p] \in Int
    BY <1>0 DEF FilesTypes, Context
  <2>4. {p, q} \in SUBSET CommitPaths(r) /\ [x \in {p, q} |-> IF x = q THEN files[p] ELSE 0] \in [{p, q} -> Int]
    BY <2>1, <2>3 DEF CommitPaths
  <2> QED
    BY <1>1, <2>1, <2>2, <2>4
<1>6. CASE CopyFile(c)
  <2>1. /\ r.pc = "call" /\ r.kind \in {"copy", "move"}
        /\ HandlerAt(c, IF r.kind = "move" THEN "copied" ELSE "respond")
    BY <1>6 DEF CopyFile
  <2>2. PICK p \in r.from, q \in r.to : FilesChange(c, [x \in {q} |-> files[p]])
    BY <1>6 DEF CopyFile
  <2>3. files[p] \in Int
    BY <1>0 DEF FilesTypes, Context
  <2>4. {q} \in SUBSET CommitPaths(r) /\ [x \in {q} |-> files[p]] \in [{q} -> Int]
    BY <2>1, <2>3 DEF CommitPaths
  <2> QED
    BY <1>1, <2>1, <2>2, <2>4
<1>7. CASE DeleteMoved(c)
  <2>1. r.pc = "copied" /\ FilesChange(c, [x \in r.from |-> 0]) /\ HandlerAt(c, "respond")
    BY <1>7 DEF DeleteMoved
  <2>2. r.kind = "move"
    BY <2>1 DEF NumberInv
  <2>3. r.from \in SUBSET CommitPaths(r) /\ [x \in r.from |-> 0] \in [r.from -> Int]
    BY <2>2 DEF CommitPaths
  <2> QED
    BY <1>1, <2>1, <2>3
<1> QED
  BY <1>2, <1>3, <1>4, <1>5, <1>6, <1>7

LEMMA ChangeFilesStep ==
    ASSUME FilesInv, NEW c \in Contexts,
           \/ WriteFile(c) \/ DeleteFile(c) \/ CreateDirectory(c) \/ RenameFile(c)
           \/ CopyFile(c) \/ DeleteMoved(c)
    PROVE  FilesInv'
<1> USE DEF FilesInv
<1>1. /\ context[c].pc \in {"call", "copied"}
      /\ HandlerAt(c, "respond") \/ (HandlerAt(c, "copied") /\ context[c].kind = "move")
      /\ files' \in [Paths -> Int]
      /\ \A p \in Paths \ CommitPaths(context[c]) : files'[p] = files[p]
      /\ UNCHANGED <<index, commits, job, ops, missed>>
  BY ChangeEffect
<1>2. /\ context' \in [Contexts -> Context]
      /\ context'[c].pc \in {"copied", "respond"} /\ context'[c].op = context[c].op
      /\ context'[c].pc = "copied" => context'[c].kind = "move"
      /\ CommitPaths(context'[c]) = CommitPaths(context[c])
      /\ context'[c].kind = context[c].kind /\ context'[c].entry = context[c].entry
      /\ \A d \in Contexts \ {c} : context'[d] = context[d]
  <2>1. CASE HandlerAt(c, "respond")
    BY <2>1, AtEffect DEF ContextPcs, CommitPaths
  <2>2. CASE HandlerAt(c, "copied") /\ context[c].kind = "move"
    BY <2>2, AtEffect DEF ContextPcs, CommitPaths
  <2> QED
    BY <1>1, <2>1, <2>2
<1>3. FilesTypes'
  BY <1>1, <1>2 DEF FilesTypes
<1>4. NumberInv'
  BY <1>1, <1>2, NumbersStay
<1>5. \A p \in Paths : (Seen(p) => Seen(p)') /\ (Staged(p) => Staged(p)')
  BY <1>1, <1>2 DEF Seen, Staged
<1>6. \A p \in CommitPaths(context[c]) : Seen(p)'
  BY <1>2 DEF Seen
<1>7. CommitInv'
  BY <1>1, <1>5, <1>6, HeadStays DEF CommitInv
<1>8. EntryInv'
  BY <1>1, <1>2, EntriesStay
<1> QED
  BY <1>3, <1>4, <1>7, <1>8

\* A goroutine is started under the number of its request.
LEMMA GoStep ==
    ASSUME FilesInv, NEW c \in Contexts, NEW j \in CommitJob,
           context[c].pc \in {"call", "respond"},
           j.pc \in {"user", "add"}, j.context \in Contexts,
           job' = [job EXCEPT ![context[c].op] = j],
           context' \in [Contexts -> Context], context'[c].pc \in {"free", "restoring"},
           context'[c].pc = "restoring" => /\ context'[c].op = context[c].op /\ context'[c].kind = context[c].kind
                                           /\ context'[c].entry = context[c].entry,
           \A d \in Contexts \ {c} : context'[d] = context[d],
           files' \in [Paths -> Int], \A p \in Paths \ j.paths : files'[p] = files[p],
           context[c].pc = "respond" => j.paths = CommitPaths(context[c]),
           UNCHANGED <<index, commits, ops, missed>>
    PROVE  FilesInv'
<1> USE DEF FilesInv
<1> DEFINE n == context[c].op
<1>1. n \in 1 .. ops /\ n \in Ops /\ job[n].pc = "none" /\ ops \in 0 .. MaxOps
  BY FilesAssumption DEF NumberInv, FilesTypes, Ops
<1> HIDE DEF n
<1>2. /\ job' \in [Ops -> CommitJob] /\ job'[n] = j
      /\ \A m \in Ops \ {n} : job'[m] = job[m]
  BY <1>1 DEF FilesTypes, n
<1>3. FilesTypes'
  BY <1>2 DEF FilesTypes
<1>4. NumberInv'
  <2>1. \A m \in Ops : job'[m].pc # "none" => m <= ops' /\ job'[m].context \in Contexts
    BY <1>1, <1>2 DEF NumberInv
  <2>2. ASSUME NEW d \in Contexts, context'[d].pc # "free" PROVE context'[d].op \in 1 .. ops'
    BY <1>1, <2>2 DEF NumberInv, n
  <2>3. ASSUME NEW d \in Contexts, context'[d].pc \in {"reset", "call", "copied", "respond"}
        PROVE  job'[context'[d].op].pc = "none"
    <3>1. d # c /\ context'[d] = context[d] /\ context[d].op \in 1 .. ops /\ job[context[d].op].pc = "none"
      BY <2>3 DEF NumberInv
    <3>2. context[d].op # n /\ context[d].op \in Ops
      BY <1>1, <2>3, <3>1, FilesAssumption DEF NumberInv, Ops, n
    <3> QED
      BY <1>2, <3>1, <3>2
  <2>4. ASSUME NEW d \in Contexts, NEW e \in Contexts, context'[d].pc # "free", context'[e].pc # "free",
               context'[d].op = context'[e].op
        PROVE  d = e
    BY <2>4 DEF NumberInv
  <2>5. ASSUME NEW d \in Contexts, context'[d].pc = "copied" PROVE context'[d].kind = "move"
    BY <2>5 DEF NumberInv
  <2> QED
    BY <2>1, <2>2, <2>3, <2>4, <2>5 DEF NumberInv
<1>5. \A p \in j.paths : Seen(p)'
  BY <1>1, <1>2 DEF Seen
<1>6. \A p \in Paths : (Seen(p) => Seen(p)') /\ (Staged(p) => Staged(p)')
  BY <1>1, <1>2, <1>5 DEF Seen, Staged
<1>7. CommitInv'
  BY <1>5, <1>6, HeadStays DEF CommitInv
<1>8. EntryInv'
  BY EntriesStay
<1> QED
  BY <1>3, <1>4, <1>7, <1>8

LEMMA RespondStep ==
    ASSUME FilesInv, NEW c \in Contexts, Respond(c)
    PROVE  FilesInv'
<1> USE DEF FilesInv
<1> DEFINE u == context[c].user
           paths == CommitPaths(context[c])
           j == [pc |-> "user", context |-> c, paths |-> paths, author |-> NoUser, actor |-> u]
<1>1. /\ context[c].pc = "respond" /\ job' = [job EXCEPT ![context[c].op] = j] /\ Return(c)
      /\ UNCHANGED <<files, index, commits, ops, missed>>
  BY DEF Respond
<1>2. u \in Somebody /\ NoUser \in Somebody /\ c \in Contexts \cup {0} /\ paths \in SUBSET Paths
  BY DEF FilesTypes, Context, CommitPaths, Somebody
<1>a. paths = CommitPaths(context[c])
  OBVIOUS
<1> HIDE DEF u, paths
<1>3. j \in CommitJob /\ j.pc = "user" /\ j.context = c /\ j.paths = paths
  BY <1>2 DEF CommitJob, JobPcs
<1> HIDE DEF j
<1>4. /\ context' \in [Contexts -> Context] /\ context'[c].pc = "free"
      /\ \A d \in Contexts \ {c} : context'[d] = context[d]
  BY <1>1, ReturnEffect
<1>5. files' \in [Paths -> Int] /\ \A p \in Paths \ j.paths : files'[p] = files[p]
  BY <1>1 DEF FilesTypes
<1> QED
  BY <1>1, <1>3, <1>a, <1>4, <1>5, GoStep

LEMMA RestoreStep ==
    ASSUME FilesInv, NEW c \in Contexts, GitRestore(c)
    PROVE  FilesInv'
<1> USE DEF FilesInv
<1> DEFINE r == context[c]
           u == r.user
           to == r.to
           j == [pc |-> "add", context |-> c, paths |-> to, author |-> u, actor |-> u]
<1>1. /\ r.pc = "call" /\ job' = [job EXCEPT ![r.op] = j] /\ HandlerAt(c, "restoring")
      /\ UNCHANGED <<index, commits, ops, missed>>
  BY DEF GitRestore
<1>2. PICK p \in to : files' = [files EXCEPT ![p] = commits[r.entry].tree[p]]
  BY DEF GitRestore
<1>3. u \in Somebody /\ c \in Contexts \cup {0} /\ to \in SUBSET Paths
  BY DEF FilesTypes, Context
<1>4. context' \in [Contexts -> Context] /\ context'[c].pc = "restoring" /\ context'[c].op = context[c].op
      /\ context'[c].kind = context[c].kind /\ context'[c].entry = context[c].entry
      /\ \A d \in Contexts \ {c} : context'[d] = context[d]
  BY <1>1, AtEffect DEF ContextPcs
<1>a. to = context[c].to
  OBVIOUS
<1> HIDE DEF u, to
<1>5. j \in CommitJob /\ j.pc = "add" /\ j.context = c /\ j.paths = to
  BY <1>3 DEF CommitJob, JobPcs
<1> HIDE DEF j
<1>b. commits[r.entry].tree[p] \in Int
  <2>1. r.kind = "restore" /\ r.entry \in DOMAIN commits
    BY <1>1 DEF GitRestore, EntryInv
  <2>2. commits[r.entry] \in Commit
    BY <2>1 DEF FilesTypes
  <2> QED
    BY <1>3, <2>2 DEF Commit
<1>6. files' \in [Paths -> Int] /\ \A q \in Paths \ j.paths : files'[q] = files[q]
  BY <1>2, <1>3, <1>b, <1>5 DEF FilesTypes
<1> QED
  BY <1>1, <1>4, <1>5, <1>6, GoStep

\* The goroutine of number n goes on; its paths stay the ones it had.
LEMMA JobNumbers ==
    ASSUME FilesTypes, NumberInv, UNCHANGED <<context, ops>>, NEW n \in Ops, job[n].pc # "none",
           \A m \in Ops \ {n} : job'[m] = job[m],
           job'[n].pc = "none" \/ job'[n].context = job[n].context
    PROVE  NumberInv'
<1>1. \A m \in Ops : job[m].pc = "none" => job'[m].pc = "none"
  OBVIOUS
<1>2. \A c \in Contexts : context[c].pc # "free" => context[c].op \in 1 .. ops
  BY DEF NumberInv
<1>3. ASSUME NEW d \in Contexts, context'[d].pc \in {"reset", "call", "copied", "respond"}
      PROVE  job'[context'[d].op].pc = "none"
  <2>1. job[context[d].op].pc = "none"
    BY <1>3 DEF NumberInv
  <2>2. context[d].op \in Ops
    BY <1>2, <1>3, FilesAssumption DEF FilesTypes, Ops
  <2> QED
    BY <1>1, <2>1, <2>2
<1> QED
  BY <1>1, <1>2, <1>3 DEF NumberInv

LEMMA UserStep ==
    ASSUME FilesInv, NEW n \in Ops, gitCommitFiles(n)
    PROVE  FilesInv'
<1> USE DEF FilesInv
<1> DEFINE u == getCurrentUser(n)
<1>1. /\ job[n].pc = "user" /\ job' = [job EXCEPT ![n].pc = "add", ![n].author = u]
      /\ UNCHANGED <<files, index, commits, context, ops, missed>>
  BY DEF gitCommitFiles
<1>2. u \in Somebody
  BY <1>1 DEF getCurrentUser, NumberInv, FilesTypes, Context
<1> HIDE DEF u
<1>3. /\ job' \in [Ops -> CommitJob] /\ job'[n].pc = "add" /\ job'[n].context = job[n].context
      /\ job'[n].paths = job[n].paths /\ \A m \in Ops \ {n} : job'[m] = job[m]
  <2> DEFINE next == [job[n] EXCEPT !.pc = "add", !.author = u]
  <2>1. job \in [Ops -> CommitJob] /\ job[n] \in CommitJob
    BY DEF FilesTypes
  <2>2. next \in CommitJob /\ next.pc = "add" /\ next.context = job[n].context /\ next.paths = job[n].paths
    BY <1>2, <2>1 DEF CommitJob, JobPcs
  <2>3. job' = [job EXCEPT ![n] = next]
    BY <1>1, <2>1
  <2> HIDE DEF next
  <2> QED
    BY <2>1, <2>2, <2>3
<1>4. FilesTypes'
  BY <1>1, <1>3 DEF FilesTypes
<1>5. NumberInv' /\ EntryInv'
  BY <1>1, <1>3, JobNumbers DEF EntryInv
<1>6. \A p \in Paths : (Seen(p) => Seen(p)') /\ (Staged(p) => Staged(p)')
  BY <1>1, <1>3 DEF Seen, Staged
<1>7. CommitInv'
  BY <1>1, <1>6, HeadStays DEF CommitInv
<1> QED
  BY <1>4, <1>5, <1>7

LEMMA AddStep ==
    ASSUME FilesInv, NEW n \in Ops, GitAdd(n)
    PROVE  FilesInv'
<1> USE DEF FilesInv
<1>1. /\ job[n].pc = "add" /\ job' = [job EXCEPT ![n].pc = "commit"]
      /\ index' = [p \in Paths |-> IF p \in job[n].paths THEN files[p] ELSE index[p]]
      /\ UNCHANGED <<files, commits, context, ops, missed>>
  BY DEF GitAdd
<1>2. /\ job' \in [Ops -> CommitJob] /\ job'[n].pc = "commit" /\ job'[n].context = job[n].context
      /\ job'[n].paths = job[n].paths /\ \A m \in Ops \ {n} : job'[m] = job[m]
  BY <1>1 DEF FilesTypes, CommitJob, JobPcs
<1>3. index' \in [Paths -> Int]
  BY <1>1 DEF FilesTypes
<1>4. FilesTypes'
  BY <1>1, <1>2, <1>3 DEF FilesTypes
<1>5. NumberInv' /\ EntryInv'
  BY <1>1, <1>2, JobNumbers DEF EntryInv
<1>6. \A p \in Paths \ job[n].paths : (Seen(p) => Seen(p)') /\ (Staged(p) => Staged(p)') /\ index'[p] = index[p]
  BY <1>1, <1>2 DEF Seen, Staged
<1>7. \A p \in Paths \cap job[n].paths : files'[p] = index'[p] /\ Staged(p)'
  BY <1>1, <1>2 DEF Staged
<1>8. CommitInv'
  BY <1>1, <1>6, <1>7, HeadStays DEF CommitInv
<1> QED
  BY <1>4, <1>5, <1>8

LEMMA CommitStep ==
    ASSUME FilesInv, NEW n \in Ops, GitCommit(n)
    PROVE  FilesInv'
<1> USE DEF FilesInv
<1> DEFINE new == [tree |-> index, author |-> job[n].author, actor |-> job[n].actor]
<1>1. /\ job[n].pc = "commit" /\ job' = [job EXCEPT ![n] = NoJob]
      /\ commits' = IF index = head THEN commits ELSE Append(commits, new)
      /\ missed' = {p \in missed : index[p] # files[p]}
      /\ UNCHANGED <<files, index, context, ops>>
  BY DEF GitCommit
<1>2. /\ job' \in [Ops -> CommitJob] /\ job'[n].pc = "none"
      /\ \A m \in Ops \ {n} : job'[m] = job[m]
  BY <1>1, NoJobType DEF FilesTypes
<1>3. new \in Commit /\ new.tree = index
  BY DEF FilesTypes, CommitJob, Commit
<1> HIDE DEF new
<1>4. commits' \in Seq(Commit) /\ DOMAIN commits \subseteq DOMAIN commits' /\ head' = index
  <2>1. CASE index = head
    BY <1>1, <2>1, HeadStays DEF FilesTypes
  <2>2. CASE index # head
    <3>1. commits' = Append(commits, new)
      BY <1>1, <2>2
    <3>2. commits' \in Seq(Commit) /\ Len(commits') = Len(commits) + 1 /\ commits'[Len(commits')] = new
          /\ DOMAIN commits \subseteq DOMAIN commits' /\ commits' # <<>>
      BY <1>3, <3>1 DEF FilesTypes
    <3> QED
      BY <1>3, <3>2 DEF head
  <2> QED
    BY <2>1, <2>2
<1>5. FilesTypes'
  BY <1>1, <1>2, <1>4 DEF FilesTypes
<1>6. NumberInv'
  BY <1>1, <1>2, JobNumbers
<1>7. EntryInv'
  BY <1>1, <1>4 DEF EntryInv
<1>8. \A p \in Paths : Seen(p) => Seen(p)'
  BY <1>1, <1>2 DEF Seen
<1>9. CommitInv'
  BY <1>1, <1>4, <1>8 DEF CommitInv
<1> QED
  BY <1>5, <1>6, <1>7, <1>9

LEMMA FailStep ==
    ASSUME FilesInv, NEW n \in Ops, GitFails(n)
    PROVE  FilesInv'
<1> USE DEF FilesInv
<1>1. /\ job[n].pc # "none" /\ job' = [job EXCEPT ![n] = NoJob]
      /\ missed' = missed \cup job[n].paths
      /\ UNCHANGED <<files, index, commits, context, ops>>
  BY DEF GitFails
<1>2. /\ job' \in [Ops -> CommitJob] /\ job'[n].pc = "none"
      /\ \A m \in Ops \ {n} : job'[m] = job[m]
  BY <1>1, NoJobType DEF FilesTypes
<1>3. FilesTypes'
  BY <1>1, <1>2 DEF FilesTypes, CommitJob
<1>4. NumberInv' /\ EntryInv'
  BY <1>1, <1>2, JobNumbers DEF EntryInv
<1>5. \A p \in Paths \ job[n].paths : (Seen(p) => Seen(p)') /\ (Staged(p) => Staged(p)')
  BY <1>1, <1>2 DEF Seen, Staged
<1>6. CommitInv'
  BY <1>1, <1>5, HeadStays DEF CommitInv
<1> QED
  BY <1>3, <1>4, <1>6

LEMMA ServerStep ==
    ASSUME FilesInv, NEW p \in Paths, ServerWrites(p)
    PROVE  FilesInv'
<1> USE DEF FilesInv
<1>1. /\ ops < MaxOps /\ ops' = ops + 1 /\ files' = [files EXCEPT ![p] = ops + 1]
      /\ missed' = missed \cup {p} /\ UNCHANGED <<index, commits, context, job>>
  BY DEF ServerWrites
<1>2. ops \in Nat /\ ops' \in 0 .. MaxOps /\ ops <= ops'
  BY <1>1, FilesAssumption DEF FilesTypes
<1>3. FilesTypes'
  BY <1>1, <1>2 DEF FilesTypes
<1>4. NumberInv'
  BY <1>1, <1>2 DEF NumberInv, Ops
<1>5. EntryInv'
  BY <1>1 DEF EntryInv
<1>6. \A q \in Paths : (Seen(q) => Seen(q)') /\ (Staged(q) => Staged(q)')
  BY <1>1 DEF Seen, Staged
<1>7. CommitInv'
  BY <1>1, <1>6, HeadStays DEF CommitInv, FilesTypes
<1> QED
  BY <1>3, <1>4, <1>5, <1>7

LEMMA RequestStep ==
    ASSUME FilesInv, NEW c \in Contexts, Request(c)
    PROVE  FilesInv'
<1>1. \A p \in Paths : {p} \in SUBSET Paths
  OBVIOUS
<1>2. CASE apiCreateDir(c)
  BY <1>2, ResetStep DEF apiCreateDir, Kinds
<1>3. ASSUME NEW p \in Paths, apiWriteFile(c, p) \/ apiUploadFile(c, p) PROVE FilesInv'
  BY <1>1, <1>3, ResetStep DEF apiWriteFile, apiUploadFile, Kinds
<1>4. ASSUME NEW p \in Paths, apiDeleteFile(c, p) PROVE FilesInv'
  BY <1>1, <1>4, ResetStep DEF apiDeleteFile, Kinds
<1>5. ASSUME NEW S \in SUBSET Paths, apiBatchDeleteFiles(c, S) PROVE FilesInv'
  BY <1>5, ResetStep DEF apiBatchDeleteFiles, Kinds
<1>6. ASSUME NEW p \in Paths, NEW q \in Paths, NEW kind \in {"rename", "move", "copy"}, Reset(c, kind, {p}, {q}, 0)
      PROVE  FilesInv'
  <2>1. kind \in Kinds /\ kind # "restore"
    BY DEF Kinds
  <2> QED
    BY <1>1, <1>6, <2>1, ResetStep
<1>7. ASSUME NEW p \in Paths, NEW k \in apiFileHistory(p), apiFileRestore(c, p, k) PROVE FilesInv'
  <2>1. k \in DOMAIN commits /\ k \in Int
    BY DEF apiFileHistory, GitLog, FilesInv, FilesTypes
  <2> QED
    BY <1>1, <1>7, <2>1, ResetStep DEF apiFileRestore, Kinds
<1> QED
  BY <1>2, <1>3, <1>4, <1>5, <1>6, <1>7 DEF Request, apiRenameFile, apiMoveFile, apiCopyFile

LEMMA FilesKeep == FilesInv /\ [FilesNext]_filesVars => FilesInv'
<1> SUFFICES ASSUME FilesInv, [FilesNext]_filesVars PROVE FilesInv'
  OBVIOUS
<1>1. ASSUME NEW c \in Contexts, NotConnected(c) \/ Refused(c) \/ Restored(c) PROVE FilesInv'
  BY <1>1, LeaveStep DEF NotConnected, Refused, Restored
<1>2. ASSUME NEW c \in Contexts, Agent(c) PROVE FilesInv'
  BY <1>2, ChangeFilesStep, RestoreStep DEF Agent
<1>3. ASSUME NEW c \in Contexts, Unanswered(c) \/ Respond(c) PROVE FilesInv'
  BY <1>3, UnansweredStep, RespondStep
<1>4. ASSUME NEW n \in Ops, gitCommitFiles(n) \/ GitAdd(n) \/ GitCommit(n) \/ GitFails(n) PROVE FilesInv'
  BY <1>4, UserStep, AddStep, CommitStep, FailStep
<1>5. CASE UNCHANGED filesVars
  <2>1. UNCHANGED <<files, index, commits, context, job, ops, missed>>
    BY <1>5 DEF filesVars
  <2>2. \A p \in Paths : Seen(p)' = Seen(p) /\ Staged(p)' = Staged(p)
    BY <2>1 DEF Seen, Staged
  <2> QED
    BY <2>1, <2>2, HeadStays DEF FilesInv, FilesTypes, NumberInv, EntryInv, CommitInv
<1> QED
  BY <1>1, <1>2, <1>3, <1>4, <1>5, RequestStep, AuthenticateStep, ServerStep DEF FilesNext

\* For any files, users and number of requests at a time, and whichever of their
\* calls and commits fail: when all is done the last commit has every file as it
\* is, except the paths whose commit was missed (gitCommitFiles, GitCommit).
THEOREM WorkStaysCommitted == FilesSpec => []WorkIsCommitted
<1>1. ASSUME FilesInv, AtRest, NEW p \in Paths \ missed PROVE head[p] = files[p]
  BY <1>1 DEF FilesInv, CommitInv, Seen, Staged, AtRest
<1>2. FilesInv => WorkIsCommitted
  BY <1>1 DEF WorkIsCommitted
<1> QED
  BY <1>2, FilesStart, FilesKeep, PTL DEF FilesSpec

-----------------------------------------------------------------------------
(* Settings and the audit log.                                             *)

Vals == Values \cup {0}
AuditEntry == [field : Audited, old : Vals, new : Vals, back : BOOLEAN]
WebPcs == {"idle", "update", "audit", "rewrite", "mark", "note", "control", "answer", "refused"}
Edit == [pc : WebPcs, snap : [Fields -> Vals], change : SUBSET Fields, value : Vals, entry : Nat, number : Nat]

\* A rollback writes the old value of its entry; an edit has none.
Founded(r) ==
    /\ r.pc \in {"rewrite", "mark", "note"} =>
          r.entry \in DOMAIN audit /\ r.change = {audit[r.entry].field} /\ r.value = audit[r.entry].old
    /\ r.pc \in {"update", "audit"} => r.entry = 0

SettingsTypes ==
    /\ exists \in BOOLEAN
    /\ row \in [Fields -> Vals]
    /\ audit \in Seq(AuditEntry)
    /\ rolled \in Seq(Nat) /\ Len(rolled) = Len(audit)
    /\ web \in [Requests -> Edit]
    /\ requests \in Nat
    /\ \A h \in Requests : Founded(web[h])

\* A command that was answered has been carried out.
ControlInv ==
    /\ noted \subseteq done
    /\ \A h \in Requests : web[h].pc = "answer" => web[h].number \in done

\* One request at most has an entry of the setting still to write, of the value the
\* row has; if none has, the log tells that value.
FieldInv(f) ==
    /\ \A g, h \in Requests : f \in Pending(web[g]) /\ f \in Pending(web[h]) => g = h
    /\ \A h \in Requests : f \in Pending(web[h]) => row[f] = web[h].value
    /\ (\A h \in Requests : f \notin Pending(web[h])) => Tells(f, row[f])

TruthInv == exists => \A f \in Audited \ doubt : FieldInv(f)

\* One request at most is about to roll back or to mark the entry; an entry that is
\* not marked has not been rolled back, unless it is about to be marked.
RollsBack(r, e) == r.pc \in {"rewrite", "mark"} /\ r.entry = e
OnceInv(e) ==
    /\ rolled[e] <= 1
    /\ audit[e].back \/ rolled[e] = 0 \/ \E h \in Requests : web[h].pc = "mark" /\ web[h].entry = e
    /\ \A h \in Requests : web[h].pc = "rewrite" /\ web[h].entry = e => rolled[e] = 0
    /\ \A g, h \in Requests : RollsBack(web[g], e) /\ RollsBack(web[h], e) => g = h

RollInv == \A e \in DOMAIN audit \ slipped : OnceInv(e)

SettingsInv == SettingsTypes /\ ControlInv /\ TruthInv /\ RollInv

LEMMA NoEditType == NoEdit \in Edit /\ NoEdit.pc = "idle"
<1>1. 0 \in Vals /\ 0 \in Nat /\ {} \in SUBSET Fields /\ [f \in Fields |-> 0] \in [Fields -> Vals]
  BY DEF Vals
<1> QED
  BY <1>1 DEF NoEdit, Edit, WebPcs

LEMMA SettingsStart == SettingsInit => SettingsInv
<1> SUFFICES ASSUME SettingsInit PROVE SettingsInv
  OBVIOUS
<1>1. /\ exists \in BOOLEAN /\ row \in [Fields -> Vals]
      /\ web \in [Requests -> Edit] /\ \A h \in Requests : web[h].pc = "idle"
  BY NoEditType DEF SettingsInit, Vals
<1>2. /\ audit = <<>> /\ rolled = <<>> /\ requests = 0 /\ noted = {} /\ \A f \in Fields : row[f] = 0
  BY DEF SettingsInit
<1>3. SettingsTypes
  BY <1>1, <1>2 DEF SettingsTypes, Founded
<1>4. \A f \in Audited : Tells(f, row[f])
  BY <1>2 DEF Tells, Fields
<1>5. TruthInv
  BY <1>1, <1>4 DEF TruthInv, FieldInv, Pending
<1> QED
  BY <1>1, <1>2, <1>3, <1>5 DEF SettingsInv, ControlInv, RollInv

\* A request goes on, or a new one begins, without having or losing an entry to
\* write, and the rest of the log's truth is as it was.
LEMMA TruthKept ==
    ASSUME TruthInv, UNCHANGED <<exists, row, audit, doubt>>,
           \A g \in Requests : /\ Pending(web[g])' = Pending(web[g])
                               /\ Pending(web[g]) # {} => web'[g].value = web[g].value
    PROVE  TruthInv'
<1> SUFFICES ASSUME exists, NEW f \in Audited \ doubt PROVE FieldInv(f)'
  BY DEF TruthInv
<1>1. FieldInv(f)
  BY DEF TruthInv
<1>2. \A v : Tells(f, v) => Tells(f, v)'
  BY DEF Tells
<1> QED
  BY <1>1, <1>2 DEF FieldInv

\* A request that is not at an entry begins or ends.
LEMMA TypesKept ==
    ASSUME SettingsTypes, UNCHANGED <<exists, row, audit, rolled>>, requests' \in Nat,
           NEW h \in Requests, NEW r \in Edit, Founded(r), web' = [web EXCEPT ![h] = r]
    PROVE  /\ SettingsTypes' /\ web'[h] = r
           /\ \A g \in Requests \ {h} : web'[g] = web[g]
<1>1. /\ web' \in [Requests -> Edit] /\ web'[h] = r
      /\ \A g \in Requests \ {h} : web'[g] = web[g]
  BY DEF SettingsTypes
<1>2. \A g \in Requests : Founded(web[g])'
  BY <1>1 DEF SettingsTypes, Founded
<1> QED
  BY <1>1, <1>2 DEF SettingsTypes

LEMMA BeginStep ==
    ASSUME SettingsInv, NEW h \in Requests, NEW r \in Edit, Begin(h, r),
           UNCHANGED <<exists, row, log, controls, doubt>>,
           r.pc \in {"update", "rewrite", "control"}, Founded(r),
           \/ r.pc = "rewrite" /\ ~audit[r.entry].back
              /\ slipped' = slipped \cup {r.entry : g \in {x \in Requests : web[x].pc \in {"rewrite", "mark"} /\ web[x].entry = r.entry}}
           \/ r.pc # "rewrite" /\ UNCHANGED slipped
    PROVE  SettingsInv'
<1> USE DEF SettingsInv
<1>1. /\ web[h].pc = "idle" /\ requests' = requests + 1 /\ web' = [web EXCEPT ![h] = r]
      /\ UNCHANGED <<exists, row, audit, rolled, done, noted, doubt>>
  BY DEF Begin, controls, log
<1>2. requests' \in Nat
  BY <1>1 DEF SettingsTypes
<1>3. /\ SettingsTypes' /\ web'[h] = r
      /\ \A g \in Requests \ {h} : web'[g] = web[g]
  BY <1>1, <1>2, TypesKept
<1>4. ControlInv'
  BY <1>1, <1>3 DEF ControlInv
<1>5. TruthInv'
  <2>1. Pending(web[h]) = {} /\ Pending(r) = {}
    BY <1>1 DEF Pending
  <2> QED
    BY <1>1, <1>3, <2>1, TruthKept
<1>6. RollInv'
  <2> SUFFICES ASSUME NEW e \in DOMAIN audit \ slipped' PROVE OnceInv(e)'
    BY <1>1 DEF RollInv
  <2>1. e \notin slipped /\ OnceInv(e)
    BY DEF RollInv
  <2>2. \A g \in Requests : web[g].pc = "mark" => web'[g] = web[g]
    BY <1>1, <1>3
  <2>3. CASE r.pc = "rewrite" /\ r.entry = e
    <3>1. \A g \in Requests : ~RollsBack(web[g], e)
      BY <2>3 DEF RollsBack
    <3>2. rolled[e] = 0
      BY <2>1, <2>3, <3>1 DEF OnceInv, RollsBack
    <3> QED
      BY <1>1, <1>3, <2>1, <3>1, <3>2 DEF OnceInv, RollsBack
  <2>4. CASE ~(r.pc = "rewrite" /\ r.entry = e)
    BY <1>1, <1>3, <2>1, <2>2, <2>4 DEF OnceInv, RollsBack
  <2> QED
    BY <2>3, <2>4
<1> QED
  BY <1>3, <1>4, <1>5, <1>6

\* A request ends before it has written anything, or after its last entry.
LEMMA FinishStep ==
    ASSUME SettingsInv, NEW h \in Requests, Finish(h), Pending(web[h]) = {},
           UNCHANGED <<exists, row, log, requests, doubt, slipped>>,
           done \subseteq done', noted' \subseteq done'
    PROVE  SettingsInv'
<1> USE DEF SettingsInv
<1>1. web' = [web EXCEPT ![h] = NoEdit] /\ UNCHANGED <<audit, rolled>>
  BY DEF Finish, log
<1>2. NoEdit \in Edit /\ NoEdit.pc = "idle" /\ Founded(NoEdit)
  BY NoEditType DEF Founded
<1>3. requests' \in Nat
  BY DEF SettingsTypes
<1>4. /\ SettingsTypes' /\ web'[h] = NoEdit
      /\ \A g \in Requests \ {h} : web'[g] = web[g]
  BY <1>1, <1>2, <1>3, TypesKept
<1>5. ControlInv'
  BY <1>2, <1>4 DEF ControlInv
<1>6. TruthInv'
  <2>1. Pending(NoEdit) = {}
    BY <1>2 DEF Pending
  <2> QED
    BY <1>1, <1>4, <2>1, TruthKept
<1>7. RollInv'
  <2> SUFFICES ASSUME NEW e \in DOMAIN audit \ slipped PROVE OnceInv(e)'
    BY <1>1 DEF RollInv
  <2>1. OnceInv(e)
    BY DEF RollInv
  <2>2. web[h].pc # "mark"
    <3>1. web[h].pc = "mark" => Pending(web[h]) = web[h].change /\ web[h].change # {}
      <4>1. web[h].pc = "mark" => /\ web[h].entry \in DOMAIN audit /\ web[h].change = {audit[web[h].entry].field}
        BY DEF SettingsTypes, Founded
      <4>2. web[h].pc = "mark" => web[h].entry # 0
        BY <4>1 DEF SettingsTypes
      <4> QED
        BY <4>1, <4>2 DEF Pending, Logged
    <3> QED
      BY <3>1
  <2> QED
    BY <1>1, <1>2, <1>4, <2>1, <2>2 DEF OnceInv, RollsBack
<1> QED
  BY <1>4, <1>5, <1>6, <1>7

LEMMA DeleteStep == SettingsInv /\ DeleteInstance => SettingsInv'
<1> SUFFICES ASSUME SettingsInv, DeleteInstance PROVE SettingsInv'
  OBVIOUS
<1>1. /\ exists' = FALSE /\ requests' = requests + 1
      /\ UNCHANGED <<row, audit, rolled, web, done, noted, doubt, slipped>>
  BY DEF DeleteInstance, log, controls, slips
<1>2. SettingsTypes'
  <2>1. requests' \in Nat
    BY <1>1 DEF SettingsInv, SettingsTypes
  <2>2. \A h \in Requests : Founded(web[h])'
    BY <1>1 DEF SettingsInv, SettingsTypes, Founded
  <2> QED
    BY <1>1, <2>1, <2>2 DEF SettingsInv, SettingsTypes
<1>3. TruthInv' /\ ControlInv'
  BY <1>1 DEF SettingsInv, TruthInv, ControlInv
<1>4. RollInv'
  BY <1>1 DEF SettingsInv, RollInv, OnceInv, RollsBack
<1> QED
  BY <1>2, <1>3, <1>4 DEF SettingsInv

\* A crash ends all requests; what they had still to write is in doubt.
LEMMA SettingsCrashStep == SettingsInv /\ Crash => SettingsInv'
<1> SUFFICES ASSUME SettingsInv, Crash PROVE SettingsInv'
  OBVIOUS
<1>1. /\ web' = [h \in Requests |-> NoEdit]
      /\ doubt' = doubt \cup UNION {Pending(web[h]) : h \in Requests}
      /\ slipped' = slipped \cup {web[h].entry : h \in {g \in Requests : web[g].pc = "mark"}}
      /\ UNCHANGED <<exists, row, audit, rolled, requests, done, noted>>
  BY DEF Crash, log, controls
<1>2. web' \in [Requests -> Edit] /\ \A h \in Requests : web'[h] = NoEdit /\ web'[h].pc = "idle"
  BY <1>1, NoEditType
<1>3. SettingsTypes'
  <2>1. \A h \in Requests : Founded(web[h])'
    BY <1>2 DEF Founded
  <2> QED
    BY <1>1, <1>2, <2>1 DEF SettingsInv, SettingsTypes
<1>4. ControlInv'
  BY <1>1, <1>2 DEF SettingsInv, ControlInv
<1>5. TruthInv'
  <2> SUFFICES ASSUME exists, NEW f \in Audited \ doubt' PROVE FieldInv(f)'
    BY <1>1 DEF TruthInv
  <2>1. f \notin doubt /\ \A h \in Requests : f \notin Pending(web[h])
    BY <1>1
  <2>2. Tells(f, row[f])
    BY <2>1 DEF SettingsInv, TruthInv, FieldInv
  <2>3. Tells(f, row[f])'
    BY <1>1, <2>2 DEF Tells
  <2>4. \A h \in Requests : Pending(web[h])' = {}
    BY <1>2 DEF Pending
  <2> QED
    BY <2>3, <2>4 DEF FieldInv
<1>6. RollInv'
  <2> SUFFICES ASSUME NEW e \in DOMAIN audit \ slipped' PROVE OnceInv(e)'
    BY <1>1 DEF RollInv
  <2>1. e \notin slipped /\ OnceInv(e) /\ \A h \in Requests : ~(web[h].pc = "mark" /\ web[h].entry = e)
    BY <1>1 DEF SettingsInv, RollInv
  <2> QED
    BY <1>1, <1>2, <2>1 DEF OnceInv, RollsBack
<1> QED
  BY <1>3, <1>4, <1>5, <1>6 DEF SettingsInv

\* The row is written, and the settings that get an entry wait for it.
LEMMA WrittenTruth ==
    ASSUME SettingsInv, NEW h \in Requests, web[h].pc \in {"update", "rewrite"}, UpdateInstance(h),
           NEW p \in {"audit", "mark"}, EditAt(h, p), UNCHANGED <<exists, audit>>
    PROVE  TruthInv'
<1> USE DEF SettingsInv
<1> DEFINE r == web[h]
<1>1. r \in Edit /\ web' = [web EXCEPT ![h].pc = p]
  BY DEF SettingsTypes, EditAt
<1>2. /\ web'[h] = [r EXCEPT !.pc = p]
      /\ \A g \in Requests \ {h} : web'[g] = web[g]
  BY <1>1 DEF SettingsTypes
<1>3. /\ web'[h].pc = p /\ web'[h].snap = r.snap /\ web'[h].change = r.change
      /\ web'[h].value = r.value /\ web'[h].entry = r.entry
  BY <1>1, <1>2 DEF Edit
<1>4. Pending(web[h])' = Logged(r) /\ Pending(r) = {}
  BY <1>3 DEF Pending, Logged
<1>5. \A g \in Requests \ {h} : Pending(web[g])' = Pending(web[g])
  BY <1>2 DEF Pending, Logged
<1> SUFFICES ASSUME exists, NEW f \in Audited \ doubt' PROVE FieldInv(f)'
  BY DEF TruthInv
<1>6. f \in Fields /\ row' = Edited(r)
  BY DEF Fields, UpdateInstance
<1>7. CASE f \in Logged(r)
  <2>1. \A g \in Requests \ {h} : f \notin Pending(web[g])
    BY <1>7 DEF UpdateInstance
  <2>2. f \in r.change
    BY <1>7 DEF Logged
  <2>3. row'[f] = r.value
    BY <1>6, <2>2 DEF Edited
  <2> QED
    BY <1>3, <1>4, <1>5, <1>7, <2>1, <2>3 DEF FieldInv
<1>8. CASE f \notin Logged(r)
  <2>1. f \notin doubt /\ row'[f] = row[f]
    BY <1>8 DEF UpdateInstance
  <2>2. FieldInv(f)
    BY <2>1 DEF TruthInv
  <2>3. Tells(f, row[f]) => Tells(f, row[f])'
    BY <2>1 DEF Tells
  <2>4. \A g \in Requests : /\ f \in Pending(web[g])' <=> f \in Pending(web[g])
                            /\ f \in Pending(web[g]) => web'[g].value = web[g].value
    BY <1>2, <1>4, <1>5, <1>8
  <2> QED
    BY <2>1, <2>2, <2>3, <2>4 DEF FieldInv
<1> QED
  BY <1>7, <1>8

\* ... and it has values of its fields.
LEMMA WrittenType ==
    ASSUME SettingsTypes, NEW h \in Requests, UpdateInstance(h)
    PROVE  row' \in [Fields -> Vals]
<1>1. web[h] \in Edit /\ row \in [Fields -> Vals]
  BY DEF SettingsTypes
<1>2. web[h].value \in Vals /\ web[h].snap \in [Fields -> Vals]
  BY <1>1 DEF Edit
<1>3. Edited(web[h]) \in [Fields -> Vals]
  BY <1>2 DEF Edited
<1> QED
  BY <1>1, <1>3 DEF UpdateInstance

LEMMA EditUpdateStep ==
    ASSUME SettingsInv, NEW h \in Requests, EditUpdate(h) PROVE SettingsInv'
<1> USE DEF SettingsInv
<1>1. /\ web[h].pc = "update" /\ UpdateInstance(h) /\ EditAt(h, "audit") /\ web[h] \in Edit
      /\ UNCHANGED <<exists, audit, rolled, requests, done, noted, slipped>>
  BY DEF EditUpdate, log, controls, SettingsTypes
<1>2. /\ web' \in [Requests -> Edit] /\ web'[h].pc = "audit"
      /\ web'[h].entry = web[h].entry
      /\ \A g \in Requests \ {h} : web'[g] = web[g]
  BY <1>1 DEF SettingsTypes, EditAt, Edit, WebPcs
<1>3. SettingsTypes'
  <2>1. \A g \in Requests : Founded(web[g])'
    BY <1>1, <1>2 DEF SettingsTypes, Founded
  <2> QED
    BY <1>1, <1>2, <2>1, WrittenType DEF SettingsTypes
<1>4. ControlInv'
  BY <1>1, <1>2 DEF ControlInv
<1>5. TruthInv'
  BY <1>1, WrittenTruth
<1>6. RollInv'
  <2> SUFFICES ASSUME NEW e \in DOMAIN audit \ slipped PROVE OnceInv(e)'
    BY <1>1 DEF RollInv
  <2>1. OnceInv(e)
    BY DEF RollInv
  <2> QED
    BY <1>1, <1>2, <2>1 DEF OnceInv, RollsBack
<1> QED
  BY <1>3, <1>4, <1>5, <1>6

LEMMA RewriteStep ==
    ASSUME SettingsInv, NEW h \in Requests, RollbackUpdate(h) PROVE SettingsInv'
<1> USE DEF SettingsInv
<1> DEFINE d == web[h].entry
<1>1. /\ web[h].pc = "rewrite" /\ UpdateInstance(h) /\ EditAt(h, "mark") /\ web[h] \in Edit
      /\ rolled' = [rolled EXCEPT ![d] = @ + 1]
      /\ UNCHANGED <<exists, audit, requests, done, noted, slipped>>
  BY DEF RollbackUpdate, controls, SettingsTypes
<1>2. /\ web' \in [Requests -> Edit] /\ web'[h].pc = "mark"
      /\ web'[h].entry = d /\ web'[h].change = web[h].change /\ web'[h].value = web[h].value
      /\ \A g \in Requests \ {h} : web'[g] = web[g]
  BY <1>1 DEF SettingsTypes, EditAt, Edit, WebPcs
<1>3. d \in DOMAIN audit /\ DOMAIN rolled = DOMAIN audit
  BY <1>1 DEF SettingsTypes, Founded
<1>4. /\ rolled' \in Seq(Nat) /\ Len(rolled') = Len(rolled) /\ rolled'[d] = rolled[d] + 1
      /\ \A e \in DOMAIN audit \ {d} : rolled'[e] = rolled[e]
  BY <1>1, <1>3 DEF SettingsTypes
<1>5. SettingsTypes'
  <2>1. \A g \in Requests : Founded(web[g])'
    BY <1>1, <1>2 DEF SettingsTypes, Founded
  <2> QED
    BY <1>1, <1>2, <1>4, <2>1, WrittenType DEF SettingsTypes
<1>6. ControlInv'
  BY <1>1, <1>2 DEF ControlInv
<1>7. TruthInv'
  BY <1>1, WrittenTruth
<1>8. RollInv'
  <2> SUFFICES ASSUME NEW e \in DOMAIN audit \ slipped PROVE OnceInv(e)'
    BY <1>1 DEF RollInv
  <2>1. OnceInv(e)
    BY DEF RollInv
  <2>2. CASE e = d
    <3>1. rolled[e] = 0 /\ \A g \in Requests \ {h} : ~RollsBack(web[g], e)
      BY <1>1, <2>1, <2>2 DEF OnceInv, RollsBack
    <3>2. rolled'[e] = 1
      BY <1>4, <2>2, <3>1
    <3> QED
      BY <1>1, <1>2, <2>2, <3>1, <3>2 DEF OnceInv, RollsBack
  <2>3. CASE e # d
    <3>1. rolled'[e] = rolled[e] /\ web[h].entry # e /\ web'[h].entry # e
      BY <1>2, <1>4, <2>3
    <3>2. \A g \in Requests : /\ web[g].pc = "mark" /\ web[g].entry = e => web'[g] = web[g]
                              /\ web'[g].entry = e => web'[g] = web[g]
      BY <1>2, <3>1
    <3>3. \A g \in Requests : RollsBack(web[g], e)' => RollsBack(web[g], e)
      BY <3>2 DEF RollsBack
    <3> HIDE DEF d
    <3> QED
      BY <1>1, <2>1, <3>1, <3>2, <3>3 DEF OnceInv
  <2> QED
    BY <2>2, <2>3
<1> QED
  BY <1>5, <1>6, <1>7, <1>8

LEMMA MarkStep ==
    ASSUME SettingsInv, NEW h \in Requests, RollbackMark(h) PROVE SettingsInv'
<1> USE DEF SettingsInv
<1> DEFINE d == web[h].entry
           a == MarkAuditLogRolledBack(audit[d])
<1>1. /\ web[h].pc = "mark" /\ EditAt(h, "note") /\ web[h] \in Edit
      /\ UNCHANGED <<exists, row, requests, done, noted, rolled, doubt>>
      /\ \/ audit' = [audit EXCEPT ![d] = a] /\ slipped' = slipped
         \/ slipped' = slipped \cup {d} /\ audit' = audit
  BY DEF RollbackMark, controls, SettingsTypes
<1>2. /\ web' \in [Requests -> Edit] /\ web'[h].pc = "note"
      /\ web'[h].entry = d /\ web'[h].change = web[h].change /\ web'[h].value = web[h].value
      /\ \A g \in Requests \ {h} : web'[g] = web[g]
  BY <1>1 DEF SettingsTypes, EditAt, Edit, WebPcs
<1>3. d \in DOMAIN audit /\ audit[d] \in AuditEntry /\ d # 0
  BY <1>1 DEF SettingsTypes, Founded
<1>4. a \in AuditEntry /\ a.back /\ a.field = audit[d].field /\ a.old = audit[d].old /\ a.new = audit[d].new
  BY <1>3 DEF MarkAuditLogRolledBack, AuditEntry
<1> HIDE DEF a
<1>5. /\ audit' \in Seq(AuditEntry) /\ Len(audit') = Len(audit) /\ DOMAIN audit' = DOMAIN audit
      /\ \A e \in DOMAIN audit : /\ audit'[e].field = audit[e].field
                                 /\ audit'[e].old = audit[e].old /\ audit'[e].new = audit[e].new
                                 /\ audit[e].back => audit'[e].back
      /\ audit'[d].back \/ d \in slipped'
      /\ slipped \subseteq slipped'
  <2>1. audit \in Seq(AuditEntry)
    BY DEF SettingsTypes
  <2>2. CASE audit' = [audit EXCEPT ![d] = a] /\ slipped' = slipped
    <3>1. /\ audit' \in Seq(AuditEntry) /\ Len(audit') = Len(audit) /\ DOMAIN audit' = DOMAIN audit
          /\ audit'[d] = a /\ \A e \in DOMAIN audit \ {d} : audit'[e] = audit[e]
      BY <1>3, <1>4, <2>1, <2>2
    <3> QED
      BY <1>3, <1>4, <2>2, <3>1
  <2>3. CASE slipped' = slipped \cup {d} /\ audit' = audit
    BY <2>1, <2>3
  <2> QED
    BY <1>1, <2>2, <2>3
<1>6. SettingsTypes'
  <2>1. \A g \in Requests : Founded(web[g])'
    <3>1. ASSUME NEW g \in Requests, Founded(web[g]), web'[g] = web[g] PROVE Founded(web[g])'
      BY <1>5, <3>1 DEF Founded
    <3>2. Founded(web[h])'
      BY <1>1, <1>2, <1>5 DEF SettingsTypes, Founded
    <3> QED
      BY <1>2, <3>1, <3>2 DEF SettingsTypes
  <2> QED
    BY <1>1, <1>2, <1>5, <2>1 DEF SettingsTypes
<1>7. ControlInv'
  BY <1>1, <1>2 DEF ControlInv
<1>8. TruthInv'
  <2> SUFFICES ASSUME exists, NEW f \in Audited \ doubt PROVE FieldInv(f)'
    BY <1>1 DEF TruthInv
  <2>1. FieldInv(f)
    BY DEF TruthInv
  <2>2. Tells(f, row[f]) => Tells(f, row[f])'
    BY <1>1, <1>5 DEF Tells
  <2>3. \A g \in Requests : Pending(web[g])' = Pending(web[g]) /\ web'[g].value = web[g].value
    BY <1>1, <1>2, <1>3 DEF Pending, Logged
  <2> QED
    BY <1>1, <2>1, <2>2, <2>3 DEF FieldInv
<1>9. RollInv'
  <2> SUFFICES ASSUME NEW e \in DOMAIN audit \ slipped' PROVE OnceInv(e)'
    BY <1>5 DEF RollInv
  <2>1. OnceInv(e)
    BY <1>5 DEF RollInv
  <2>2. CASE e = d
    <3>1. \A g \in Requests \ {h} : ~RollsBack(web[g], e)
      BY <1>1, <2>1, <2>2 DEF OnceInv, RollsBack
    <3> QED
      BY <1>1, <1>2, <1>5, <2>1, <2>2, <3>1 DEF OnceInv, RollsBack
  <2>3. CASE e # d
    BY <1>1, <1>2, <1>5, <2>1, <2>3 DEF OnceInv, RollsBack
  <2> QED
    BY <2>2, <2>3
<1> QED
  BY <1>6, <1>7, <1>8, <1>9

\* The log grows by one entry: that of another setting, or of this one.
LEMMA TellsOn ==
    ASSUME audit \in Seq(AuditEntry), NEW a \in AuditEntry, audit' = Append(audit, a), NEW f
    PROVE  /\ \A v : Tells(f, v) /\ a.field # f => Tells(f, v)'
           /\ a.field = f => Tells(f, a.new)'
<1> DEFINE n == Len(audit)
<1>1. /\ n \in Nat /\ DOMAIN audit = 1 .. n /\ DOMAIN audit' = 1 .. n + 1 /\ audit'[n + 1] = a
      /\ \A i \in 1 .. n : audit'[i] = audit[i]
  OBVIOUS
<1> HIDE DEF n
<1>2. \A i \in 1 .. n + 1 : i \in 1 .. n \/ i = n + 1
  BY <1>1
<1>3. \A i \in 1 .. n : i \in 1 .. n + 1 /\ ~(i > n + 1)
  BY <1>1
<1>4. n + 1 \in 1 .. n + 1 /\ ~(n + 1 > n + 1)
  BY <1>1
<1>5. ASSUME NEW v, Tells(f, v), a.field # f PROVE Tells(f, v)'
  <2>1. CASE v = 0 /\ \A e \in DOMAIN audit : audit[e].field # f
    BY <1>1, <1>2, <1>5, <2>1 DEF Tells
  <2>2. ASSUME NEW e \in DOMAIN audit, audit[e].field = f, audit[e].new = v,
               \A d \in DOMAIN audit : d > e => audit[d].field # f
        PROVE  Tells(f, v)'
    <3>1. e \in DOMAIN audit' /\ audit'[e].field = f /\ audit'[e].new = v
      BY <1>1, <1>3, <2>2
    <3>2. \A d \in DOMAIN audit' : d > e => audit'[d].field # f
      BY <1>1, <1>2, <1>5, <2>2
    <3> QED
      BY <3>1, <3>2 DEF Tells
  <2> QED
    BY <1>5, <2>1, <2>2 DEF Tells
<1>6. ASSUME a.field = f PROVE Tells(f, a.new)'
  <2>1. \A d \in DOMAIN audit' : ~(d > n + 1)
    BY <1>1, <1>2, <1>3, <1>4
  <2> QED
    BY <1>1, <1>4, <1>6, <2>1 DEF Tells
<1> QED
  BY <1>5, <1>6

\* A new entry, if it is stored, has not been rolled back.
LEMMA LogGrows ==
    ASSUME SettingsTypes, NEW a \in AuditEntry, CreateAuditLog(a)
    PROVE  /\ audit' \in Seq(AuditEntry)
           /\ rolled' \in Seq(Nat) /\ Len(rolled') = Len(audit')
           /\ DOMAIN audit \subseteq DOMAIN audit'
           /\ \A e \in DOMAIN audit : audit'[e] = audit[e] /\ rolled'[e] = rolled[e]
           /\ \A e \in DOMAIN audit' \ DOMAIN audit : rolled'[e] = 0
<1>1. audit \in Seq(AuditEntry) /\ rolled \in Seq(Nat) /\ Len(rolled) = Len(audit)
  BY DEF SettingsTypes
<1>2. CASE UNCHANGED log
  BY <1>1, <1>2 DEF log
<1>3. CASE audit' = Append(audit, a) /\ rolled' = Append(rolled, 0)
  BY <1>1, <1>3
<1> QED
  BY <1>2, <1>3 DEF CreateAuditLog

\* A request adds the entry of a setting it has written, or fails to.
LEMMA EntryStep ==
    ASSUME SettingsInv, NEW h \in Requests, NEW a \in AuditEntry, CreateAuditLog(a),
           a.field \in Pending(web[h]), a.new = web[h].value,
           web[h].pc \in {"audit", "note"},
           UNCHANGED <<exists, row, requests, controls, slipped>>,
           NEW r \in Edit, web' = [web EXCEPT ![h] = r], r.pc \in {"idle", "audit"},
           r.pc = "audit" => r.entry = 0,
           Pending(r) = Pending(web[h]) \ {a.field},
           Pending(r) # {} => r.value = web[h].value
    PROVE  SettingsInv'
<1> USE DEF SettingsInv
<1>1. /\ audit' \in Seq(AuditEntry)
      /\ rolled' \in Seq(Nat) /\ Len(rolled') = Len(audit')
      /\ DOMAIN audit \subseteq DOMAIN audit'
      /\ \A e \in DOMAIN audit : audit'[e] = audit[e] /\ rolled'[e] = rolled[e]
      /\ \A e \in DOMAIN audit' \ DOMAIN audit : rolled'[e] = 0
  BY LogGrows
<1>2. /\ web' \in [Requests -> Edit] /\ web'[h] = r
      /\ \A g \in Requests \ {h} : web'[g] = web[g]
  BY DEF SettingsTypes
<1>3. SettingsTypes'
  <2>1. \A g \in Requests : Founded(web[g])'
    BY <1>1, <1>2 DEF SettingsTypes, Founded
  <2> QED
    BY <1>1, <1>2, <2>1 DEF SettingsTypes
<1>4. ControlInv'
  BY <1>2 DEF ControlInv, controls
<1>5. TruthInv'
  <2> SUFFICES ASSUME exists, NEW f \in Audited \ doubt' PROVE FieldInv(f)'
    BY DEF TruthInv
  <2>1. f \notin doubt /\ FieldInv(f)
    BY DEF TruthInv, CreateAuditLog
  <2>2. \A g \in Requests \ {h} : Pending(web[g])' = Pending(web[g]) /\ web'[g].value = web[g].value
    BY <1>2 DEF Pending, Logged
  <2>3. Pending(web[h])' = Pending(web[h]) \ {a.field}
    <3>1. Pending(web[h])' = Pending(r)
      BY <1>2 DEF Pending, Logged
    <3> QED
      BY <3>1
  <2>4. audit \in Seq(AuditEntry)
    BY DEF SettingsTypes
  <2>5. CASE a.field = f
    <3>1. audit' = Append(audit, a)
      BY <2>1, <2>5 DEF CreateAuditLog
    <3>2. Tells(f, a.new)'
      BY <2>4, <2>5, <3>1, TellsOn
    <3>3. row[f] = web[h].value /\ \A g \in Requests \ {h} : f \notin Pending(web[g])
      BY <2>1, <2>5 DEF FieldInv
    <3>4. a.new = row'[f]
      BY <3>3
    <3>5. Tells(f, row[f])'
      BY <3>2, <3>4 DEF Tells
    <3> QED
      BY <2>2, <2>3, <2>5, <3>3, <3>5 DEF FieldInv
  <2>6. CASE a.field # f
    <3>1. Tells(f, row[f]) => Tells(f, row[f])'
      <4>1. CASE audit' = Append(audit, a)
        <5>1. Tells(f, row[f]) => Tells(f, row[f])'
          BY <2>4, <2>6, <4>1, TellsOn DEF Tells
        <5> QED
          BY <5>1
      <4>2. CASE audit' = audit
        BY <4>2 DEF Tells
      <4> QED
        BY <4>1, <4>2 DEF CreateAuditLog, log
    <3>2. \A g \in Requests : f \in Pending(web[g])' <=> f \in Pending(web[g])
      BY <2>2, <2>3, <2>6
    <3>3. \A g \in Requests : f \in Pending(web[g]) => web'[g].value = web[g].value
      <4>1. f \in Pending(web[h]) => Pending(r) # {}
        BY <2>6
      <4> QED
        BY <1>2, <4>1
    <3> QED
      BY <2>1, <3>1, <3>2, <3>3 DEF FieldInv
  <2> QED
    BY <2>5, <2>6
<1>6. RollInv'
  <2> SUFFICES ASSUME NEW e \in DOMAIN audit' \ slipped PROVE OnceInv(e)'
    BY DEF RollInv
  <2>1. \A g \in Requests : web'[g].pc \in {"rewrite", "mark"} => g # h /\ web'[g] = web[g] /\ web[g].entry \in DOMAIN audit
    BY <1>2 DEF SettingsTypes, Founded
  <2>2. CASE e \in DOMAIN audit
    <3>1. OnceInv(e)
      BY <2>2 DEF RollInv
    <3>2. \A g \in Requests : web[g].pc = "mark" => web'[g] = web[g]
      BY <1>2
    <3> QED
      BY <1>1, <2>1, <2>2, <3>1, <3>2 DEF OnceInv, RollsBack
  <2>3. CASE e \notin DOMAIN audit
    <3>1. rolled'[e] = 0 /\ \A g \in Requests : ~(web'[g].pc \in {"rewrite", "mark"} /\ web'[g].entry = e)
      BY <1>1, <2>1, <2>3
    <3> QED
      BY <3>1 DEF OnceInv, RollsBack
  <2> QED
    BY <2>2, <2>3
<1> QED
  BY <1>3, <1>4, <1>5, <1>6

LEMMA AuditStep ==
    ASSUME SettingsInv, NEW h \in Requests, AuditEdit(h) PROVE SettingsInv'
<1> USE DEF SettingsInv
<1>1. /\ web[h].pc = "audit" /\ web[h] \in Edit /\ web[h].entry = 0
      /\ UNCHANGED <<exists, row, requests, controls, slipped>>
  BY DEF AuditEdit, SettingsTypes, Founded
<1>2. ASSUME NEW f \in Logged(web[h]), CreateAuditLog(auditFieldChange(web[h], f)),
             web' = [web EXCEPT ![h].change = @ \ {f}]
      PROVE  SettingsInv'
  <2> DEFINE v == web[h].value
             w == web[h].snap[f]
             F == web[h].change \ {f}
             r == [web[h] EXCEPT !.change = F]
             a == Entry(f, w, v)
  <2>1. f \in Audited /\ f \in web[h].change /\ v \in Vals /\ w \in Vals /\ F \in SUBSET Fields
    BY <1>1, <1>2 DEF Logged, Edit, Fields
  <2>2. CreateAuditLog(a) /\ web' = [web EXCEPT ![h] = r]
    BY <1>2 DEF auditFieldChange, SettingsTypes
  <2>3. a \in AuditEntry /\ a.field = f /\ a.new = v
    <3> HIDE DEF v, w
    <3> QED
      BY <2>1 DEF Entry, AuditEntry
  <2>4. r \in Edit /\ r.pc = "audit" /\ r.entry = 0 /\ r.value = v /\ r.snap = web[h].snap /\ r.change = F
    BY <1>1, <2>1 DEF Edit
  <2>5. Pending(web[h]) = {g \in web[h].change \cap Audited : web[h].snap[g] # v}
    BY <1>1 DEF Pending, Logged
  <2>6. Pending(r) = {g \in F \cap Audited : web[h].snap[g] # v}
    <3> HIDE DEF r
    <3> QED
      BY <2>4 DEF Pending, Logged
  <2>7. Pending(r) = Pending(web[h]) \ {f} /\ f \in Pending(web[h])
    <3>1. f \in Pending(web[h])
      BY <1>1, <1>2 DEF Pending
    <3> QED
      BY <2>5, <2>6, <3>1
  <2> HIDE DEF a, r, F
  <2> QED
    BY <1>1, <2>2, <2>3, <2>4, <2>7, EntryStep
<1>3. ASSUME Logged(web[h]) = {}, Finish(h), UNCHANGED <<log, doubt>> PROVE SettingsInv'
  <2>1. Pending(web[h]) = {}
    BY <1>1, <1>3 DEF Pending
  <2>2. done \subseteq done' /\ noted' \subseteq done'
    BY <1>1 DEF controls, ControlInv
  <2> QED
    BY <1>1, <1>3, <2>1, <2>2, FinishStep
<1> QED
  BY <1>2, <1>3 DEF AuditEdit

LEMMA NoteStep ==
    ASSUME SettingsInv, NEW h \in Requests, RollbackAudit(h) PROVE SettingsInv'
<1> USE DEF SettingsInv
<1> DEFINE d == web[h].entry
           f == audit[d].field
           v == audit[d].new
           w == audit[d].old
           a == Entry(f, v, w)
<1>1. /\ web[h].pc = "note" /\ CreateAuditLog(a) /\ web' = [web EXCEPT ![h] = NoEdit]
      /\ UNCHANGED <<exists, row, requests, controls, slipped>>
  BY DEF RollbackAudit, Finish
<1>2. d \in DOMAIN audit /\ d # 0 /\ audit[d] \in AuditEntry /\ web[h].change = {f} /\ web[h].value = w
  BY <1>1 DEF SettingsTypes, Founded
<1>3. f \in Audited /\ v \in Vals /\ w \in Vals
  BY <1>2 DEF AuditEntry
<1>4. a \in AuditEntry /\ a.field = f /\ a.new = w
  <2> HIDE DEF f, v, w
  <2> QED
    BY <1>3 DEF Entry, AuditEntry
<1>5. Pending(web[h]) = {f} /\ Pending(NoEdit) = {}
  BY <1>1, <1>2, NoEditType DEF Pending, Logged
<1> HIDE DEF a, f, v, w
<1> QED
  BY <1>1, <1>2, <1>4, <1>5, NoEditType, EntryStep

LEMMA EndSteps ==
    ASSUME SettingsInv, NEW h \in Requests
    PROVE  /\ UpdateFails(h) => SettingsInv'
           /\ ControlAnswered(h) => SettingsInv'
           /\ ControlTimeout(h) => SettingsInv'
<1>1. \A p \in {"update", "rewrite", "control", "answer", "refused"} : web[h].pc = p => Pending(web[h]) = {}
  BY DEF Pending
<1>2. noted \subseteq done /\ (web[h].pc = "answer" => web[h].number \in done)
  BY DEF SettingsInv, ControlInv
<1>3. ASSUME UpdateFails(h) PROVE SettingsInv'
  BY <1>1, <1>2, <1>3, FinishStep DEF UpdateFails, controls, slips
<1>4. ASSUME ControlAnswered(h) PROVE SettingsInv'
  BY <1>1, <1>2, <1>4, FinishStep DEF ControlAnswered, slips
<1>5. ASSUME ControlTimeout(h) PROVE SettingsInv'
  BY <1>1, <1>2, <1>5, FinishStep DEF ControlTimeout, controls, slips
<1> QED
  BY <1>3, <1>4, <1>5

LEMMA ControlStep ==
    ASSUME SettingsInv, NEW h \in Requests, ControlInstance(h) PROVE SettingsInv'
<1> USE DEF SettingsInv
<1>1. /\ web[h].pc = "control" /\ web[h] \in Edit
      /\ UNCHANGED <<exists, row, audit, rolled, requests, noted, doubt, slipped>>
      /\ \/ done' = done \cup {web[h].number} /\ EditAt(h, "answer")
         \/ done' = done /\ EditAt(h, "refused")
  BY DEF ControlInstance, log, slips, SettingsTypes
<1>2. PICK p \in {"answer", "refused"} :
         EditAt(h, p) /\ done \subseteq done' /\ (p = "answer" => web[h].number \in done')
  BY <1>1
<1>3. /\ web' = [web EXCEPT ![h] = [web[h] EXCEPT !.pc = p]]
      /\ [web[h] EXCEPT !.pc = p] \in Edit
  BY <1>1, <1>2 DEF SettingsTypes, EditAt, Edit, WebPcs
<1>4. /\ web' \in [Requests -> Edit] /\ web'[h].pc = p /\ web'[h].number = web[h].number
      /\ \A g \in Requests \ {h} : web'[g] = web[g]
  BY <1>1, <1>2 DEF SettingsTypes, EditAt, Edit, WebPcs
<1>5. SettingsTypes'
  <2>1. \A g \in Requests : Founded(web[g])'
    BY <1>1, <1>4 DEF SettingsTypes, Founded
  <2> QED
    BY <1>1, <1>4, <2>1 DEF SettingsTypes
<1>6. ControlInv'
  BY <1>1, <1>2, <1>4 DEF ControlInv
<1>7. TruthInv'
  <2>1. Pending(web[h]) = {} /\ Pending(web[h])' = {}
    BY <1>1, <1>4 DEF Pending
  <2>2. \A g \in Requests \ {h} : Pending(web[g])' = Pending(web[g])
    BY <1>4 DEF Pending, Logged
  <2> QED
    BY <1>1, <1>4, <2>1, <2>2, TruthKept
<1>8. RollInv'
  <2> SUFFICES ASSUME NEW e \in DOMAIN audit \ slipped PROVE OnceInv(e)'
    BY <1>1 DEF RollInv
  <2>1. OnceInv(e)
    BY DEF RollInv
  <2> QED
    BY <1>1, <1>4, <2>1 DEF OnceInv, RollsBack
<1> QED
  BY <1>5, <1>6, <1>7, <1>8

LEMMA RequestSteps ==
    ASSUME SettingsInv, NEW h \in Requests
    PROVE  /\ apiControlInstance(h) => SettingsInv'
           /\ \A F \in SUBSET Fields, v \in Values : apiUpdateInstance(h, F, v) => SettingsInv'
           /\ \A e \in DOMAIN audit : apiRollbackAuditLog(h, e) => SettingsInv'
<1> USE DEF SettingsInv
<1>1. ASSUME apiControlInstance(h) PROVE SettingsInv'
  <2> DEFINE n == requests + 1
             r == [NoEdit EXCEPT !.pc = "control", !.number = n]
  <2>1. n \in Nat /\ Begin(h, r) /\ UNCHANGED <<exists, row, log, controls, doubt, slipped>>
    BY <1>1 DEF apiControlInstance, SettingsTypes, slips
  <2> HIDE DEF n
  <2>2. r \in Edit /\ r.pc = "control"
    BY <2>1, NoEditType DEF Edit, WebPcs
  <2> HIDE DEF r
  <2>3. Founded(r)
    BY <2>2 DEF Founded
  <2> QED
    BY <2>1, <2>2, <2>3, BeginStep
<1>2. ASSUME NEW F \in SUBSET Fields, NEW v \in Values, apiUpdateInstance(h, F, v) PROVE SettingsInv'
  <2> DEFINE r == [NoEdit EXCEPT !.pc = "update", !.snap = row, !.change = F, !.value = v]
  <2>1. Begin(h, r) /\ UNCHANGED <<exists, row, log, controls, doubt, slipped>>
    BY <1>2 DEF apiUpdateInstance, GetInstance, slips
  <2>2. v \in Vals /\ row \in [Fields -> Vals]
    BY DEF Vals, SettingsTypes
  <2>3. r \in Edit /\ r.pc = "update"
    BY <2>2, NoEditType DEF Edit, WebPcs
  <2>4. r.entry = 0
    BY DEF NoEdit
  <2> HIDE DEF r
  <2>5. Founded(r)
    BY <2>3, <2>4 DEF Founded
  <2> QED
    BY <2>1, <2>3, <2>5, BeginStep
<1>3. ASSUME NEW e \in DOMAIN audit, apiRollbackAuditLog(h, e) PROVE SettingsInv'
  <2> DEFINE f == audit[e].field
             v == audit[e].old
             r == [NoEdit EXCEPT !.pc = "rewrite", !.snap = row, !.entry = e, !.change = {f}, !.value = v]
  <2>1. Begin(h, r) /\ ~audit[e].back /\ UNCHANGED <<exists, row, log, controls, doubt>>
    BY <1>3 DEF apiRollbackAuditLog, GetAuditLog, GetInstance
  <2>2. slipped' = slipped \cup {e : g \in {x \in Requests : web[x].pc \in {"rewrite", "mark"} /\ web[x].entry = e}}
    BY <1>3 DEF apiRollbackAuditLog
  <2>3. audit[e] \in AuditEntry /\ e \in Nat
    BY DEF SettingsTypes
  <2>4. v \in Vals /\ f \in Fields /\ row \in [Fields -> Vals]
    BY <2>3 DEF AuditEntry, Fields, SettingsTypes
  <2>5. f = audit[e].field /\ v = audit[e].old
    OBVIOUS
  <2> HIDE DEF f, v
  <2>6. r \in Edit /\ r.pc = "rewrite" /\ r.entry = e /\ r.change = {f} /\ r.value = v
    BY <2>3, <2>4, NoEditType DEF Edit, WebPcs
  <2> HIDE DEF r
  <2>7. Founded(r)
    BY <2>5, <2>6 DEF Founded
  <2>8. r.pc = "rewrite" /\ ~audit[r.entry].back
        /\ slipped' = slipped \cup {r.entry : g \in {x \in Requests : web[x].pc \in {"rewrite", "mark"} /\ web[x].entry = r.entry}}
    BY <2>1, <2>2, <2>6
  <2> QED
    BY <2>1, <2>6, <2>7, <2>8, BeginStep
<1> QED
  BY <1>1, <1>2, <1>3

LEMMA SettingsKeep == SettingsInv /\ [SettingsNext]_settingsVars => SettingsInv'
<1> SUFFICES ASSUME SettingsInv, [SettingsNext]_settingsVars PROVE SettingsInv'
  OBVIOUS
<1>1. ASSUME NEW h \in Requests,
             \/ EditUpdate(h) \/ UpdateFails(h) \/ AuditEdit(h)
             \/ RollbackUpdate(h) \/ RollbackMark(h) \/ RollbackAudit(h)
             \/ ControlInstance(h) \/ ControlAnswered(h) \/ ControlTimeout(h)
      PROVE  SettingsInv'
  BY <1>1, EditUpdateStep, AuditStep, RewriteStep, MarkStep, NoteStep, EndSteps, ControlStep
<1>2. ASSUME NEW h \in Requests,
             \/ apiControlInstance(h)
             \/ \E F \in SUBSET Fields, v \in Values : apiUpdateInstance(h, F, v)
             \/ \E e \in DOMAIN audit : apiRollbackAuditLog(h, e)
      PROVE  SettingsInv'
  BY <1>2, RequestSteps
<1>3. CASE UNCHANGED settingsVars
  <2>1. UNCHANGED <<exists, row, audit, web, requests, done, noted, rolled, doubt, slipped>>
    BY <1>3 DEF settingsVars
  <2>2. \A h \in Requests : Pending(web[h])' = Pending(web[h])
    BY <2>1 DEF Pending, Logged
  <2>3. TruthInv'
    BY <2>1, <2>2, TruthKept DEF SettingsInv
  <2>4. SettingsTypes' /\ ControlInv'
    BY <2>1 DEF SettingsInv, SettingsTypes, Founded, ControlInv
  <2>5. RollInv'
    BY <2>1 DEF SettingsInv, RollInv, OnceInv, RollsBack
  <2> QED
    BY <2>3, <2>4, <2>5 DEF SettingsInv
<1> QED
  BY <1>1, <1>2, <1>3, DeleteStep, SettingsCrashStep DEF SettingsNext

\* For any settings, values and requests, edits and rollbacks in any order, with
\* overlaps, failing statements and crashes: the audit log tells the audited
\* settings, but for those whose last change was written back over, lost its entry
\* or came before the entry of another one; an entry is rolled back once unless its
\* mark was lost or came after the next rollback; and the commands in the log were
\* carried out (apiUpdateInstance, apiRollbackAuditLog, apiControlInstance).
THEOREM AuditStaysTrue == SettingsSpec => []AuditTellsTruth
<1>1. SettingsInv => AuditTellsTruth
  <2> SUFFICES ASSUME SettingsInv PROVE AuditTellsTruth
    OBVIOUS
  <2>1. exists => \A f \in Audited \ doubt :
                    (\A h \in Requests : f \notin Pending(web[h])) => Tells(f, row[f])
    BY DEF SettingsInv, TruthInv, FieldInv
  <2>2. DOMAIN rolled = DOMAIN audit
    BY DEF SettingsInv, SettingsTypes
  <2>3. \A e \in DOMAIN rolled \ slipped : rolled[e] <= 1
    BY <2>2 DEF SettingsInv, RollInv, OnceInv
  <2> QED
    BY <2>1, <2>3 DEF SettingsInv, ControlInv, AuditTellsTruth
<1> QED
  BY <1>1, SettingsStart, SettingsKeep, PTL DEF SettingsSpec

-----------------------------------------------------------------------------
(* Restarts of crashed instances.                                          *)

\* What a Stop without a fallback has stopped is down, nobody watches it, and no
\* restart is on its way.
DownInv == wanted = "down" => state = "stopped" /\ watcher = "none" /\ delays = <<>>

LEMMA DownKept == DownInv /\ [Next]_vars => DownInv'
<1> SUFFICES ASSUME DownInv, [Next]_vars PROVE DownInv'
  OBVIOUS
<1> USE DEF DownInv, process, loop, history
<1>1. ASSUME NEW code \in {"exit0", "exit1"}, ContainerExits(code) PROVE DownInv'
  BY <1>1 DEF ContainerExits
<1>2. ASSUME WatcherWrites PROVE DownInv'
  BY <1>2 DEF WatcherWrites
<1>3. ASSUME OperatorStarts PROVE DownInv'
  BY <1>3 DEF OperatorStarts
<1>4. ASSUME OperatorStops PROVE DownInv'
  BY <1>4 DEF OperatorStops
<1>5. ASSUME OperatorKills PROVE DownInv'
  BY <1>5 DEF OperatorKills
<1>6. ASSUME Tick PROVE DownInv'
  <2>1. ASSUME wanted = "down" PROVE state' = "stopped" /\ watcher' = "none" /\ delays' = <<>>
    <3>1. state = "stopped" /\ watcher = "none" /\ delays = <<>>
      BY <2>1
    <3>2. TickHealthy
      BY <1>6, <3>1 DEF Tick, TickGivenUp, TickTooSoon, TickSchedule
    <3>3. delays' = [i \in DOMAIN delays |-> delays[i] - 1] /\ DOMAIN delays = {}
      BY <3>1, <3>2 DEF TickHealthy, Elapse
    <3> QED
      BY <3>1, <3>2, <3>3 DEF TickHealthy
  <2> QED
    BY <1>6, <2>1 DEF Tick, TickHealthy, TickGivenUp, TickTooSoon, TickSchedule
<1>7. ASSUME NEW i \in DOMAIN delays, AutoStarts(i) PROVE DownInv'
  BY <1>7 DEF AutoStarts
<1>8. ASSUME StopFallsBack PROVE DownInv'
  BY <1>8 DEF StopFallsBack
<1> QED
  BY <1>1, <1>2, <1>3, <1>4, <1>5, <1>6, <1>7, <1>8 DEF Next, vars

\* Whatever crashes, fails and is killed, and whatever docker stop and docker kill
\* do: the loop never brings up what Stop has stopped without falling back to Kill,
\* unless a restart was on its way (autoRestartLoop, Stop).
THEOREM StoppedStays == Spec => []StoppedStaysDown
<1>1. Init => DownInv
  BY DEF Init, DownInv
<1>2. DownInv => StoppedStaysDown
  BY DEF DownInv, StoppedStaysDown
<1> QED
  BY <1>1, <1>2, DownKept, PTL DEF Spec

-----------------------------------------------------------------------------
\* The time since the last attempt and what is left of its sleep make up the wait of
\* that attempt; nothing starts the instance, and so nothing resets the count,
\* before the sleep is over.
Sleeping ==
    /\ Len(delays) = 1 /\ delays[1] >= 0
    /\ state # "running"
    /\ since >= 0 /\ crashCount >= 1
    /\ crashCount < MaxCrashCount => since + delays[1] = Backoff(crashCount - 1)

LoopInv ==
    /\ delays \in Seq(Int) /\ since \in Int /\ crashCount \in Nat /\ meddled \in BOOLEAN
    /\ ~meddled => delays = <<>> \/ Sleeping

\* A tick takes one from every sleep.
LEMMA One ==
    ASSUME delays \in Seq(Int)
    PROVE  /\ Len(delays) \in Nat /\ DOMAIN delays = 1 .. Len(delays)
           /\ Len(delays) = 1 => 1 \in DOMAIN delays /\ delays[1] \in Int
  BY LenProperties, ElementOfSeq

LEMMA Shorter ==
    ASSUME delays \in Seq(Int)
    PROVE  /\ [i \in DOMAIN delays |-> delays[i] - 1] \in Seq(Int)
           /\ Len([i \in DOMAIN delays |-> delays[i] - 1]) = Len(delays)
           /\ \A i \in DOMAIN delays : [j \in DOMAIN delays |-> delays[j] - 1][i] = delays[i] - 1
<1> DEFINE n == Len(delays)
           f == [i \in 1 .. n |-> delays[i] - 1]
<1>1. n \in Nat /\ DOMAIN delays = 1 .. n /\ \A i \in 1 .. n : delays[i] \in Int
  BY LenProperties, ElementOfSeq
<1> HIDE DEF n
<1>2. \A i \in 1 .. n : delays[i] - 1 \in Int
  BY <1>1
<1>3. f \in Seq(Int) /\ Len(f) = n
  BY <1>1, <1>2, IsASeq DEF f
<1> QED
  BY <1>1, <1>3 DEF n, f

\* The time passes, and no attempt is made.
LEMMA Passes ==
    ASSUME WaitsGrow, LoopInv, Elapse, state' = state, meddled' = meddled, crashCount' \in Nat,
           crashCount' = crashCount \/ state = "running" \/ (crashCount >= MaxCrashCount /\ crashCount' >= MaxCrashCount)
    PROVE  LoopInv'
<1> USE MaxCrashCountAssumption, DelayAssumption
<1>1. /\ delays' \in Seq(Int) /\ Len(delays') = Len(delays)
      /\ \A i \in DOMAIN delays : delays'[i] = delays[i] - 1 /\ delays[i] > 0
  BY Shorter DEF LoopInv, Elapse
<1>2. since' \in Int /\ since' = Since
  BY DEF LoopInv, Elapse, Since
<1>3. CASE meddled
  BY <1>1, <1>2, <1>3 DEF LoopInv
<1>4. CASE delays = <<>>
  BY <1>1, <1>2, <1>4 DEF LoopInv
<1>5. CASE Sleeping /\ ~meddled
  <2>1. 1 \in DOMAIN delays /\ delays[1] \in Int
    <3>1. delays \in Seq(Int) /\ Len(delays) = 1
      BY <1>5 DEF Sleeping, LoopInv
    <3> QED
      BY <3>1, One
  <2>2. delays'[1] = delays[1] - 1 /\ delays'[1] >= 0
    BY <1>1, <2>1
  <2>3. since' >= 0
    BY <1>2, <1>5 DEF Since, Sleeping, LoopInv
  <2>4. ASSUME crashCount' < MaxCrashCount
        PROVE  crashCount' = crashCount /\ since' + delays'[1] = Backoff(crashCount - 1)
    <3>1. crashCount' = crashCount
      BY <1>5, <2>4 DEF Sleeping, LoopInv
    <3>2. since + delays[1] = Backoff(crashCount - 1) /\ crashCount - 1 \in 0 .. MaxCrashCount - 1
      BY <1>5, <2>4, <3>1 DEF Sleeping, LoopInv
    <3>3. since + delays[1] \in 0 .. MaxBackoff
      BY <3>2 DEF WaitsGrow
    <3>4. since # MaxBackoff /\ since # -1
      BY <1>1, <1>5, <2>1, <3>3 DEF Sleeping, LoopInv
    <3>5. since' = since + 1
      BY <1>2, <3>4 DEF Since
    <3> QED
      BY <2>1, <2>2, <3>1, <3>2, <3>5 DEF LoopInv
  <2>5. Sleeping'
    BY <1>1, <1>5, <2>2, <2>3, <2>4 DEF Sleeping, LoopInv
  <2> QED
    BY <1>1, <1>2, <2>5 DEF LoopInv
<1> QED
  BY <1>3, <1>4, <1>5 DEF LoopInv

\* An attempt is made: the last one is over by then.
LEMMA Schedules ==
    ASSUME WaitsGrow, LoopInv, TickSchedule
    PROVE  LoopInv'
<1> USE MaxCrashCountAssumption, DelayAssumption
<1> DEFINE shorter == [i \in DOMAIN delays |-> delays[i] - 1]
           b == Backoff(crashCount)
<1>1. /\ state = "crashed" /\ crashCount < MaxCrashCount /\ ~TooSoon
      /\ \A i \in DOMAIN delays : delays[i] > 0
      /\ delays' = Append(shorter, b) /\ since' = 0 /\ crashCount' = crashCount + 1
      /\ state' = state /\ meddled' = meddled
  BY DEF TickSchedule, process, history
<1>2. crashCount \in 0 .. MaxCrashCount - 1 /\ b \in Int /\ b >= 0
  BY <1>1 DEF LoopInv, WaitsGrow
<1>3. shorter \in Seq(Int) /\ Len(shorter) = Len(delays)
  BY Shorter DEF LoopInv
<1> HIDE DEF shorter
<1>4. delays' \in Seq(Int) /\ Len(delays') = Len(delays) + 1 /\ delays'[Len(delays) + 1] = b
  <2> HIDE DEF b
  <2> QED
    BY <1>1, <1>2, <1>3
<1>5. ASSUME ~meddled PROVE delays = <<>>
  <2> SUFFICES ASSUME Sleeping PROVE FALSE
    BY <1>5 DEF LoopInv
  <2>1. 1 \in DOMAIN delays /\ delays[1] > 0 /\ delays[1] \in Int
    <3>1. delays \in Seq(Int) /\ Len(delays) = 1
      BY DEF Sleeping, LoopInv
    <3> QED
      BY <1>1, <3>1, One
  <2>2. since + delays[1] = Backoff(crashCount - 1)
    BY <1>1 DEF Sleeping
  <2>3. crashCount - 1 \in 0 .. MaxCrashCount - 1 /\ crashCount > 0
    BY <1>2 DEF Sleeping, LoopInv
  <2>4. Backoff(crashCount - 1) \in Int /\ b \in Int /\ Backoff(crashCount - 1) < b
    BY <1>2, <2>3 DEF WaitsGrow
  <2>5. since >= 0 /\ since \in Int /\ Since <= since + 1
    BY DEF Sleeping, LoopInv, Since
  <2>6. Since >= b
    BY <1>1, <1>2, <2>5 DEF TooSoon, Since
  <2> HIDE DEF b
  <2>7. Since \in Int
    BY <2>5 DEF Since
  <2> QED
    BY <2>1, <2>2, <2>4, <2>5, <2>6, <2>7
<1>6. ASSUME ~meddled' PROVE Sleeping'
  <2>1. Len(delays) = 0
    BY <1>1, <1>5, <1>6
  <2>2. Len(delays') = 1 /\ delays'[1] = b
    BY <1>4, <2>1
  <2>3. crashCount' - 1 = crashCount
    BY <1>1 DEF LoopInv
  <2>4. since' + delays'[1] = Backoff(crashCount' - 1)
    BY <1>1, <1>2, <2>2, <2>3
  <2> QED
    BY <1>1, <1>2, <2>2, <2>4 DEF Sleeping, LoopInv
<1> QED
  BY <1>1, <1>4, <1>6 DEF LoopInv

\* The sleep is over.
LEMMA Awakes ==
    ASSUME LoopInv, NEW i \in DOMAIN delays, AutoStarts(i)
    PROVE  LoopInv'
<1>1. /\ delays' = RemoveAt(delays, i) /\ meddled' = (meddled /\ Len(delays) > 1)
      /\ crashCount' = crashCount /\ since' = since
  BY DEF AutoStarts
<1>2. delays \in Seq(Int) /\ i \in 1 .. Len(delays) /\ Len(delays) \in Nat
  BY DEF LoopInv
<1> DEFINE before == SubSeq(delays, 1, i - 1)
           after == SubSeq(delays, i + 1, Len(delays))
<1>3. /\ before \in Seq(Int) /\ Len(before) = i - 1
      /\ after \in Seq(Int) /\ Len(after) = Len(delays) - i
  <2>1. /\ \A j \in 1 .. i - 1 : delays[j] \in Int
        /\ \A j \in i + 1 .. Len(delays) : delays[j] \in Int
    BY <1>2, ElementOfSeq
  <2>2. /\ before \in Seq(Int) /\ Len(before) = IF 1 <= i - 1 THEN i - 1 - 1 + 1 ELSE 0
    BY <1>2, <2>1, SubSeqProperties
  <2>3. /\ after \in Seq(Int)
        /\ Len(after) = IF i + 1 <= Len(delays) THEN Len(delays) - (i + 1) + 1 ELSE 0
    BY <1>2, <2>1, SubSeqProperties
  <2> DEFINE n == Len(delays)
             m == Len(before)
             k == Len(after)
  <2>4. /\ n \in Nat /\ i \in 1 .. n /\ m = IF 1 <= i - 1 THEN i - 1 - 1 + 1 ELSE 0
        /\ k = IF i + 1 <= n THEN n - (i + 1) + 1 ELSE 0
    BY <1>2, <2>2, <2>3
  <2> HIDE DEF n, m, k
  <2>5. m = i - 1 /\ k = n - i
    BY <2>4
  <2> QED
    BY <2>2, <2>3, <2>5 DEF n, m, k
<1>a. delays' = before \o after
  BY <1>1 DEF RemoveAt
<1> HIDE DEF before, after
<1>4. delays' \in Seq(Int) /\ Len(delays') = Len(delays) - 1
  <2>1. Len(before \o after) = Len(before) + Len(after) /\ before \o after \in Seq(Int)
    BY <1>3, ConcatProperties
  <2> QED
    BY <1>2, <1>3, <1>a, <2>1
<1>5. ASSUME ~meddled' PROVE delays' = <<>>
  <2>1. Len(delays) = 1
    <3>1. CASE ~meddled
      BY <1>2, <3>1 DEF LoopInv, Sleeping
    <3>2. CASE ~(Len(delays) > 1)
      <4> DEFINE n == Len(delays)
      <4>1. n \in Nat /\ i \in 1 .. n /\ ~(n > 1)
        BY <1>2, <3>2
      <4> HIDE DEF n
      <4>2. n = 1
        BY <4>1
      <4> QED
        BY <4>2 DEF n
    <3> QED
      BY <1>1, <1>5, <3>1, <3>2
  <2> QED
    BY <1>4, <2>1
<1> QED
  BY <1>1, <1>4, <1>5 DEF LoopInv

LEMMA LoopKept ==
    ASSUME WaitsGrow, LoopInv, [Next]_vars PROVE LoopInv'
<1> USE DEF process, loop, history
<1>1. ASSUME NEW code \in {"exit0", "exit1"}, ContainerExits(code) PROVE LoopInv'
  BY <1>1 DEF ContainerExits, LoopInv, Sleeping
<1>2. ASSUME WatcherWrites PROVE LoopInv'
  BY <1>2 DEF WatcherWrites, LoopInv, Sleeping
<1>3. ASSUME OperatorStarts PROVE LoopInv'
  BY <1>3 DEF OperatorStarts, LoopInv, Sleeping
<1>4. ASSUME OperatorStops PROVE LoopInv'
  BY <1>4 DEF OperatorStops, LoopInv, Sleeping
<1>5. ASSUME OperatorKills PROVE LoopInv'
  BY <1>5 DEF OperatorKills, LoopInv, Sleeping
<1>6. ASSUME TickHealthy PROVE LoopInv'
  <2>1. Elapse /\ state' = state /\ meddled' = meddled
    BY <1>6 DEF TickHealthy
  <2>2. crashCount' \in Nat /\ (crashCount' = crashCount \/ state = "running")
    BY <1>6 DEF TickHealthy, LoopInv
  <2> QED
    BY <2>1, <2>2, Passes
<1>7. ASSUME TickGivenUp PROVE LoopInv'
  <2>1. Elapse /\ state' = state /\ meddled' = meddled
    BY <1>7 DEF TickGivenUp
  <2>2. crashCount' \in Nat /\ crashCount >= MaxCrashCount /\ crashCount' >= MaxCrashCount
    BY <1>7, MaxCrashCountAssumption DEF TickGivenUp
  <2> QED
    BY <2>1, <2>2, Passes
<1>8. ASSUME TickTooSoon PROVE LoopInv'
  <2>1. Elapse /\ state' = state /\ meddled' = meddled /\ crashCount' = crashCount
    BY <1>8 DEF TickTooSoon
  <2> QED
    BY <2>1, Passes DEF LoopInv
<1>9. CASE UNCHANGED vars
  BY <1>9 DEF vars, LoopInv, Sleeping
<1>10. ASSUME StopFallsBack PROVE LoopInv'
  BY <1>10 DEF StopFallsBack, LoopInv, Sleeping
<1> QED
  BY <1>1, <1>2, <1>3, <1>4, <1>5, <1>6, <1>7, <1>8, <1>9, <1>10, Schedules, Awakes DEF Next, Tick

\* If the waits grow, the loop never has two restarts of the instance under way
\* unless the operator has started it meanwhile, for all delays and limits
\* (autoRestartLoop).
THEOREM OneRestart ==
    ASSUME WaitsGrow PROVE Spec => []OneRestartAtATime
<1>1. Init => LoopInv
  <2> SUFFICES ASSUME Init PROVE LoopInv
    OBVIOUS
  <2>1. delays \in Seq(Int)
    BY EmptySeq DEF Init
  <2>2. since \in Int /\ crashCount \in Nat
    BY DEF Init
  <2>3. meddled \in BOOLEAN /\ delays = <<>>
    BY DEF Init
  <2> QED
    BY <2>1, <2>2, <2>3 DEF LoopInv
<1>2. LoopInv => OneRestartAtATime
  BY SMTT(30) DEF LoopInv, Sleeping, OneRestartAtATime
<1>3. LoopInv /\ [Next]_vars => LoopInv'
  BY LoopKept
<1> QED
  BY <1>1, <1>2, <1>3, PTL DEF Spec

-----------------------------------------------------------------------------
(* The history of the metrics.                                             *)

\* Of rows that are no later than a time n, one is the latest.
LEMMA LatestRow ==
    ASSUME NEW S, S # {}, NEW n \in Int, \A r \in S : r.at \in Int /\ r.at <= n
    PROVE  \E m \in S : \A r \in S : r.at <= m.at
<1> DEFINE R == OpToRel(<, Nat)
           A == {n - r.at : r \in S}
<1>1. A \subseteq Nat /\ A # {}
  OBVIOUS
<1>2. \E a \in A : \A b \in A : <<b, a>> \notin R
  <2> HIDE DEF A
  <2> QED
    BY <1>1, WFMin, NatLessThanWellFounded
<1>3. PICK m \in S : \A r \in S : <<n - r.at, n - m.at>> \notin R
  BY <1>2
<1>4. \A r \in S : ~(n - r.at < n - m.at)
  BY <1>1, <1>3 DEF OpToRel
<1> QED
  BY <1>4

\* A finite set of rows can be put in order: the greatest row of a smallest set that
\* cannot would go to the end.
LEMMA RowsHaveOrder ==
    ASSUME NEW S, IsFiniteSet(S), NEW n \in Int, \A r \in S : r.at \in Int /\ r.at <= n
    PROVE  ByTime(S) # {}
<1> SUFFICES ASSUME ByTime(S) = {} PROVE FALSE
  OBVIOUS
<1> DEFINE R == OpToRel(<, Nat)
           B == {T \in SUBSET S : ByTime(T) = {}}
           A == {Cardinality(T) : T \in B}
<1>1. \A T \in SUBSET S : IsFiniteSet(T) /\ Cardinality(T) \in Nat
  BY FS_Subset, FS_CardinalityType
<1>2. A \subseteq Nat /\ A # {}
  BY <1>1
<1>3. \E a \in A : \A b \in A : <<b, a>> \notin R
  <2> HIDE DEF A
  <2> QED
    BY <1>2, WFMin, NatLessThanWellFounded
<1>4. PICK T \in B : \A U \in B : <<Cardinality(U), Cardinality(T)>> \notin R
  BY <1>3
<1> DEFINE k == Cardinality(T)
<1>5. IsFiniteSet(T) /\ k \in Nat /\ T \subseteq S
  BY <1>1
<1>6. T # {}
  <2> SUFFICES ASSUME T = {} PROVE FALSE
    OBVIOUS
  <2>1. k = 0
    BY FS_EmptySet
  <2>2. <<>> \in [1 .. 0 -> {}] /\ DOMAIN <<>> = {}
    OBVIOUS
  <2>3. <<>> \in ByTime(T)
    BY <2>1, <2>2 DEF ByTime, Range
  <2> QED
    BY <2>3
<1>7. PICK m \in T : \A r \in T : r.at <= m.at
  BY <1>5, <1>6, LatestRow
<1> DEFINE U == T \ {m}
<1>8. Cardinality(U) = k - 1 /\ k - 1 \in Nat
  <2>1. Cardinality(U) = k - 1
    BY <1>5, FS_RemoveElement
  <2>2. Cardinality(U) \in Nat
    BY <1>1
  <2> QED
    BY <2>1, <2>2
<1>9. U \notin B
  <2>1. <<k - 1, k>> \in R
    BY <1>5, <1>8 DEF OpToRel
  <2> QED
    BY <1>4, <1>8, <2>1
<1>10. PICK e \in ByTime(U) : TRUE
  BY <1>9, <1>5
<1> HIDE DEF k, R, A, B, U
<1>11. /\ e \in [1 .. k - 1 -> U] /\ \A r \in U : \E i \in 1 .. k - 1 : e[i] = r
       /\ \A i, j \in 1 .. k - 1 : i <= j => e[i].at <= e[j].at
  BY <1>8, <1>10 DEF ByTime, Range
<1> DEFINE q == [i \in 1 .. k |-> IF i = k THEN m ELSE e[i]]
<1>12. \A i \in 1 .. k : IF i = k THEN q[i] = m ELSE i \in 1 .. k - 1 /\ q[i] = e[i] /\ q[i] \in U
  BY <1>5, <1>11
<1>13. q \in [1 .. k -> T] /\ q[k] = m /\ k \in 1 .. k
  BY <1>5, <1>8, <1>12 DEF U
<1>14. \A r \in T : \E i \in 1 .. k : q[i] = r
  <2> SUFFICES ASSUME NEW r \in T PROVE \E i \in 1 .. k : q[i] = r
    OBVIOUS
  <2>1. CASE r = m
    BY <1>13, <2>1
  <2>2. CASE r # m
    <3>1. PICK i \in 1 .. k - 1 : e[i] = r
      BY <1>11, <2>2 DEF U
    <3> QED
      BY <1>5, <1>12, <3>1
  <2> QED
    BY <2>1, <2>2
<1>15. \A i, j \in 1 .. k : i <= j => q[i].at <= q[j].at
  <2> SUFFICES ASSUME NEW i \in 1 .. k, NEW j \in 1 .. k, i <= j PROVE q[i].at <= q[j].at
    OBVIOUS
  <2>1. q[i] \in T
    BY <1>13
  <2>2. CASE j = k
    BY <1>7, <1>13, <2>1, <2>2
  <2>3. CASE j # k
    <3>1. i # k
      BY <1>5, <2>3
    <3> QED
      BY <1>11, <1>12, <2>3, <3>1
  <2> QED
    BY <2>2, <2>3
<1> HIDE DEF q
<1>16. q \in ByTime(T)
  BY <1>13, <1>14, <1>15 DEF ByTime, Range, k
<1> QED
  BY <1>4, <1>16 DEF B

\* What the page lists are rows of the table, and those it leaves out are no later.
LEMMA PageOfRows ==
    ASSUME IsFiniteSet(stored), now \in Int, \A r \in stored : r.at \in Int /\ r.at <= now
    PROVE  LET shown == Range(ListInstanceMetrics(PageRows)) IN
           /\ shown \subseteq stored
           /\ \A r \in stored : r \notin shown =>
                 Cardinality(stored) > PageRows /\ \A t \in shown : t.at >= r.at
<1> DEFINE q == CHOOSE o \in ByTime(stored) : TRUE
           n == Cardinality(stored)
           a == Max({1, Len(q) - PageRows + 1})
           page == SubSeq(q, a, Len(q))
<1>1. q \in ByTime(stored)
  BY RowsHaveOrder
<1> HIDE DEF q
<1>2. /\ q \in [1 .. n -> stored] /\ \A r \in stored : \E i \in 1 .. n : q[i] = r
      /\ \A i, j \in 1 .. n : i <= j => q[i].at <= q[j].at
  BY <1>1 DEF ByTime, Range
<1>3. n \in Nat /\ PageRows \in Nat
  BY FS_CardinalityType, MetricsAssumption
<1> HIDE DEF n
<1>4. q \in Seq(stored) /\ Len(q) = n
  BY <1>2, <1>3
<1>5. a \in Nat /\ 1 <= a /\ a <= n + 1 /\ (a > 1 => n > PageRows)
  <2>1. \E x \in {1, n - PageRows + 1} : \A y \in {1, n - PageRows + 1} : x >= y
    BY <1>3
  <2>2. a \in {1, n - PageRows + 1} /\ \A y \in {1, n - PageRows + 1} : a >= y
    BY <1>4, <2>1 DEF Max
  <2> HIDE DEF a
  <2> QED
    BY <1>3, <2>2
<1> HIDE DEF a
<1>6. /\ DOMAIN page = 1 .. n - a + 1
      /\ \A k \in 1 .. n - a + 1 : page[k] = q[a + k - 1]
  BY <1>3, <1>4, <1>5
<1> HIDE DEF page
<1>7. \A i \in a .. n : q[i] \in Range(page)
  <2> SUFFICES ASSUME NEW i \in a .. n PROVE q[i] \in Range(page)
    OBVIOUS
  <2>1. i - a + 1 \in 1 .. n - a + 1 /\ a + (i - a + 1) - 1 = i
    BY <1>3, <1>5
  <2>2. page[i - a + 1] = q[i]
    BY <1>6, <2>1
  <2> QED
    BY <1>6, <2>1, <2>2 DEF Range
<1>8. \A t \in Range(page) : \E i \in a .. n : t = q[i]
  <2> SUFFICES ASSUME NEW k \in 1 .. n - a + 1 PROVE \E i \in a .. n : page[k] = q[i]
    BY <1>6 DEF Range
  <2>1. a + k - 1 \in a .. n
    BY <1>3, <1>5
  <2> QED
    BY <1>6, <2>1
<1>9. a .. n \subseteq 1 .. n
  BY <1>3, <1>5
<1>10. Range(page) \subseteq stored
  BY <1>2, <1>8, <1>9
<1>11. ASSUME NEW r \in stored, r \notin Range(page)
       PROVE  n > PageRows /\ \A t \in Range(page) : t.at >= r.at
  <2>1. PICK i \in 1 .. n : q[i] = r
    BY <1>2
  <2>2. i < a
    BY <1>3, <1>5, <1>7, <1>11, <2>1
  <2>3. \A t \in Range(page) : t.at \in Int /\ r.at \in Int
    BY <1>10
  <2>4. ASSUME NEW t \in Range(page) PROVE t.at >= r.at
    <3>1. PICK j \in a .. n : t = q[j]
      BY <1>8
    <3>2. i <= j /\ j \in 1 .. n
      BY <1>3, <1>5, <1>9, <2>2
    <3>3. r.at <= t.at
      BY <1>2, <2>1, <3>1, <3>2
    <3> QED
      BY <2>3, <3>3
  <2> QED
    BY <1>3, <1>5, <2>2, <2>4
<1> QED
  BY <1>10, <1>11 DEF ListInstanceMetrics, page, a, q, n

\* The master's next pruning is at most one period away, and at least one has
\* passed since its start when it is more than a period later.  The last one, if it
\* went well, has left nothing that was as old as Span then.
PruneInv ==
    /\ now \in Int /\ started \in Int /\ due \in Int
    /\ now <= due /\ due <= now + PruneEvery
    /\ fresh \subseteq stored
    /\ IsFiniteSet(stored) /\ \A r \in stored : r.at \in Int /\ r.at <= now
    /\ \A r \in fresh : now - r.at < Span
    /\ (due > started + PruneEvery /\ ~failed) => \A r \in stored : r.at > due - PruneEvery - Span

\* Every step keeps that.
LEMMA PruneKept == PruneInv /\ [MetricsNext]_metricsVars => PruneInv'
<1> SUFFICES ASSUME PruneInv, [MetricsNext]_metricsVars PROVE PruneInv'
  OBVIOUS
<1> USE MetricsAssumption, ZoneAssumption DEF Span
<1> DEFINE Clock == <<now, stored, started, due, failed, fresh>>
<1>1. ASSUME UNCHANGED Clock PROVE PruneInv'
  BY <1>1 DEF PruneInv
<1>2. ASSUME NEW s \in 1..2, InsertInstanceMetrics(s) PROVE PruneInv'
  <2>1. PICK rows \in {{}, {[at |-> now, sample |-> Handler(s).sample]}} :
          stored' = stored \cup rows /\ fresh' = fresh \cup rows
    BY <1>2 DEF InsertInstanceMetrics
  <2>2. \A r \in rows : r.at = now
    BY <2>1
  <2>3. UNCHANGED <<now, started, due, failed>>
    BY <1>2 DEF InsertInstanceMetrics
  <2>4. IsFiniteSet(stored')
    <3> DEFINE new == [at |-> now, sample |-> Handler(s).sample]
    <3>1. IsFiniteSet(stored) /\ IsFiniteSet(stored \cup {new})
      BY FS_AddElement DEF PruneInv
    <3>2. stored' = stored \/ stored' = stored \cup {new}
      BY <2>1
    <3> QED
      BY <3>1, <3>2
  <2> QED
    BY <2>1, <2>2, <2>3, <2>4 DEF PruneInv
<1>3. ASSUME instanceMetricsPruneLoop PROVE PruneInv'
  <2>1. now = due /\ due' = due + PruneEvery /\ UNCHANGED <<now, started, fresh>>
    BY <1>3 DEF instanceMetricsPruneLoop
  <2>2. CASE stored' = PruneInstanceMetrics(stored) /\ failed' = FALSE
    <3>1. stored' \in SUBSET stored
      BY <2>2 DEF PruneInstanceMetrics
    <3>2. IsFiniteSet(stored')
      BY <3>1, FS_Subset DEF PruneInv
    <3> QED
      BY <2>1, <2>2, <3>1, <3>2 DEF PruneInv, PruneInstanceMetrics
  <2>3. CASE stored' = stored /\ failed' = TRUE
    BY <2>1, <2>3 DEF PruneInv
  <2> QED
    BY <1>3, <2>2, <2>3 DEF instanceMetricsPruneLoop
<1>4. ASSUME TimePasses PROVE PruneInv'
  BY <1>4 DEF TimePasses, PruneInv
<1>5. ASSUME RestartMaster PROVE PruneInv'
  BY <1>5 DEF RestartMaster, PruneInv
<1>6. ASSUME NEW s \in 1..2,
             \/ runHeartbeatStream(s) \/ SendHeartbeat(s) \/ BreakStream(s) \/ Receive(s)
             \/ UpdateInstanceMetrics(s) \/ UpdateNodeMetrics(s)
      PROVE  UNCHANGED Clock
  BY <1>6 DEF runHeartbeatStream, SendHeartbeat, BreakStream, Receive, UpdateInstanceMetrics,
     UpdateNodeMetrics
<1>7. ASSUME writeProm \/ pushOnce \/ StartContainer \/ Grow \/ StopContainer PROVE UNCHANGED Clock
  <2>1. writeProm => UNCHANGED Clock
    BY DEF writeProm
  <2>2. pushOnce => UNCHANGED Clock
    BY DEF pushOnce
  <2>3. StartContainer => UNCHANGED Clock
    BY DEF StartContainer
  <2>4. Grow => UNCHANGED Clock
    BY DEF Grow
  <2>5. StopContainer => UNCHANGED Clock
    BY DEF StopContainer
  <2> QED
    BY <1>7, <2>1, <2>2, <2>3, <2>4, <2>5
<1>8. CASE UNCHANGED metricsVars
  BY <1>1, <1>8 DEF metricsVars
<1> QED
  BY <1>1, <1>2, <1>3, <1>4, <1>5, <1>6, <1>7, <1>8 DEF MetricsNext

\* For all periods, ages and time zones, however often the master is restarted and
\* prunings fail: no row younger than Span (MaxAge less what local time is ahead of
\* UTC) is missing, after a pruning that went well none is as old as Span and one
\* period, and the page of the instance lists the newest rows (PruneInstanceMetrics,
\* ListInstanceMetrics).
THEOREM HistoryStaysKept == MetricsSpec => []HistoryIsKept
<1>1. MetricsInit => PruneInv
  <2> SUFFICES ASSUME MetricsInit PROVE PruneInv
    OBVIOUS
  <2>1. IsFiniteSet(stored)
    BY FS_EmptySet DEF MetricsInit
  <2> QED
    BY <2>1, MetricsAssumption, ZoneAssumption DEF MetricsInit, PruneInv, Span
<1>2. PruneInv => HistoryIsKept
  <2> SUFFICES ASSUME PruneInv PROVE HistoryIsKept
    OBVIOUS
  <2>1. SpanIsKept
    BY MetricsAssumption, ZoneAssumption DEF PruneInv, SpanIsKept, Span
  <2>2. apiInstanceMetrics.history = ListInstanceMetrics(PageRows)
    BY DEF apiInstanceMetrics
  <2> QED
    BY <2>1, <2>2, PageOfRows DEF PruneInv, HistoryIsKept
<1> QED
  BY <1>1, <1>2, PruneKept, PTL DEF MetricsSpec

-----------------------------------------------------------------------------
(* The counters.  The sizes docker prints for a counter that grows are read *)
(* as numbers that grow.                                                    *)

Letters == {"T", "G", "M", "K", "k", "i", "B"}
\* A suffix is no longer than the text it ends, and every text ends with itself.
LEMMA SuffixLength ==
    ASSUME NEW s \in Seq(Letters), NEW t \in Seq(Letters)
    PROVE  (Len(s) > Len(t) => ~IsSuffix(s, t)) /\ IsSuffix(t, t)
<1>1. /\ Len(Reverse(s)) = Len(s) /\ Len(Reverse(t)) = Len(t)
      /\ Reverse(s) \in Seq(Letters) /\ Reverse(t) \in Seq(Letters)
  BY DEF Reverse
<1> QED
  BY <1>1 DEF IsSuffix, IsPrefix

\* Of two texts with two letters that begin differently, neither ends the other.
LEMMA OtherUnit ==
    ASSUME NEW s \in Seq(Letters), NEW t \in Seq(Letters), Len(s) = 2, Len(t) = 2, s[1] # t[1]
    PROVE  ~IsSuffix(s, t)
<1>1. /\ Len(Reverse(s)) = 2 /\ Len(Reverse(t)) = 2
      /\ Reverse(s) \in Seq(Letters) /\ Reverse(t) \in Seq(Letters)
      /\ Reverse(s)[2] = s[1] /\ Reverse(t)[2] = t[1]
  BY DEF Reverse
<1>2. \A q \in Seq(Letters) : Len(q) = 2 => SubSeq(q, 1, 2)[2] = q[2]
  OBVIOUS
<1> QED
  BY <1>1, <1>2 DEF IsSuffix, IsPrefix

SuffixOf(u) == UnitTable[u].suffix

\* The table has eight units.
LEMMA UnitNumbers == DOMAIN UnitTable = 1 .. 8
  BY SMT DEF UnitTable

\* The suffixes, with their lengths.
LEMMA SuffixTypes ==
    /\ \A u \in 1 .. 3 : SuffixOf(u) \in Seq(Letters) /\ Len(SuffixOf(u)) = 3
    /\ \A u \in 4 .. 7 : SuffixOf(u) \in Seq(Letters) /\ Len(SuffixOf(u)) = 2
    /\ SuffixOf(8) \in Seq(Letters) /\ Len(SuffixOf(8)) = 1
<1>1. /\ SuffixOf(1) = <<"G", "i", "B">> /\ SuffixOf(2) = <<"M", "i", "B">>
      /\ SuffixOf(3) = <<"K", "i", "B">>
  BY SMT DEF UnitTable, SuffixOf
<1>2. /\ SuffixOf(4) = <<"G", "B">> /\ SuffixOf(5) = <<"M", "B">>
      /\ SuffixOf(6) = <<"K", "B">> /\ SuffixOf(7) = <<"k", "B">>
      /\ SuffixOf(8) = <<"B">>
  BY SMT DEF UnitTable, SuffixOf
<1>4. \A a, b, c \in Letters :
        /\ <<a, b, c>> \in Seq(Letters) /\ Len(<<a, b, c>>) = 3
        /\ <<a, b>> \in Seq(Letters) /\ Len(<<a, b>>) = 2 /\ <<a>> \in Seq(Letters) /\ Len(<<a>>) = 1
  OBVIOUS
<1>5. "G" \in Letters /\ "M" \in Letters /\ "K" \in Letters /\ "k" \in Letters /\ "i" \in Letters /\ "B" \in Letters
  BY DEF Letters
<1>6. ASSUME NEW u \in 1 .. 3 PROVE SuffixOf(u) \in Seq(Letters) /\ Len(SuffixOf(u)) = 3
  <2>1. u = 1 \/ u = 2 \/ u = 3
    OBVIOUS
  <2>2. \E a, b, c \in Letters : SuffixOf(u) = <<a, b, c>>
    BY <1>1, <1>5, <2>1, Zenon
  <2> QED
    BY <1>4, <2>2
<1>7. ASSUME NEW u \in 4 .. 7 PROVE SuffixOf(u) \in Seq(Letters) /\ Len(SuffixOf(u)) = 2
  <2>1. u = 4 \/ u = 5 \/ u = 6 \/ u = 7
    OBVIOUS
  <2>2. \E a, b \in Letters : SuffixOf(u) = <<a, b>>
    BY <1>2, <1>5, <2>1, Zenon
  <2> QED
    BY <1>4, <2>2
<1>8. SuffixOf(8) \in Seq(Letters) /\ Len(SuffixOf(8)) = 1
  BY <1>2, <1>4, <1>5
<1> QED
  BY <1>6, <1>7, <1>8

\* What docker prints for a counter that grows is read as a number that grows, until
\* it is printed in terabytes.
LEMMA SizesGrow ==
    /\ parseSize(Readings[1]) \in Nat \ {0} /\ parseSize(Readings[2]) \in Nat \ {0}
    /\ parseSize(Readings[3]) \in Nat \ {0}
    /\ parseSize(Readings[1]) <= parseSize(Readings[2])
    /\ ~Tera(Readings[1]) /\ ~Tera(Readings[2]) /\ Tera(Readings[3])
<1> DEFINE fits(r) == {u \in 1 .. 8 : IsSuffix(SuffixOf(u), r.letters)}
<1>1. /\ Readings[1].n = 648 /\ Readings[1].letters = SuffixOf(8)
      /\ Readings[2].n = 2 /\ Readings[2].letters = SuffixOf(4)
      /\ Len(SuffixOf(8)) = 1
  BY SMT DEF Readings, Reading, UnitTable, SuffixOf
<1>2. 8 \in fits(Readings[1]) /\ 4 \in fits(Readings[2])
  <2>1. SuffixOf(4) \in Seq(Letters) /\ SuffixOf(8) \in Seq(Letters) /\ 4 \in 1 .. 8 /\ 8 \in 1 .. 8
    BY SuffixTypes
  <2>2. IsSuffix(SuffixOf(4), SuffixOf(4)) /\ IsSuffix(SuffixOf(8), SuffixOf(8))
    BY <2>1, SuffixLength
  <2> QED
    BY <1>1, <2>1, <2>2
<1>3. \A u \in 1 .. 3 : u \notin fits(Readings[1]) /\ u \notin fits(Readings[2])
  <2> SUFFICES ASSUME NEW u \in 1 .. 3
               PROVE  ~IsSuffix(SuffixOf(u), SuffixOf(8)) /\ ~IsSuffix(SuffixOf(u), SuffixOf(4))
    BY <1>1
  <2> DEFINE s == SuffixOf(u)
             t == SuffixOf(4)
             b == SuffixOf(8)
  <2>1. /\ s \in Seq(Letters) /\ Len(s) = 3 /\ t \in Seq(Letters) /\ Len(t) = 2
        /\ b \in Seq(Letters) /\ Len(b) = 1
    BY SuffixTypes
  <2> HIDE DEF s, t, b
  <2>2. Len(s) > Len(t) /\ Len(s) > Len(b)
    BY <2>1
  <2>3. ~IsSuffix(s, t) /\ ~IsSuffix(s, b)
    BY <2>1, <2>2, SuffixLength, Zenon
  <2> QED
    BY <2>3 DEF s, t, b
<1>4. \A u \in 4 .. 7 : u \notin fits(Readings[1])
  <2> SUFFICES ASSUME NEW u \in 4 .. 7 PROVE ~IsSuffix(SuffixOf(u), SuffixOf(8))
    BY <1>1
  <2> DEFINE s == SuffixOf(u)
             b == SuffixOf(8)
  <2>1. s \in Seq(Letters) /\ Len(s) = 2 /\ b \in Seq(Letters) /\ Len(b) = 1
    BY SuffixTypes
  <2> HIDE DEF s, b
  <2>2. Len(s) > Len(b)
    BY <2>1
  <2>3. ~IsSuffix(s, b)
    BY <2>1, <2>2, SuffixLength, Zenon
  <2> QED
    BY <2>3 DEF s, b
<1>5. \A r : fits(r) \subseteq 1 .. 8
  OBVIOUS
<1>11. Readings[3].n = 3 /\ Readings[3].letters = <<"T", "B">>
  BY SMT DEF Readings, Reading
<1>12. \A u \in 1 .. 7 : u \notin fits(Readings[3])
  <2> SUFFICES ASSUME NEW u \in 1 .. 7 PROVE ~IsSuffix(SuffixOf(u), <<"T", "B">>)
    BY <1>11
  <2> DEFINE s == SuffixOf(u)
             t == <<"T", "B">>
  <2>1. t \in Seq(Letters) /\ Len(t) = 2 /\ t[1] = "T"
    BY DEF Letters
  <2>2. CASE u \in 1 .. 3
    <3>1. s \in Seq(Letters) /\ Len(s) = 3
      BY <2>2, SuffixTypes
    <3> HIDE DEF s, t
    <3>2. Len(s) > Len(t)
      BY <2>1, <3>1
    <3>3. ~IsSuffix(s, t)
      BY <2>1, <3>1, <3>2, SuffixLength, Zenon
    <3> QED
      BY <3>3 DEF s, t
  <2>3. CASE u \in 4 .. 7
    <3>1. s \in Seq(Letters) /\ Len(s) = 2
      BY <2>3, SuffixTypes
    <3>2. s[1] # "T"
      <4>1. u = 4 \/ u = 5 \/ u = 6 \/ u = 7
        BY <2>3
      <4>2. SuffixOf(4)[1] = "G" /\ SuffixOf(5)[1] = "M" /\ SuffixOf(6)[1] = "K" /\ SuffixOf(7)[1] = "k"
        BY SMT DEF SuffixOf, UnitTable
      <4> QED
        BY <4>1, <4>2
    <3> HIDE DEF s, t
    <3>3. ~IsSuffix(s, t)
      BY <2>1, <3>1, <3>2, OtherUnit
    <3> QED
      BY <3>3 DEF s, t
  <2> QED
    BY <2>2, <2>3
<1>13. parseSize(Readings[3]) \in Nat \ {0}
  <2>1. CASE fits(Readings[3]) = {}
    BY <1>11, <2>1, UnitNumbers DEF parseSize, SuffixOf
  <2>2. CASE fits(Readings[3]) # {}
    <3>1. fits(Readings[3]) = {8}
      BY <1>5, <1>12, <2>2
    <3> HIDE DEF fits
    <3>2. Min(fits(Readings[3])) = 8
      BY <3>1 DEF Min
    <3>3. parseSize(Readings[3]) = 3 * UnitTable[8].multiplier
      BY <1>11, <3>1, <3>2, UnitNumbers DEF parseSize, fits, SuffixOf
    <3>4. UnitTable[8].multiplier = 1
      BY SMT DEF UnitTable
    <3> QED
      BY <3>3, <3>4
  <2> QED
    BY <2>1, <2>2
<1>14. ~Tera(Readings[1]) /\ ~Tera(Readings[2]) /\ Tera(Readings[3])
  BY SMT DEF Tera, Readings, Reading
<1> HIDE DEF fits
<1>6. Min(fits(Readings[1])) = 8
  BY <1>2, <1>3, <1>4, <1>5 DEF Min
<1>7. Min(fits(Readings[2])) = 4
  BY <1>2, <1>3, <1>5 DEF Min
<1>8. parseSize(Readings[1]) = 648 * UnitTable[8].multiplier
  BY <1>1, <1>2, <1>6, UnitNumbers DEF parseSize, fits, SuffixOf
<1>9. parseSize(Readings[2]) = 2 * UnitTable[4].multiplier
  BY <1>1, <1>2, <1>7, UnitNumbers DEF parseSize, fits, SuffixOf
<1>10. UnitTable[4].multiplier = 1000 * 1000 * 1000 /\ UnitTable[8].multiplier = 1
  BY SMT DEF UnitTable
<1> QED
  BY <1>8, <1>9, <1>10, <1>13, <1>14, SMT

\* What the parts of the model range over.
Samples == {None} \cup [run : Nat \ {0}, rx : Nat, tera : BOOLEAN]
Beat == [sample : Samples, os : Nat]
BeatHandler == [pc : {"recv", "cache", "insert", "node"}, sample : Samples, os : Nat]
Stream == [open : BOOLEAN, queue : Seq(Beat), handler : BeatHandler]
Containers == {c \in [run : Nat, up : BOOLEAN, rx : {1, 2, 3}] : c.up => c.run # 0}

BeatTypes ==
    /\ now \in Nat \ {0}
    /\ container \in Containers
    /\ streams \in [1 .. 2 -> Stream]
    /\ cache \in [sample : Samples, node : Nat] /\ export \in [sample : Samples, node : Nat]
    /\ \A r \in stored : r.sample \in Samples

\* Of two samples, and of two times, the second is not behind the first; the absence
\* of either is behind nothing, and in one run terabytes come last.
Before(a, b) ==
    a = None \/ b = None \/ a.run < b.run \/ (a.run = b.run /\ (b.tera \/ (~a.tera /\ a.rx <= b.rx)))
Sooner(t, u) == t = 0 \/ u = 0 \/ t <= u
Order(x, y) == Before(x.sample, y.sample) /\ Sooner(x.os, y.os)

\* What docker would print now, what is cached and what was told, as heartbeats.
Printed(c) == Sample(c.run, parseSize(Readings[c.rx]), Tera(Readings[c.rx]))
Latest == [sample |-> Printed(container), os |-> now]
Cached == [sample |-> cache.sample, os |-> cache.node]
Told == [sample |-> export.sample, os |-> export.node]

AfterTold(b) == Order(Told, b) /\ \A r \in stored : Before(r.sample, b.sample)
AfterCache(b) == AfterTold(b) /\ Order(Cached, b)

Busy == {s \in 1 .. 2 : ~At(s, "recv")}

Ahead(b) == AfterCache(b) /\ \A s \in Busy : Order(Handler(s), b)

\* Nothing is ahead of the container and of the clock, and a queue is in order.
LatestInv ==
    /\ AfterCache(Latest)
    /\ \A s \in 1 .. 2 : Order(Handler(s), Latest)
    /\ \A s \in 1 .. 2 : \A k \in DOMAIN streams[s].queue : Order(streams[s].queue[k], Latest)
    /\ \A s \in 1 .. 2 : \A j, k \in DOMAIN streams[s].queue :
          j < k => Order(streams[s].queue[j], streams[s].queue[k])

\* Told and stored, cached, handled and queued come in this order, as long as one
\* handler is at work at a time.
ChainInv ==
    /\ AfterTold(Cached)
    /\ \A s, t \in Busy : s = t
    /\ \A s \in Busy : AfterCache(Handler(s)) /\ (At(s, "insert") => Handler(s).sample = cache.sample)
    /\ \A t \in 1 .. 2 : \A k \in DOMAIN streams[t].queue : Ahead(streams[t].queue[k])

CountInv == BeatTypes /\ LatestInv /\ (overlapped \/ ChainInv)

\* What docker prints of a container is in range, and its figure is not zero.
LEMMA PrintedSample ==
    ASSUME NEW c \in Containers
    PROVE  /\ Printed(c).run = c.run /\ Printed(c).rx = parseSize(Readings[c.rx])
           /\ Printed(c).tera = Tera(Readings[c.rx])
           /\ Printed(c).rx \in Nat \ {0} /\ Printed(c) # None
           /\ c.up => Printed(c) \in Samples
<1> DEFINE p == parseSize(Readings[c.rx])
           r == c.run
           t == Tera(Readings[c.rx])
           x == [run |-> r, rx |-> p, tera |-> t]
<1>1. Printed(c) = x
  BY DEF Printed, Sample
<1>2. c.rx = 1 \/ c.rx = 2 \/ c.rx = 3
  BY DEF Containers
<1>3. p \in Nat \ {0}
  BY <1>2, SizesGrow
<1>4. r \in Nat /\ (c.up => r \in Nat \ {0}) /\ t \in BOOLEAN
  BY DEF Containers, Tera
<1> HIDE DEF p, r, t
<1>5. x.rx = p /\ x.run = r /\ x.tera = t
  OBVIOUS
<1>6. x # None
  BY <1>3, <1>5 DEF None, Sample
<1>7. c.up => x \in Samples
  BY <1>3, <1>4 DEF Samples
<1> QED
  BY <1>1, <1>3, <1>5, <1>6, <1>7 DEF p, r, t

\* So is what it prints now.
LEMMA LatestType ==
    ASSUME BeatTypes
    PROVE  /\ Latest.os = now /\ Latest.sample = Printed(container)
           /\ Latest.sample.rx \in Nat \ {0} /\ Latest.sample # None
           /\ container.up => Latest.sample \in Samples
  BY PrintedSample DEF Latest, BeatTypes

\* What a heartbeat brings is in range, and as far as all that was not ahead of now.
LEMMA NewBeat ==
    ASSUME BeatTypes, NEW b \in buildHeartbeatRequest
    PROVE  /\ b \in Beat /\ Order(b, Latest)
           /\ \A x : Order(x, Latest) => Order(x, b)
           /\ AfterCache(Latest) => AfterCache(b)
<1>1. PICK s \in Stats : b = [sample |-> s, os |-> now]
  BY DEF buildHeartbeatRequest, CollectOS
<1>2. s = None \/ (s = Latest.sample /\ container.up)
  BY DEF Stats, Latest, Printed
<1>3. s \in Samples /\ now \in Nat
  BY <1>2, LatestType DEF Samples, BeatTypes
<1>4. b \in Beat /\ b.sample = s /\ b.os = now
  BY <1>1, <1>3 DEF Beat
<1>5. Before(b.sample, Latest.sample) /\ \A x : Before(x, Latest.sample) => Before(x, b.sample)
  BY <1>2, <1>4, LatestType DEF Before
<1>6. Latest.os = b.os
  BY <1>4, LatestType
<1>7. Sooner(b.os, Latest.os)
  BY <1>3, <1>4, <1>6 DEF Sooner
<1> QED
  BY <1>4, <1>5, <1>6, <1>7 DEF Order, AfterCache, AfterTold

\* Nothing that was not ahead is ahead later.
Grown ==
    /\ BeatTypes /\ BeatTypes' /\ now <= now'
    /\ \/ container'.run > container.run
       \/ container'.run = container.run /\ container.rx <= container'.rx

\* What was not ahead of the container and the clock is not ahead of them later.
LEMMA LatestGrows ==
    ASSUME Grown PROVE \A x : x.sample \in Samples /\ x.os \in Nat /\ Order(x, Latest) => Order(x, Latest')
<1> SUFFICES ASSUME NEW x, x.sample \in Samples, x.os \in Nat, Order(x, Latest) PROVE Order(x, Latest')
  OBVIOUS
<1> DEFINE l == Printed(container)
           m == Printed(container')
<1>1. /\ l.run = container.run /\ l.rx = parseSize(Readings[container.rx]) /\ l.rx \in Nat \ {0} /\ l # None
      /\ m.run = container'.run /\ m.rx = parseSize(Readings[container'.rx]) /\ m.rx \in Nat \ {0}
      /\ l.tera = Tera(Readings[container.rx]) /\ m.tera = Tera(Readings[container'.rx])
  BY PrintedSample DEF Grown, BeatTypes
<1>2. Latest.sample = l /\ Latest.os = now /\ Latest'.sample = m /\ Latest'.os = now'
  BY DEF Latest
<1>3. /\ container.rx \in {1, 2, 3} /\ container'.rx \in {1, 2, 3}
      /\ container.run \in Nat /\ container'.run \in Nat /\ now \in Nat \ {0} /\ now' \in Nat \ {0}
  BY DEF Grown, BeatTypes, Containers
<1>4. l.run < m.run \/ (l.run = m.run /\ (m.tera \/ (~l.tera /\ l.rx <= m.rx)))
  <2>1. container'.run = container.run /\ container.rx <= container'.rx
            => m.tera \/ (~l.tera /\ l.rx <= m.rx)
    <3>1. (container.rx = 1 /\ container'.rx = 1) \/ (container.rx = 1 /\ container'.rx = 2)
          \/ (container.rx = 2 /\ container'.rx = 2) \/ container'.rx = 3 \/ ~(container.rx <= container'.rx)
      BY <1>3
    <3>2. container'.rx = 3 => m.tera
      BY <1>1, SizesGrow
    <3>3. /\ container.rx \in {1, 2} => ~l.tera
          /\ container.rx = 1 => l.rx = parseSize(Readings[1])
          /\ container.rx = 2 => l.rx = parseSize(Readings[2])
          /\ container'.rx = 1 => m.rx = parseSize(Readings[1])
          /\ container'.rx = 2 => m.rx = parseSize(Readings[2])
      BY <1>1, SizesGrow
    <3>4. parseSize(Readings[1]) <= parseSize(Readings[1]) /\ parseSize(Readings[2]) <= parseSize(Readings[2])
      BY SizesGrow
    <3> HIDE DEF l, m
    <3> QED
      BY <3>1, <3>2, <3>3, <3>4, SizesGrow
  <2> QED
    BY <1>1, <1>2, <1>3, <2>1 DEF Grown
<1> HIDE DEF l, m
<1>5. Before(x.sample, m)
  <2>1. CASE x.sample = None
    BY <2>1 DEF Before
  <2>2. CASE x.sample # None
    <3>1. x.sample.run \in Nat /\ x.sample.rx \in Nat
      BY <2>2 DEF Samples
    <3>2. \/ x.sample.run < l.run
          \/ x.sample.run = l.run /\ (l.tera \/ (~x.sample.tera /\ x.sample.rx <= l.rx))
      BY <1>1, <1>2, <2>2 DEF Order, Before
    <3>3. \/ x.sample.run < m.run
          \/ x.sample.run = m.run /\ (m.tera \/ (~x.sample.tera /\ x.sample.rx <= m.rx))
      <4> DEFINE far == x.sample.tera
                 had == l.tera
                 has == m.tera
      <4> HIDE DEF far, had, has
      <4> QED
        BY <1>1, <1>2, <1>3, <1>4, <3>1, <3>2 DEF far, had, has
    <3> QED
      BY <3>3 DEF Before
  <2> QED
    BY <2>1, <2>2
<1>6. Sooner(x.os, now')
  BY <1>2, <1>3 DEF Order, Sooner, Grown
<1> QED
  BY <1>2, <1>5, <1>6 DEF Order

\* Heartbeats, handled or queued, what is cached and what is told are in range.
LEMMA BeatRanges ==
    ASSUME BeatTypes
    PROVE  /\ \A s \in 1 .. 2 : /\ Handler(s) \in BeatHandler /\ Handler(s).sample \in Samples
                                /\ Handler(s).os \in Nat
           /\ \A s \in 1 .. 2 : /\ streams[s] \in Stream /\ streams[s].queue \in Seq(Beat)
                                /\ DOMAIN streams[s].queue = 1 .. Len(streams[s].queue)
                                /\ Len(streams[s].queue) \in Nat
           /\ \A s \in 1 .. 2 : \A k \in DOMAIN streams[s].queue :
                 LET b == streams[s].queue[k] IN b \in Beat /\ b.sample \in Samples /\ b.os \in Nat
           /\ Cached.sample = cache.sample /\ Cached.os = cache.node
           /\ Told.sample = export.sample /\ Told.os = export.node
           /\ {cache.sample, export.sample} \subseteq Samples /\ {cache.node, export.node} \subseteq Nat
<1>1. \A s \in 1 .. 2 : streams[s] \in Stream
  BY DEF BeatTypes
<1>2. \A s \in 1 .. 2 : Handler(s) \in BeatHandler /\ streams[s].queue \in Seq(Beat)
  BY <1>1 DEF Stream, Handler
<1>3. \A s \in 1 .. 2 : /\ DOMAIN streams[s].queue = 1 .. Len(streams[s].queue)
                        /\ Len(streams[s].queue) \in Nat
                        /\ \A k \in 1 .. Len(streams[s].queue) : streams[s].queue[k] \in Beat
  BY <1>2, LenProperties, ElementOfSeq
<1>4. \A b \in Beat \cup BeatHandler : b.sample \in Samples /\ b.os \in Nat
  BY DEF Beat, BeatHandler
<1>5. /\ Cached.sample = cache.sample /\ Cached.os = cache.node
      /\ Told.sample = export.sample /\ Told.os = export.node
  BY DEF Cached, Told
<1>6. {cache.sample, export.sample} \subseteq Samples /\ {cache.node, export.node} \subseteq Nat
  BY DEF BeatTypes
<1> QED
  BY <1>1, <1>2, <1>3, <1>4, <1>5, <1>6

\* Nothing is behind itself.
LEMMA Reflexive ==
    /\ \A a \in Samples : Before(a, a)
    /\ \A t \in Nat : Sooner(t, t)
<1>1. ASSUME NEW a \in Samples PROVE Before(a, a)
  <2>1. a = None \/ (a.rx \in Nat /\ a.tera \in BOOLEAN)
    BY DEF Samples
  <2> QED
    BY <2>1 DEF Before
<1> QED
  BY <1>1 DEF Sooner

\* The clock goes on, or the container does.
LEMMA ClockStep ==
    ASSUME CountInv, Grown, UNCHANGED <<streams, cache, export, stored, overlapped>>
    PROVE  CountInv'
<1>1. BeatTypes /\ LatestInv
  BY DEF CountInv
<1>2. BeatTypes' /\ Cached' = Cached /\ Told' = Told /\ Busy' = Busy
  BY DEF Grown, Cached, Told, Busy, At
<1>3. \A s : Handler(s)' = Handler(s)
  BY DEF Handler
<1>4. \A b : (AfterTold(b)' <=> AfterTold(b)) /\ (AfterCache(b)' <=> AfterCache(b)) /\ (Ahead(b)' <=> Ahead(b))
  BY <1>2, <1>3 DEF AfterTold, AfterCache, Ahead
<1>5. ChainInv => ChainInv'
  BY <1>2, <1>3, <1>4 DEF ChainInv, At
<1>6. AfterCache(Latest')
  <2>1. Order(Told, Latest') /\ Order(Cached, Latest')
    BY <1>1, BeatRanges, LatestGrows DEF LatestInv, AfterCache, AfterTold
  <2>2. ASSUME NEW r \in stored PROVE Before(r.sample, Latest'.sample)
    <3> DEFINE x == [sample |-> r.sample, os |-> 0]
    <3>1. x.sample \in Samples /\ x.os = 0 /\ x.sample = r.sample
      BY <1>1 DEF BeatTypes
    <3> HIDE DEF x
    <3>2. Order(x, Latest)
      BY <1>1, <3>1 DEF LatestInv, AfterCache, AfterTold, Order, Sooner
    <3> QED
      BY <3>1, <3>2, LatestGrows DEF Order
  <2> QED
    BY <2>1, <2>2 DEF AfterCache, AfterTold
<1>7. /\ \A s \in 1 .. 2 : Order(Handler(s), Latest')
      /\ \A s \in 1 .. 2 : \A k \in DOMAIN streams[s].queue : Order(streams[s].queue[k], Latest')
  BY <1>1, BeatRanges, LatestGrows DEF LatestInv
<1>8. LatestInv'
  <2>1. AfterCache(Latest)'
    BY <1>2, <1>6 DEF AfterCache, AfterTold
  <2> QED
    BY <1>1, <1>3, <1>7, <2>1 DEF LatestInv
<1> QED
  BY <1>2, <1>5, <1>8 DEF CountInv

\* A heartbeat is sent, or a stream opens with one or breaks: each queue has what it
\* had, or a part of it, or a new heartbeat at the end.
Queued ==
    \A s \in 1 .. 2 : /\ streams'[s].handler = streams[s].handler
                      /\ \A k \in DOMAIN streams'[s].queue :
                            \/ k \in DOMAIN streams[s].queue /\ streams'[s].queue[k] = streams[s].queue[k]
                            \/ k = Len(streams[s].queue) + 1 /\ streams'[s].queue[k] \in buildHeartbeatRequest

\* The queues stay in order, behind what is stored, told, cached and handled.
LEMMA QueueStep ==
    ASSUME CountInv, Queued, streams' \in [1 .. 2 -> Stream],
           UNCHANGED <<now, container, cache, export, stored, overlapped>>
    PROVE  CountInv'
<1>1. BeatTypes /\ LatestInv /\ BeatTypes'
  BY DEF CountInv, BeatTypes
<1>2. Cached' = Cached /\ Told' = Told /\ Latest' = Latest
  BY DEF Cached, Told, Latest
<1>3. \A s \in 1 .. 2 : Handler(s)' = Handler(s) /\ (\A pc : At(s, pc)' <=> At(s, pc))
  BY DEF Queued, Handler, At
<1>4. Busy' = Busy
  BY <1>3 DEF Busy
<1>5. \A b : (AfterTold(b)' <=> AfterTold(b)) /\ (AfterCache(b)' <=> AfterCache(b)) /\ (Ahead(b)' <=> Ahead(b))
  <2>1. Busy \subseteq 1 .. 2
    BY DEF Busy
  <2> QED
    BY <1>2, <1>3, <1>4, <2>1 DEF AfterTold, AfterCache, Ahead
<1>6. \A b \in buildHeartbeatRequest : Order(b, Latest) /\ Ahead(b) /\ \A x : Order(x, Latest) => Order(x, b)
  <2>1. \A s \in Busy : Order(Handler(s), Latest)
    BY <1>1 DEF LatestInv, Busy
  <2> QED
    BY <1>1, <2>1, NewBeat DEF LatestInv, Ahead
<1>7. ASSUME NEW s \in 1 .. 2, NEW k \in DOMAIN streams'[s].queue
      PROVE  Order(streams'[s].queue[k], Latest) /\ (ChainInv => Ahead(streams'[s].queue[k]))
  <2>1. CASE k \in DOMAIN streams[s].queue /\ streams'[s].queue[k] = streams[s].queue[k]
    BY <1>1, <2>1 DEF LatestInv, ChainInv
  <2>2. CASE streams'[s].queue[k] \in buildHeartbeatRequest
    BY <1>6, <2>2
  <2> QED
    BY <2>1, <2>2 DEF Queued
<1>8. ASSUME NEW s \in 1 .. 2, NEW j \in DOMAIN streams'[s].queue, NEW k \in DOMAIN streams'[s].queue, j < k
      PROVE  Order(streams'[s].queue[j], streams'[s].queue[k])
  <2> DEFINE n == Len(streams[s].queue)
             D == DOMAIN streams[s].queue
  <2>1. n \in Nat /\ D = 1 .. n
    BY <1>1, BeatRanges
  <2>2. /\ (j \in D /\ streams'[s].queue[j] = streams[s].queue[j]) \/ j = n + 1
        /\ \/ k \in D /\ streams'[s].queue[k] = streams[s].queue[k]
           \/ k = n + 1 /\ streams'[s].queue[k] \in buildHeartbeatRequest
    BY DEF Queued
  <2> HIDE DEF n, D
  <2>3. j \in D /\ streams'[s].queue[j] = streams[s].queue[j]
    BY <1>8, <2>1, <2>2
  <2>4. CASE k \in D /\ streams'[s].queue[k] = streams[s].queue[k]
    BY <1>1, <1>8, <2>3, <2>4 DEF LatestInv, D
  <2>5. CASE streams'[s].queue[k] \in buildHeartbeatRequest
    BY <1>1, <1>6, <2>3, <2>5 DEF LatestInv, D
  <2> QED
    BY <2>2, <2>4, <2>5
<1>9. LatestInv'
  BY <1>1, <1>2, <1>3, <1>5, <1>7, <1>8 DEF LatestInv
<1>10. ASSUME ChainInv PROVE ChainInv'
  <2>1. AfterTold(Cached)'
    BY <1>2, <1>5, <1>10 DEF ChainInv, AfterTold
  <2>2. \A s \in Busy : AfterCache(Handler(s))' /\ (At(s, "insert")' => Handler(s)'.sample = cache'.sample)
    <3>1. \A s \in Busy : s \in 1 .. 2 /\ AfterCache(Handler(s)) /\ (At(s, "insert") => Handler(s).sample = cache.sample)
      BY <1>10 DEF ChainInv, Busy
    <3>2. \A s \in Busy : Handler(s)' = Handler(s)
      BY <1>3, <3>1
    <3> QED
      BY <1>2, <1>3, <3>1, <3>2 DEF AfterCache, AfterTold
  <2>3. \A t \in 1 .. 2 : \A k \in DOMAIN streams'[t].queue : Ahead(streams[t].queue[k])'
    <3> SUFFICES ASSUME NEW t \in 1 .. 2, NEW k \in DOMAIN streams'[t].queue
                 PROVE  Ahead(streams[t].queue[k])'
      OBVIOUS
    <3>1. Ahead(streams'[t].queue[k])
      BY <1>7, <1>10
    <3>2. AfterCache(streams[t].queue[k])'
      BY <1>2, <3>1 DEF Ahead, AfterCache, AfterTold
    <3>3. \A s \in Busy : Order(Handler(s)', streams'[t].queue[k])
      BY <1>3, <3>1 DEF Ahead, Busy
    <3> QED
      BY <1>4, <3>2, <3>3 DEF Ahead
  <2> QED
    BY <1>4, <1>10, <2>1, <2>2, <2>3 DEF ChainInv
<1> QED
  BY <1>1, <1>9, <1>10 DEF CountInv

\* A stream on which nothing has arrived is in range.
LEMMA ClosedType == Closed \in Stream /\ Receiving \in BeatHandler /\ None \in Samples
<1>1. None \in Samples
  BY DEF Samples
<1>2. Receiving \in BeatHandler
  BY <1>1 DEF Receiving, BeatHandler
<1>3. <<>> \in Seq(Beat)
  OBVIOUS
<1> QED
  BY <1>1, <1>2, <1>3 DEF Closed, Stream

\* The steps of an agent's streams.
LEMMA SendSteps ==
    ASSUME CountInv, NEW s \in 1 .. 2, runHeartbeatStream(s) \/ SendHeartbeat(s) \/ BreakStream(s)
    PROVE  CountInv'
<1> DEFINE q == streams[s].queue
           n == Len(q)
<1>1. BeatTypes /\ streams \in [1 .. 2 -> Stream] /\ streams[s] \in Stream
  BY DEF CountInv, BeatTypes
<1>2. q \in Seq(Beat) /\ n \in Nat /\ DOMAIN q = 1 .. n
  BY <1>1, BeatRanges
<1> HIDE DEF q, n
<1>3. CASE runHeartbeatStream(s)
  <2>1. PICK b \in buildHeartbeatRequest :
          streams' = [streams EXCEPT ![s] = [Closed EXCEPT !.open = TRUE, !.queue = <<b>>]]
    BY <1>3 DEF runHeartbeatStream
  <2> DEFINE new == [Closed EXCEPT !.open = TRUE, !.queue = <<b>>]
  <2>2. b \in Beat /\ streams[s] = Closed
    BY <1>1, <1>3, <2>1, NewBeat DEF runHeartbeatStream
  <2>3. <<b>> \in Seq(Beat) /\ DOMAIN <<b>> = {1} /\ <<b>>[1] = b
    BY <2>2
  <2>4. new \in Stream /\ new.handler = Closed.handler /\ new.queue = <<b>>
    <3> DEFINE w == <<b>>
    <3>1. w \in Seq(Beat)
      BY <2>3
    <3> HIDE DEF w
    <3>2. [Closed EXCEPT !.open = TRUE, !.queue = w] \in Stream
      BY <3>1, ClosedType DEF Stream
    <3>3. /\ [Closed EXCEPT !.open = TRUE, !.queue = w].handler = Closed.handler
          /\ [Closed EXCEPT !.open = TRUE, !.queue = w].queue = w
      BY ClosedType DEF Stream
    <3> QED
      BY <3>2, <3>3 DEF w
  <2>5. q = <<>> /\ n = 0
    BY <2>2 DEF Closed, q, n
  <2> HIDE DEF new
  <2>6. streams' = [streams EXCEPT ![s] = new]
    BY <2>1 DEF new
  <2>7. streams' \in [1 .. 2 -> Stream] /\ streams'[s] = new /\ \A t \in 1 .. 2 : t # s => streams'[t] = streams[t]
    BY <1>1, <2>4, <2>6
  <2>8. Queued
    <3>1. ASSUME NEW k \in DOMAIN streams'[s].queue
          PROVE  k = Len(streams[s].queue) + 1 /\ streams'[s].queue[k] \in buildHeartbeatRequest
      BY <2>1, <2>3, <2>4, <2>5, <2>7, <3>1 DEF q, n
    <3> QED
      BY <2>2, <2>4, <2>7, <3>1 DEF Queued
  <2> QED
    BY <1>3, <2>7, <2>8, QueueStep DEF runHeartbeatStream
<1>4. CASE SendHeartbeat(s)
  <2>1. PICK b \in buildHeartbeatRequest : streams' = [streams EXCEPT ![s].queue = Append(@, b)]
    BY <1>4 DEF SendHeartbeat
  <2>2. b \in Beat
    BY <1>1, <2>1, NewBeat
  <2> DEFINE w == Append(q, b)
             new == [streams[s] EXCEPT !.queue = w]
  <2>3. /\ w \in Seq(Beat) /\ DOMAIN w = 1 .. n + 1 /\ w[n + 1] = b
        /\ \A k \in 1 .. n : w[k] = q[k]
    BY <1>2, <2>2 DEF n
  <2> HIDE DEF w
  <2>4. new \in Stream /\ new.handler = streams[s].handler /\ new.queue = w
    BY <1>1, <2>3 DEF Stream
  <2> HIDE DEF new
  <2>5. streams' = [streams EXCEPT ![s] = new]
    BY <1>1, <2>1 DEF new, w, q
  <2>6. streams' \in [1 .. 2 -> Stream] /\ streams'[s] = new /\ \A t \in 1 .. 2 : t # s => streams'[t] = streams[t]
    BY <1>1, <2>4, <2>5
  <2>7. Queued
    <3>1. ASSUME NEW k \in DOMAIN streams'[s].queue
          PROVE  \/ k \in DOMAIN streams[s].queue /\ streams'[s].queue[k] = streams[s].queue[k]
                 \/ k = Len(streams[s].queue) + 1 /\ streams'[s].queue[k] \in buildHeartbeatRequest
      <4>1. streams'[s].queue = w /\ k \in 1 .. n + 1
        BY <2>3, <2>4, <2>6, <3>1
      <4>2. CASE k \in 1 .. n
        BY <1>2, <2>3, <4>1, <4>2 DEF q
      <4>3. CASE k = n + 1
        BY <2>1, <2>3, <4>1, <4>3 DEF q, n
      <4> QED
        BY <1>2, <4>1, <4>2, <4>3
    <3> QED
      BY <2>4, <2>6, <3>1 DEF Queued
  <2> QED
    BY <1>4, <2>6, <2>7, QueueStep DEF SendHeartbeat
<1>5. CASE BreakStream(s)
  <2>1. PICK m \in 0 .. n : streams' = [streams EXCEPT ![s].open = FALSE, ![s].queue = SubSeq(@, 1, m)]
    BY <1>5 DEF BreakStream, n, q
  <2> DEFINE w == SubSeq(q, 1, m)
             new == [streams[s] EXCEPT !.open = FALSE, !.queue = w]
  <2>2. w \in Seq(Beat) /\ DOMAIN w = 1 .. m /\ \A k \in 1 .. m : w[k] = q[k]
    BY <1>2 DEF n
  <2> HIDE DEF w
  <2>3. new \in Stream /\ new.handler = streams[s].handler /\ new.queue = w
    BY <1>1, <2>2 DEF Stream
  <2> HIDE DEF new
  <2>4. streams' = [streams EXCEPT ![s] = new]
    BY <1>1, <2>1 DEF new, w, q
  <2>5. streams' \in [1 .. 2 -> Stream] /\ streams'[s] = new /\ \A t \in 1 .. 2 : t # s => streams'[t] = streams[t]
    BY <1>1, <2>3, <2>4
  <2>6. Queued
    <3>1. ASSUME NEW k \in DOMAIN streams'[s].queue
          PROVE  k \in DOMAIN streams[s].queue /\ streams'[s].queue[k] = streams[s].queue[k]
      BY <1>2, <2>2, <2>3, <2>5, <3>1 DEF q
    <3> QED
      BY <2>3, <2>5, <3>1 DEF Queued
  <2> QED
    BY <1>5, <2>5, <2>6, QueueStep DEF BreakStream
<1> QED
  BY <1>3, <1>4, <1>5

\* The handler of a stream goes on, and the queues stay.
Handles(s, h) ==
    /\ streams' \in [1 .. 2 -> Stream]
    /\ streams'[s].handler = h /\ \A t \in 1 .. 2 : t # s => streams'[t].handler = streams[t].handler
    /\ \A t \in 1 .. 2 : streams'[t].queue = streams[t].queue

\* A handler that is replaced, or goes to its next line, is all that changes.
LEMMA HandlerGoesOn ==
    ASSUME BeatTypes, NEW s \in 1 .. 2, NEW h \in BeatHandler,
           streams' = [streams EXCEPT ![s].handler = h]
    PROVE  Handles(s, h)
<1> DEFINE new == [streams[s] EXCEPT !.handler = h]
<1>1. streams \in [1 .. 2 -> Stream] /\ streams[s] \in Stream
  BY DEF BeatTypes
<1>2. new \in Stream /\ new.handler = h /\ new.queue = streams[s].queue
  BY <1>1 DEF Stream
<1> HIDE DEF new
<1>3. streams' = [streams EXCEPT ![s] = new]
  BY <1>1 DEF new
<1>4. streams' \in [1 .. 2 -> Stream] /\ streams'[s] = new /\ \A t \in 1 .. 2 : t # s => streams'[t] = streams[t]
  BY <1>1, <1>2, <1>3
<1> QED
  BY <1>2, <1>4 DEF Handles

\* The next line of a handler.
LEMMA NextLine ==
    ASSUME BeatTypes, NEW s \in 1 .. 2, NEW pc \in {"recv", "cache", "insert", "node"},
           streams' = [streams EXCEPT ![s].handler.pc = pc]
    PROVE  \E h \in BeatHandler : h.pc = pc /\ h.sample = Handler(s).sample /\ h.os = Handler(s).os /\ Handles(s, h)
<1> DEFINE h == [streams[s].handler EXCEPT !.pc = pc]
<1>1. streams \in [1 .. 2 -> Stream] /\ streams[s] \in Stream /\ streams[s].handler \in BeatHandler
  BY DEF BeatTypes, Stream
<1>2. h \in BeatHandler /\ h.pc = pc /\ h.sample = Handler(s).sample /\ h.os = Handler(s).os
  BY <1>1 DEF BeatHandler, Handler
<1> HIDE DEF h
<1>3. streams' = [streams EXCEPT ![s].handler = h]
  BY <1>1 DEF h
<1> QED
  BY <1>2, <1>3, HandlerGoesOn

\* What a change of caches and tables has to keep, for the order to stay.
LEMMA HandlerStep ==
    ASSUME CountInv, NEW s \in 1 .. 2, NEW h \in BeatHandler, Handles(s, h),
           BeatTypes', UNCHANGED <<now, container, overlapped>>,
           h.pc # "recv" => ~At(s, "recv") /\ h.sample = Handler(s).sample /\ h.os = Handler(s).os,
           h.pc = "recv" => h = Receiving,
           AfterCache(Latest)',
           ChainInv => /\ AfterTold(Cached)'
                       /\ h.pc # "recv" => AfterCache(h)' /\ (h.pc = "insert" => h.sample = cache'.sample)
                       /\ \A t \in 1 .. 2 : \A k \in DOMAIN streams[t].queue : AfterCache(streams[t].queue[k])',
           ~At(s, "recv")
    PROVE  CountInv'
<1>1. BeatTypes /\ LatestInv
  BY DEF CountInv
<1>2. Handler(s)' = h /\ \A t \in 1 .. 2 : t # s => Handler(t)' = Handler(t) /\ (\A pc : At(t, pc)' <=> At(t, pc))
  BY DEF Handles, Handler, At
<1>3. \A pc : At(s, pc)' <=> h.pc = pc
  BY DEF Handles, At
<1>4. Latest' = Latest
  BY DEF Latest
<1>5. Order(h, Latest)
  <2>1. CASE h.pc # "recv"
    BY <1>1, <2>1 DEF LatestInv, Order
  <2>2. CASE h.pc = "recv"
    BY <2>2 DEF Receiving, Order, Before, Sooner
  <2> QED
    BY <2>1, <2>2
<1>6. \A t \in 1 .. 2 : streams'[t].queue = streams[t].queue
  BY DEF Handles
<1>7. LatestInv'
  <2>1. \A t \in 1 .. 2 : Order(Handler(t)', Latest)
    BY <1>1, <1>2, <1>5 DEF LatestInv
  <2> QED
    BY <1>1, <1>4, <1>6, <2>1 DEF LatestInv
<1>8. ASSUME ChainInv PROVE ChainInv'
  <2>1. Busy = {s}
    BY <1>8 DEF ChainInv, Busy
  <2>2. \A t \in 1 .. 2 : t # s => At(t, "recv")
    BY <2>1 DEF Busy
  <2>3. Busy' = IF h.pc = "recv" THEN {} ELSE {s}
    BY <1>2, <1>3, <2>2 DEF Busy
  <2>4. \A t \in Busy' : t = s /\ h.pc # "recv"
    BY <2>3
  <2>5. \A t \in Busy' : AfterCache(Handler(t))' /\ (At(t, "insert")' => Handler(t)'.sample = cache'.sample)
    <3>1. ASSUME h.pc # "recv" PROVE AfterCache(Handler(s))' /\ (At(s, "insert")' => Handler(s)'.sample = cache'.sample)
      BY <1>2, <1>3, <1>8, <3>1 DEF AfterCache, AfterTold
    <3> QED
      BY <2>4, <3>1
  <2>6. ASSUME NEW t \in 1 .. 2, NEW k \in DOMAIN streams'[t].queue PROVE Ahead(streams[t].queue[k])'
    <3>1. k \in DOMAIN streams[t].queue /\ streams'[t].queue[k] = streams[t].queue[k]
      BY <1>6, <2>6
    <3>2. AfterCache(streams[t].queue[k])'
      BY <1>8, <3>1
    <3>3. Order(Handler(s), streams[t].queue[k])
      BY <1>8, <2>1, <3>1 DEF ChainInv, Ahead
    <3>4. h.pc # "recv" => Order(Handler(s)', streams'[t].queue[k])
      BY <1>2, <3>1, <3>3 DEF Order
    <3> QED
      BY <2>4, <3>2, <3>4 DEF Ahead
  <2>7. AfterTold(Cached)'
    BY <1>8
  <2> QED
    BY <2>4, <2>5, <2>6, <2>7 DEF ChainInv
<1> QED
  BY <1>7, <1>8 DEF CountInv

\* UpdateInstanceMetrics caches what its handler has, which is not behind the cache.
LEMMA CacheStep ==
    ASSUME CountInv, NEW s \in 1 .. 2, UpdateInstanceMetrics(s) PROVE CountInv'
<1>1. BeatTypes /\ LatestInv /\ At(s, "cache") /\ ~At(s, "recv")
  BY DEF CountInv, UpdateInstanceMetrics, At
<1>2. PICK h \in BeatHandler : h.pc = "insert" /\ h.sample = Handler(s).sample /\ h.os = Handler(s).os /\ Handles(s, h)
  BY <1>1, NextLine DEF UpdateInstanceMetrics
<1>3. h.sample \in Samples /\ h.os \in Nat
  BY DEF BeatHandler
<1>4. cache' = [cache EXCEPT !.sample = h.sample] /\ UNCHANGED <<now, container, overlapped, export, stored>>
  BY <1>2 DEF UpdateInstanceMetrics
<1>5. cache' \in [sample : Samples, node : Nat] /\ cache'.sample = h.sample /\ cache'.node = cache.node
  BY <1>1, <1>3, <1>4 DEF BeatTypes
<1>6. BeatTypes'
  BY <1>1, <1>2, <1>4, <1>5 DEF BeatTypes, Handles
<1>7. Cached'.sample = h.sample /\ Cached'.os = cache.node /\ Told' = Told /\ Latest' = Latest
  BY <1>4, <1>5 DEF Cached, Told, Latest
<1>8. ASSUME NEW b, AfterCache(b), Before(h.sample, b.sample) PROVE AfterCache(b)'
  BY <1>1, <1>4, <1>7, <1>8, BeatRanges DEF AfterCache, AfterTold, Order
<1>9. AfterCache(Latest)'
  <2>1. AfterCache(Latest) /\ Before(h.sample, Latest.sample)
    BY <1>1, <1>2 DEF LatestInv, Order
  <2> QED
    BY <1>7, <1>8, <2>1 DEF AfterCache, AfterTold
<1>10. ASSUME ChainInv
       PROVE  /\ AfterTold(Cached)'
              /\ AfterCache(h)'
              /\ \A t \in 1 .. 2 : \A k \in DOMAIN streams[t].queue : AfterCache(streams[t].queue[k])'
  <2>1. s \in Busy
    BY <1>1 DEF Busy
  <2>2. AfterCache(h) /\ AfterTold(Cached)
    BY <1>2, <1>10, <2>1 DEF ChainInv, AfterCache, AfterTold, Order
  <2>3. AfterTold(Cached)'
    <3>1. Before(Told.sample, h.sample) /\ Sooner(Told.os, cache.node) /\ \A r \in stored : Before(r.sample, h.sample)
      BY <1>1, <2>2, BeatRanges DEF AfterCache, AfterTold, Order
    <3> QED
      BY <1>4, <1>7, <3>1 DEF AfterTold, Order
  <2>4. AfterCache(h)'
    BY <1>3, <1>8, <2>2, Reflexive
  <2>5. ASSUME NEW t \in 1 .. 2, NEW k \in DOMAIN streams[t].queue
        PROVE  AfterCache(streams[t].queue[k]) /\ Before(h.sample, streams[t].queue[k].sample)
    BY <1>2, <1>10, <2>1 DEF ChainInv, Ahead, Order
  <2>6. \A t \in 1 .. 2 : streams'[t].queue = streams[t].queue
    BY <1>2 DEF Handles
  <2>7. ASSUME NEW t \in 1 .. 2, NEW k \in DOMAIN streams[t].queue PROVE AfterCache(streams[t].queue[k])'
    <3> DEFINE b == streams[t].queue[k]
    <3>1. AfterCache(b) /\ Before(h.sample, b.sample) /\ streams'[t].queue[k] = b
      BY <2>5, <2>6
    <3> QED
      BY <1>4, <1>7, <3>1, BeatRanges, <1>1 DEF AfterCache, AfterTold, Order
  <2> QED
    BY <2>3, <2>4, <2>7
<1> QED
  BY <1>1, <1>2, <1>4, <1>5, <1>6, <1>9, <1>10, HandlerStep

\* InsertInstanceMetrics stores a sample that is the cached one.
LEMMA InsertStep ==
    ASSUME CountInv, NEW s \in 1 .. 2, InsertInstanceMetrics(s) PROVE CountInv'
<1>1. BeatTypes /\ LatestInv /\ At(s, "insert") /\ ~At(s, "recv")
  BY DEF CountInv, InsertInstanceMetrics, At
<1>2. PICK h \in BeatHandler : h.pc = "node" /\ h.sample = Handler(s).sample /\ h.os = Handler(s).os /\ Handles(s, h)
  BY <1>1, NextLine DEF InsertInstanceMetrics
<1>3. h.sample \in Samples /\ h.os \in Nat
  BY DEF BeatHandler
<1>4. UNCHANGED <<now, container, overlapped, export, cache>>
  BY DEF InsertInstanceMetrics
<1>5. \A r \in stored' : r \in stored \/ r.sample = h.sample
  BY <1>2 DEF InsertInstanceMetrics
<1>6. BeatTypes'
  BY <1>1, <1>2, <1>3, <1>4, <1>5 DEF BeatTypes, Handles
<1>7. Cached' = Cached /\ Told' = Told /\ Latest' = Latest
  BY <1>4 DEF Cached, Told, Latest
<1>8. ASSUME NEW b, AfterTold(b), Before(h.sample, b.sample) PROVE AfterTold(b)'
  BY <1>5, <1>7, <1>8 DEF AfterTold
<1>9. AfterCache(Latest)'
  <2>1. AfterCache(Latest) /\ Before(h.sample, Latest.sample)
    BY <1>1, <1>2 DEF LatestInv, Order
  <2> QED
    BY <1>5, <1>7, <2>1 DEF AfterCache, AfterTold
<1>10. ASSUME ChainInv
       PROVE  /\ AfterTold(Cached)'
              /\ AfterCache(h)'
              /\ \A t \in 1 .. 2 : \A k \in DOMAIN streams[t].queue : AfterCache(streams[t].queue[k])'
  <2>1. s \in Busy
    BY <1>1 DEF Busy
  <2>2. AfterCache(h) /\ AfterTold(Cached) /\ h.sample = cache.sample
    BY <1>1, <1>2, <1>10, <2>1 DEF ChainInv, AfterCache, AfterTold, Order
  <2>3. AfterTold(Cached)'
    <3>1. Before(h.sample, Cached.sample)
      BY <1>3, <2>2, Reflexive DEF Cached
    <3> QED
      BY <1>5, <1>7, <2>2, <3>1 DEF AfterTold
  <2>4. AfterCache(h)'
    BY <1>3, <1>7, <1>8, <2>2, Reflexive DEF AfterCache
  <2>5. \A t \in 1 .. 2 : streams'[t].queue = streams[t].queue
    BY <1>2 DEF Handles
  <2>6. ASSUME NEW t \in 1 .. 2, NEW k \in DOMAIN streams[t].queue PROVE AfterCache(streams[t].queue[k])'
    <3> DEFINE b == streams[t].queue[k]
    <3>1. AfterCache(b) /\ Before(h.sample, b.sample) /\ streams'[t].queue[k] = b
      BY <1>2, <1>10, <2>1, <2>5 DEF ChainInv, Ahead, Order
    <3> QED
      BY <1>5, <1>7, <3>1 DEF AfterCache, AfterTold
  <2> QED
    BY <2>3, <2>4, <2>6
<1> QED
  BY <1>1, <1>2, <1>4, <1>6, <1>9, <1>10, HandlerStep

\* UpdateNodeMetrics caches the node's figures, and its handler is done.
LEMMA NodeStep ==
    ASSUME CountInv, NEW s \in 1 .. 2, UpdateNodeMetrics(s) PROVE CountInv'
<1> DEFINE u == Handler(s).os
<1>1. BeatTypes /\ LatestInv /\ At(s, "node") /\ ~At(s, "recv") /\ u \in Nat
  BY BeatRanges DEF CountInv, UpdateNodeMetrics, At
<1>2. Handles(s, Receiving) /\ Receiving \in BeatHandler /\ Receiving.pc = "recv"
  <2>1. Receiving \in BeatHandler /\ Receiving.pc = "recv"
    BY ClosedType DEF Receiving
  <2> QED
    BY <1>1, <2>1, HandlerGoesOn DEF UpdateNodeMetrics
<1>3. cache' = [cache EXCEPT !.node = u] /\ UNCHANGED <<now, container, overlapped, export, stored>>
  BY DEF UpdateNodeMetrics
<1> HIDE DEF u
<1>4. cache' \in [sample : Samples, node : Nat] /\ cache'.sample = cache.sample /\ cache'.node = u
  BY <1>1, <1>3 DEF BeatTypes
<1>5. BeatTypes'
  BY <1>1, <1>2, <1>3, <1>4 DEF BeatTypes, Handles
<1>6. Cached'.sample = cache.sample /\ Cached'.os = u /\ Told' = Told /\ Latest' = Latest
  BY <1>3, <1>4 DEF Cached, Told, Latest
<1>7. AfterCache(Latest)'
  <2>1. AfterCache(Latest) /\ Sooner(u, Latest.os)
    BY <1>1 DEF LatestInv, Order, u
  <2> QED
    BY <1>1, <1>3, <1>6, <2>1, BeatRanges DEF AfterCache, AfterTold, Order
<1>8. ASSUME ChainInv
      PROVE  /\ AfterTold(Cached)'
             /\ \A t \in 1 .. 2 : \A k \in DOMAIN streams[t].queue : AfterCache(streams[t].queue[k])'
  <2>1. s \in Busy
    BY <1>1 DEF Busy
  <2>2. AfterTold(Cached)'
    <3>1. Sooner(Told.os, u) /\ Before(Told.sample, cache.sample) /\ \A r \in stored : Before(r.sample, cache.sample)
      BY <1>1, <1>8, <2>1, BeatRanges DEF ChainInv, AfterCache, AfterTold, Order, u
    <3> QED
      BY <1>3, <1>6, <3>1 DEF AfterTold, Order
  <2>3. \A t \in 1 .. 2 : streams'[t].queue = streams[t].queue
    BY <1>2 DEF Handles
  <2>4. ASSUME NEW t \in 1 .. 2, NEW k \in DOMAIN streams[t].queue PROVE AfterCache(streams[t].queue[k])'
    <3> DEFINE b == streams[t].queue[k]
    <3>1. AfterCache(b) /\ Sooner(u, b.os) /\ streams'[t].queue[k] = b
      BY <1>8, <2>1, <2>3 DEF ChainInv, Ahead, Order, u
    <3> QED
      BY <1>1, <1>3, <1>6, <3>1, BeatRanges DEF AfterCache, AfterTold, Order
  <2> QED
    BY <2>2, <2>4
<1> QED
  BY <1>1, <1>2, <1>3, <1>5, <1>7, <1>8, HandlerStep

\* A heartbeat is taken from the queue.
LEMMA ReceiveStep ==
    ASSUME CountInv, NEW s \in 1 .. 2, Receive(s) PROVE CountInv'
<1> DEFINE q == streams[s].queue
           n == Len(q)
           b == Head(q)
           w == Tail(q)
           h == [pc |-> IF b.sample = None THEN "node" ELSE "cache", sample |-> b.sample, os |-> b.os]
           new == [streams[s] EXCEPT !.queue = w, !.handler = h]
<1>1. BeatTypes /\ LatestInv /\ At(s, "recv") /\ streams \in [1 .. 2 -> Stream] /\ streams[s] \in Stream
  BY DEF CountInv, BeatTypes, Receive
<1>2. q \in Seq(Beat) /\ q # <<>> /\ n \in Nat /\ DOMAIN q = 1 .. n
  BY <1>1, BeatRanges DEF Receive
<1>3. /\ b = q[1] /\ b \in Beat /\ 1 \in DOMAIN q
      /\ w \in Seq(Beat) /\ DOMAIN w = 1 .. n - 1 /\ \A k \in 1 .. n - 1 : w[k] = q[k + 1] /\ k + 1 \in DOMAIN q
  <2>1. n >= 1
    BY <1>2 DEF n
  <2> QED
    BY <1>2, <2>1 DEF n
<1>4. streams' = [streams EXCEPT ![s] = new]
  BY <1>1 DEF Receive
<1>5. UNCHANGED <<now, container, cache, stored, export>>
  BY DEF Receive
<1>6. overlapped' \/ (~overlapped /\ \A t \in 1 .. 2 \ {s} : At(t, "recv") /\ streams[t].queue = <<>>)
  BY DEF Receive
<1> HIDE DEF n, w, b
<1>7. h \in BeatHandler /\ h.sample = b.sample /\ h.os = b.os /\ h.pc \in {"node", "cache"}
  <2>1. b.sample \in Samples /\ b.os \in Nat
    BY <1>3 DEF Beat
  <2> QED
    BY <2>1 DEF BeatHandler
<1> HIDE DEF h
<1>8. new \in Stream /\ new.queue = w /\ new.handler = h
  BY <1>1, <1>3, <1>7 DEF Stream
<1> HIDE DEF new, q
<1>9. streams' \in [1 .. 2 -> Stream] /\ streams'[s] = new /\ \A t \in 1 .. 2 : t # s => streams'[t] = streams[t]
  BY <1>1, <1>4, <1>8
<1>10. BeatTypes' /\ Cached' = Cached /\ Told' = Told /\ Latest' = Latest
  BY <1>1, <1>5, <1>9 DEF BeatTypes, Cached, Told, Latest
<1>11. /\ Handler(s)' = h /\ (\A pc : At(s, pc)' <=> h.pc = pc)
       /\ \A t \in 1 .. 2 : t # s => Handler(t)' = Handler(t) /\ (\A pc : At(t, pc)' <=> At(t, pc))
  BY <1>8, <1>9 DEF Handler, At
<1>12. LatestInv'
  <2>1. AfterCache(Latest)'
    BY <1>1, <1>5, <1>10 DEF LatestInv, AfterCache, AfterTold
  <2>2. Order(h, Latest)
    BY <1>1, <1>3, <1>7 DEF LatestInv, Order, q
  <2>3. \A k \in 1 .. n - 1 : Order(w[k], Latest)
    BY <1>1, <1>3 DEF LatestInv, q
  <2>4. ASSUME NEW j \in 1 .. n - 1, NEW k \in 1 .. n - 1, j < k PROVE Order(w[j], w[k])
    <3>1. j + 1 < k + 1 /\ j + 1 \in DOMAIN q /\ k + 1 \in DOMAIN q
      BY <1>2, <1>3, <2>4
    <3>2. Order(q[j + 1], q[k + 1])
      BY <1>1, <3>1 DEF LatestInv, q
    <3> QED
      BY <1>3, <3>2
  <2>5. \A t \in 1 .. 2 : Order(Handler(t)', Latest)
    BY <1>1, <1>11, <2>2 DEF LatestInv
  <2>6. \A t \in 1 .. 2 : \A k \in DOMAIN streams'[t].queue : Order(streams'[t].queue[k], Latest)
    BY <1>1, <1>3, <1>8, <1>9, <2>3 DEF LatestInv
  <2>7. \A t \in 1 .. 2 : \A j, k \in DOMAIN streams'[t].queue : j < k => Order(streams'[t].queue[j], streams'[t].queue[k])
    BY <1>1, <1>3, <1>8, <1>9, <2>4 DEF LatestInv
  <2> QED
    BY <1>10, <2>1, <2>5, <2>6, <2>7 DEF LatestInv
<1>13. ASSUME ~overlapped' PROVE ChainInv'
  <2>1. ChainInv /\ \A t \in 1 .. 2 : t # s => At(t, "recv") /\ streams[t].queue = <<>>
    BY <1>6, <1>13 DEF CountInv
  <2>2. Busy' = {s}
    BY <1>7, <1>11, <2>1 DEF Busy
  <2>4. \A k \in DOMAIN q : AfterCache(q[k])
    BY <2>1 DEF ChainInv, Ahead, q
  <2>5. AfterCache(Handler(s))'
    <3>1. AfterCache(b) /\ b = q[1]
      BY <1>3, <2>4
    <3>2. Handler(s)'.sample = b.sample /\ Handler(s)'.os = b.os
      BY <1>7, <1>11
    <3> QED
      BY <1>5, <1>10, <3>1, <3>2 DEF AfterCache, AfterTold, Order
  <2>6. ASSUME NEW t \in 1 .. 2, NEW k \in DOMAIN streams'[t].queue PROVE Ahead(streams[t].queue[k])'
    <3>1. t = s /\ k \in 1 .. n - 1 /\ streams'[t].queue[k] = q[k + 1] /\ k + 1 \in DOMAIN q
      <4>1. t = s
        BY <1>9, <2>1, <2>6
      <4> QED
        BY <1>3, <1>8, <1>9, <2>6, <4>1
    <3>2. Order(h, q[k + 1])
      <4>1. 1 < k + 1
        BY <1>2, <3>1
      <4>2. Order(q[1], q[k + 1])
        BY <1>1, <1>3, <3>1, <4>1 DEF LatestInv, q
      <4> QED
        BY <1>3, <1>7, <4>2 DEF Order
    <3>3. AfterCache(streams[t].queue[k])'
      BY <1>5, <1>10, <2>4, <3>1 DEF AfterCache, AfterTold
    <3> QED
      BY <1>11, <2>2, <3>1, <3>2, <3>3 DEF Ahead
  <2>7. AfterTold(Cached)'
    BY <1>5, <1>10, <2>1 DEF ChainInv, AfterTold
  <2>8. \A t \in Busy' : AfterCache(Handler(t))' /\ (At(t, "insert")' => Handler(t)'.sample = cache'.sample)
    BY <1>7, <1>11, <2>2, <2>5
  <2> QED
    BY <2>2, <2>6, <2>7, <2>8 DEF ChainInv
<1> QED
  BY <1>10, <1>12, <1>13 DEF CountInv

\* A pruning takes rows away.
LEMMA PruneStep ==
    ASSUME CountInv, instanceMetricsPruneLoop PROVE CountInv'
<1>1. stored' \subseteq stored /\ UNCHANGED <<now, container, streams, cache, export, overlapped>>
  BY DEF instanceMetricsPruneLoop, PruneInstanceMetrics
<1>2. BeatTypes /\ LatestInv /\ BeatTypes'
  BY <1>1 DEF CountInv, BeatTypes
<1>3. Cached' = Cached /\ Told' = Told /\ Latest' = Latest /\ Busy' = Busy
  BY <1>1 DEF Cached, Told, Latest, Busy, At
<1>4. \A s : Handler(s)' = Handler(s)
  BY <1>1 DEF Handler
<1>5. LatestInv'
  <2>1. AfterCache(Latest)'
    BY <1>1, <1>2, <1>3 DEF LatestInv, AfterTold, AfterCache
  <2> QED
    BY <1>1, <1>2, <1>3, <1>4, <2>1 DEF LatestInv
<1>6. ASSUME ChainInv PROVE ChainInv'
  <2>1. AfterTold(Cached)'
    BY <1>1, <1>3, <1>6 DEF ChainInv, AfterTold
  <2>2. \A s \in Busy : AfterCache(Handler(s))' /\ (At(s, "insert")' => Handler(s)'.sample = cache'.sample)
    <3>1. \A s : At(s, "insert")' <=> At(s, "insert")
      BY <1>1 DEF At
    <3>2. \A s \in Busy : AfterCache(Handler(s)) /\ (At(s, "insert") => Handler(s).sample = cache.sample)
      BY <1>6 DEF ChainInv
    <3> QED
      BY <1>1, <1>3, <1>4, <3>1, <3>2 DEF AfterTold, AfterCache
  <2>3. \A t \in 1 .. 2 : \A k \in DOMAIN streams[t].queue : Ahead(streams[t].queue[k])'
    BY <1>1, <1>3, <1>4, <1>6 DEF ChainInv, Ahead, AfterTold, AfterCache
  <2> QED
    BY <1>1, <1>3, <1>6, <2>1, <2>2, <2>3 DEF ChainInv
<1> QED
  BY <1>1, <1>2, <1>5, <1>6 DEF CountInv

\* What is told is what is cached, or nothing is told.
LEMMA TellStep ==
    ASSUME CountInv, export' = cache, UNCHANGED <<now, container, streams, cache, stored, overlapped>>
    PROVE  CountInv'
<1>1. BeatTypes /\ LatestInv /\ BeatTypes'
  BY DEF CountInv, BeatTypes
<1>2. Cached' = Cached /\ Told' = Cached /\ Latest' = Latest /\ Busy' = Busy
  BY DEF Cached, Told, Latest, Busy, At
<1>3. \A s : Handler(s)' = Handler(s)
  BY DEF Handler
<1>4. LatestInv'
  <2>1. AfterCache(Latest)'
    BY <1>1, <1>2 DEF LatestInv, AfterTold, AfterCache
  <2> QED
    BY <1>1, <1>2, <1>3, <2>1 DEF LatestInv
<1>5. ASSUME ChainInv PROVE ChainInv'
  <2>1. AfterTold(Cached)'
    <3>1. Order(Cached, Cached)
      BY <1>1, BeatRanges, Reflexive DEF Order
    <3> QED
      BY <1>2, <1>5, <3>1 DEF ChainInv, AfterTold
  <2>2. \A s \in Busy : AfterCache(Handler(s))' /\ (At(s, "insert")' => Handler(s)'.sample = cache'.sample)
    <3>1. \A s : At(s, "insert")' <=> At(s, "insert")
      BY DEF At
    <3>2. \A s \in Busy : AfterCache(Handler(s)) /\ (At(s, "insert") => Handler(s).sample = cache.sample)
      BY <1>5 DEF ChainInv
    <3> QED
      BY <1>2, <1>3, <3>1, <3>2 DEF AfterTold, AfterCache
  <2>3. \A t \in 1 .. 2 : \A k \in DOMAIN streams[t].queue : Ahead(streams[t].queue[k])'
    BY <1>2, <1>3, <1>5 DEF ChainInv, Ahead, AfterTold, AfterCache
  <2> QED
    BY <1>2, <1>5, <2>1, <2>2, <2>3 DEF ChainInv
<1> QED
  BY <1>1, <1>4, <1>5 DEF CountInv

\* Two streams on which nothing has arrived.
LEMMA ClosedStreams ==
    /\ <<Closed, Closed>> \in [1 .. 2 -> Stream]
    /\ \A s \in 1 .. 2 : <<Closed, Closed>>[s].queue = <<>> /\ <<Closed, Closed>>[s].handler = Receiving
<1>1. \A s \in 1 .. 2 : <<Closed, Closed>>[s] = Closed
  OBVIOUS
<1>2. Closed.queue = <<>> /\ Closed.handler = Receiving
  BY DEF Closed
<1>3. \A c \in Stream : <<c, c>> \in [1 .. 2 -> Stream]
  OBVIOUS
<1>4. <<Closed, Closed>> \in [1 .. 2 -> Stream]
  BY <1>3, ClosedType
<1> QED
  BY <1>1, <1>2, <1>4

\* A restarted master has heard nothing.
LEMMA FreshMaster ==
    ASSUME BeatTypes, LatestInv, streams' = <<Closed, Closed>>, cache' = [sample |-> None, node |-> 0],
           UNCHANGED <<now, container, stored, export>>
    PROVE  CountInv'
<1>1. /\ streams' \in [1 .. 2 -> Stream]
      /\ \A s \in 1 .. 2 : streams'[s].queue = <<>> /\ streams'[s].handler = Receiving
  BY ClosedStreams
<1>2. Receiving.pc = "recv" /\ Receiving.sample = None /\ Receiving.os = 0
  BY DEF Receiving
<1>3. cache' \in [sample : Samples, node : Nat] /\ cache'.sample = None /\ cache'.node = 0
  BY ClosedType
<1>4. BeatTypes'
  BY <1>1, <1>3 DEF BeatTypes
<1>5. Busy' = {} /\ \A s \in 1 .. 2 : Handler(s)' = Receiving
  BY <1>1, <1>2 DEF Busy, At, Handler
<1>6. Cached'.sample = None /\ Cached'.os = 0 /\ Told' = Told /\ Latest' = Latest
  BY <1>3 DEF Cached, Told, Latest
<1>7. LatestInv'
  <2>1. AfterCache(Latest)'
    BY <1>6 DEF LatestInv, AfterTold, AfterCache, Order, Before, Sooner
  <2>2. \A s \in 1 .. 2 : Order(Handler(s)', Latest')
    BY <1>2, <1>5 DEF Order, Before, Sooner
  <2> QED
    BY <1>1, <2>1, <2>2 DEF LatestInv
<1>8. ChainInv'
  <2>1. AfterTold(Cached)'
    BY <1>6 DEF AfterTold, Order, Before, Sooner
  <2> QED
    BY <1>1, <1>5, <2>1 DEF ChainInv
<1> QED
  BY <1>4, <1>7, <1>8 DEF CountInv

\* At the start nothing was heard.
LEMMA CountInit == MetricsInit => CountInv
<1> SUFFICES ASSUME MetricsInit PROVE CountInv
  OBVIOUS
<1>1. /\ streams \in [1 .. 2 -> Stream]
      /\ \A s \in 1 .. 2 : streams[s].queue = <<>> /\ streams[s].handler = Receiving
  BY ClosedStreams DEF MetricsInit
<1>2. Receiving.pc = "recv" /\ Receiving.sample = None /\ Receiving.os = 0
  BY DEF Receiving
<1>3. /\ cache \in [sample : Samples, node : Nat] /\ cache.sample = None /\ cache.node = 0
      /\ export = cache /\ stored = {} /\ now = 1
  BY ClosedType DEF MetricsInit
<1>4. BeatTypes
  <2>1. container \in Containers
    BY DEF Containers, MetricsInit
  <2> QED
    BY <1>1, <1>3, <2>1 DEF BeatTypes
<1>5. Busy = {} /\ \A s \in 1 .. 2 : Handler(s) = Receiving
  BY <1>1, <1>2 DEF Busy, At, Handler
<1>6. Cached.sample = None /\ Cached.os = 0 /\ Told.sample = None /\ Told.os = 0
  BY <1>3 DEF Cached, Told
<1>7. LatestInv
  <2>1. AfterCache(Latest)
    BY <1>3, <1>6 DEF AfterTold, AfterCache, Order, Before, Sooner
  <2>2. \A s \in 1 .. 2 : Order(Handler(s), Latest)
    BY <1>2, <1>5 DEF Order, Before, Sooner
  <2> QED
    BY <1>1, <2>1, <2>2 DEF LatestInv
<1>8. ChainInv
  <2>1. AfterTold(Cached)
    BY <1>3, <1>6 DEF AfterTold, Order, Before, Sooner
  <2> QED
    BY <1>1, <1>5, <2>1 DEF ChainInv
<1> QED
  BY <1>4, <1>7, <1>8 DEF CountInv

\* A container that starts, grows or stops, and the clock, do not go back.
LEMMA ContainerSteps ==
    ASSUME CountInv, StartContainer \/ Grow \/ StopContainer \/ TimePasses
    PROVE  CountInv'
<1>1. BeatTypes /\ container \in Containers /\ now \in Nat \ {0}
  BY DEF CountInv, BeatTypes
<1>2. UNCHANGED <<streams, cache, export, stored, overlapped>>
  <2>1. StartContainer => UNCHANGED <<streams, cache, export, stored, overlapped>>
    BY DEF StartContainer
  <2>2. Grow => UNCHANGED <<streams, cache, export, stored, overlapped>>
    BY DEF Grow
  <2>3. StopContainer => UNCHANGED <<streams, cache, export, stored, overlapped>>
    BY DEF StopContainer
  <2>4. TimePasses => UNCHANGED <<streams, cache, export, stored, overlapped>>
    BY DEF TimePasses
  <2> QED
    BY <2>1, <2>2, <2>3, <2>4
<1>3. container.run \in Nat /\ container.rx \in {1, 2, 3} /\ (container.up => container.run # 0)
  BY <1>1 DEF Containers
<1>4. /\ container' \in Containers /\ now' \in Nat \ {0} /\ now <= now'
      /\ \/ container'.run > container.run
         \/ container'.run = container.run /\ container.rx <= container'.rx
  <2>1. CASE StartContainer
    <3> DEFINE r == container.run + 1
    <3>1. container' = [run |-> r, up |-> TRUE, rx |-> 1] /\ now' = now
      BY <2>1 DEF StartContainer
    <3>2. r \in Nat \ {0} /\ r > container.run
      BY <1>3
    <3> HIDE DEF r
    <3>3. container' \in Containers /\ container'.run = r
      BY <3>1, <3>2 DEF Containers
    <3> QED
      BY <1>1, <3>1, <3>2, <3>3
  <2>2. CASE Grow
    <3> DEFINE x == container.rx + 1
    <3>1. container' = [container EXCEPT !.rx = x] /\ now' = now
      BY <2>2 DEF Grow
    <3>2. x \in {2, 3} /\ container.rx <= x
      <4>1. container.rx < Len(Readings) /\ Len(Readings) = 3
        BY <2>2 DEF Grow, Readings
      <4> QED
        BY <1>3, <4>1
    <3> HIDE DEF x
    <3>3. container' \in Containers /\ container'.run = container.run /\ container'.rx = x
      BY <1>1, <3>1, <3>2 DEF Containers
    <3> QED
      BY <1>1, <1>3, <3>1, <3>2, <3>3
  <2>3. CASE StopContainer
    <3>1. container' = [container EXCEPT !.up = FALSE] /\ now' = now
      BY <2>3 DEF StopContainer
    <3>2. container' \in Containers /\ container'.run = container.run /\ container'.rx = container.rx
      BY <1>1, <3>1 DEF Containers
    <3> QED
      BY <1>1, <1>3, <3>1, <3>2
  <2>4. CASE TimePasses
    BY <1>1, <1>3, <2>4 DEF TimePasses
  <2> QED
    BY <2>1, <2>2, <2>3, <2>4
<1>5. BeatTypes'
  BY <1>1, <1>2, <1>4 DEF BeatTypes
<1>6. Grown
  BY <1>1, <1>4, <1>5 DEF Grown
<1> QED
  BY <1>2, <1>6, ClockStep

\* An exporter tells what is cached.
LEMMA TellIsCache == ASSUME BeatTypes, Tell PROVE export' = cache
  BY DEF BeatTypes, Tell, NodeSnapshots, InstanceSnapshots

\* Every step keeps the order.
LEMMA CountKept == CountInv /\ [MetricsNext]_metricsVars => CountInv'
<1> SUFFICES ASSUME CountInv, [MetricsNext]_metricsVars PROVE CountInv'
  OBVIOUS
<1>1. BeatTypes /\ LatestInv
  BY DEF CountInv
<1>2. ASSUME UNCHANGED <<now, container, streams, cache, stored, export, overlapped>> PROVE CountInv'
  BY <1>2 DEF CountInv, BeatTypes, LatestInv, ChainInv, Ahead, AfterCache, AfterTold, Busy, Handler, At,
     Latest, Cached, Told
<1>3. ASSUME writeProm \/ pushOnce PROVE CountInv'
  <2>1. UNCHANGED <<now, container, streams, cache, stored, overlapped>> /\ (Tell \/ UNCHANGED export)
    BY <1>3 DEF writeProm, pushOnce
  <2> QED
    BY <1>1, <1>2, <2>1, TellIsCache, TellStep
<1>4. ASSUME RestartMaster PROVE CountInv'
  BY <1>1, <1>4, FreshMaster DEF RestartMaster
<1>5. CASE UNCHANGED metricsVars
  BY <1>2, <1>5 DEF metricsVars
<1> QED
  BY <1>3, <1>4, <1>5, SendSteps, ReceiveStep, CacheStep, InsertStep, NodeStep, PruneStep, ContainerSteps
     DEF MetricsNext

\* For all periods and ages and however many streams break and restarts there are: as
\* long as no handler of an old stream is overtaken, what the exporters tell of a run
\* of the container never goes back but to a figure in terabytes, neither does the age of the node's metrics, and
\* the page's current sample, unless in terabytes, is not behind its history (parseSize,
\* UpdateInstanceMetrics, InsertInstanceMetrics, writeProm).
THEOREM CountersStayGrowing == MetricsSpec => CountersGrow
<1> DEFINE Both == CountInv /\ PruneInv
           Grows == ~overlapped' => LET page == apiInstanceMetrics IN
              /\ ~overlapped => \A shown \in Range(page.history) :
                    shown.sample.run = page.current.run /\ ~page.current.tera
                        => shown.sample.rx <= page.current.rx
              /\ /\ export.sample # None /\ export'.sample.run = export.sample.run
                 /\ ~export'.sample.tera
                 => export'.sample.rx >= export.sample.rx
              /\ export'.node # 0 => export'.node >= export.node
<1>1. MetricsInit => PruneInv
  <2> SUFFICES ASSUME MetricsInit PROVE PruneInv
    OBVIOUS
  <2>1. IsFiniteSet(stored)
    BY FS_EmptySet DEF MetricsInit
  <2> QED
    BY <2>1, MetricsAssumption, ZoneAssumption DEF MetricsInit, PruneInv, Span
<1>2. Both /\ [MetricsNext]_metricsVars => [Grows]_metricsVars
  <2> SUFFICES ASSUME Both, MetricsNext, ~overlapped' PROVE
              LET page == apiInstanceMetrics IN
              /\ ~overlapped => \A shown \in Range(page.history) :
                    shown.sample.run = page.current.run /\ ~page.current.tera
                        => shown.sample.rx <= page.current.rx
              /\ /\ export.sample # None /\ export'.sample.run = export.sample.run
                 /\ ~export'.sample.tera
                 => export'.sample.rx >= export.sample.rx
              /\ export'.node # 0 => export'.node >= export.node
    OBVIOUS
  <2> DEFINE c == cache.sample
  <2>1. BeatTypes /\ (overlapped \/ AfterTold(Cached)) /\ PruneInv
    BY DEF CountInv, ChainInv
  <2>2. \A a \in Samples : a.run \in Nat /\ a.rx \in Nat /\ (a.run = 0 => a.rx = 0)
    BY DEF Samples, None, Sample
  <2>3. c \in Samples /\ export.sample \in Samples /\ {cache.node, export.node} \subseteq Nat
    BY <2>1, BeatRanges
  <2>4. \A a, b \in Samples : Before(a, b) /\ a.run = b.run /\ ~b.tera => a.rx <= b.rx
    <3> SUFFICES ASSUME NEW a \in Samples, NEW b \in Samples, Before(a, b), a.run = b.run, ~b.tera
                 PROVE  a.rx <= b.rx
      OBVIOUS
    <3>1. CASE a = None \/ b = None
      <4>1. a.run = 0 /\ b.run = 0
        BY <3>1 DEF None, Sample
      <4> QED
        BY <2>2, <4>1
    <3>2. CASE a.run < b.run \/ (a.run = b.run /\ a.rx <= b.rx)
      BY <2>2, <3>2
    <3> QED
      BY <3>1, <3>2, Zenon DEF Before
  <2>5. apiInstanceMetrics.current = c /\ apiInstanceMetrics.history = ListInstanceMetrics(PageRows)
    BY DEF apiInstanceMetrics, GetInstanceMetrics
  <2>6. ASSUME ~overlapped, NEW r \in stored, r.sample.run = c.run, ~c.tera PROVE r.sample.rx <= c.rx
    <3>1. Before(r.sample, c) /\ r.sample \in Samples
      BY <2>1, <2>6 DEF AfterTold, Cached, BeatTypes
    <3> QED
      BY <2>3, <2>4, <2>6, <3>1
  <2>7. Range(apiInstanceMetrics.history) \subseteq stored
    BY <2>1, <2>5, PageOfRows DEF PruneInv
  <2>8. UNCHANGED export \/ (export' = cache /\ ~overlapped)
    <3>1. writeProm \/ pushOnce => overlapped' = overlapped /\ (Tell \/ UNCHANGED export)
      BY DEF writeProm, pushOnce
    <3>2. ~(writeProm \/ pushOnce) => UNCHANGED export
      BY DEF MetricsNext, runHeartbeatStream, SendHeartbeat, BreakStream, Receive, UpdateInstanceMetrics,
         InsertInstanceMetrics, UpdateNodeMetrics, instanceMetricsPruneLoop, StartContainer, Grow,
         StopContainer, TimePasses, RestartMaster
    <3> QED
      BY <2>1, <3>1, <3>2, TellIsCache
  <2>9. ASSUME export'.sample.run = export.sample.run, ~export'.sample.tera PROVE export'.sample.rx >= export.sample.rx
    <3>1. export.sample.rx \in Nat /\ c.rx \in Nat
      BY <2>2, <2>3
    <3>2. CASE UNCHANGED export
      BY <3>1, <3>2
    <3>3. CASE export' = cache /\ ~overlapped
      <4>1. Before(export.sample, c)
        BY <2>1, <3>3 DEF AfterTold, Order, Cached, Told
      <4>2. export.sample.rx <= c.rx
        BY <2>3, <2>4, <2>9, <3>3, <4>1
      <4> QED
        BY <3>1, <3>3, <4>2
    <3> QED
      BY <2>8, <3>2, <3>3
  <2>10. export'.node # 0 => export'.node >= export.node
    <3>1. CASE UNCHANGED export
      BY <2>3, <3>1
    <3>2. CASE export' = cache /\ ~overlapped
      <4>1. Sooner(export.node, cache.node)
        BY <2>1, <3>2 DEF AfterTold, Order, Cached, Told
      <4> QED
        BY <2>3, <3>2, <4>1 DEF Sooner
    <3> QED
      BY <2>8, <3>1, <3>2
  <2> QED
    BY <2>5, <2>6, <2>7, <2>9, <2>10
<1>3. Both /\ [MetricsNext]_metricsVars => Both'
  BY CountKept, PruneKept
<1> QED
  BY <1>1, <1>2, <1>3, CountInit, PTL DEF MetricsSpec, CountersGrow
=============================================================================
