------------------------------ MODULE Accounts ------------------------------
(***************************************************************************)
(* Users, logins and sessions of the web panel.  A login reads the user's  *)
(* row, compares a slow hash and then creates a session from what it has   *)
(* read; an administrative change writes the row and then drops the        *)
(* sessions of the user.  Requests interleave between those statements.    *)
(* A password is the number of times it was changed.  What the handlers    *)
(* add to the audit log is in Settings.                                    *)
(***************************************************************************)
EXTENDS Integers, FiniteSets, FiniteSetsExt

CONSTANTS
    MaxUsers,    \* bound: users ever created; ids are never given twice
    Names,       \* user names; "admin" is one
    MaxSessions, \* bound: sessions at the same time
    MaxLogins,   \* bound: logins
    Handlers,    \* requests under way at the same time, numbers
    MaxChanges   \* bound: changes of users, restarts

Ids == 1 .. MaxUsers
Tokens == 1 .. MaxSessions
Roles == {"admin", "editor", "viewer"}

VARIABLES
    users,    \* the users table
    created,  \* users created so far
    sessions, \* the session store, by token
    request,  \* login and change requests
    logins,   \* logins so far
    changes   \* changes so far

accountsVars == <<users, created, sessions, request, logins, changes>>

Nobody == [there |-> FALSE, name |-> "", pw |-> 0, role |-> "viewer", approved |-> FALSE]
\* A session; overtaken is for the property: the row was changed during the login.
NoSession == [user |-> 0, name |-> "", pw |-> 0, role |-> "viewer", old |-> FALSE, overtaken |-> FALSE]
Idle == [pc |-> "idle", op |-> "", user |-> 0, read |-> Nobody, arg |-> "", overtaken |-> FALSE]

Taken(name) == \E u \in Ids : users[u].there /\ users[u].name = name
Count == Cardinality({u \in Ids : users[u].there})

\* CreateUser gives the next id; the name must be free.
CreateUser(table, name, role, approved) ==
    [table EXCEPT ![created + 1] = [there |-> TRUE, name |-> name, pw |-> 0,
                                    role |-> role, approved |-> approved]]

NoTable == [u \in Ids |-> Nobody]

\* EnsureAdminUser on an empty table.
AccountsInit ==
    /\ created = 1
    /\ users = [NoTable EXCEPT ![1] = [there |-> TRUE, name |-> "admin", pw |-> 0,
                                       role |-> "admin", approved |-> TRUE]]
    /\ sessions = [t \in Tokens |-> NoSession]
    /\ request = [h \in Handlers |-> Idle]
    /\ logins = 0 /\ changes = 0

-----------------------------------------------------------------------------
(* Sessions.                                                               *)

Free(h) == request[h].pc = "idle" /\ \A g \in Handlers : g < h => request[g].pc # "idle"

\* apiLogin reads the user; the password is right and the user is approved ...
apiLogin(h, u) ==
    /\ Free(h) /\ logins < MaxLogins
    /\ users[u].there /\ users[u].approved
    /\ logins' = logins + 1
    /\ request' = [request EXCEPT ![h] = [Idle EXCEPT !.pc = "login", !.user = u, !.read = users[u]]]
    /\ UNCHANGED <<users, created, sessions, changes>>

\* ... and creates the session, under a token nobody has had.
Create(h) ==
    LET r == request[h] IN
    /\ r.pc = "login"
    /\ \E t \in Tokens :
         /\ sessions[t].user = 0 /\ \A s \in 1 .. t - 1 : sessions[s].user # 0
         /\ sessions' = [sessions EXCEPT ![t] =
                [user |-> r.user, name |-> r.read.name, pw |-> r.read.pw, role |-> r.read.role,
                 old |-> FALSE, overtaken |-> r.overtaken]]
    /\ request' = [request EXCEPT ![h] = Idle]
    /\ UNCHANGED <<users, created, logins, changes>>

apiLogout(t) ==
    /\ sessions[t].user # 0
    /\ sessions' = [sessions EXCEPT ![t] = NoSession]
    /\ UNCHANGED <<users, created, request, logins, changes>>

\* A day passes: the session is refused, and deleted, when it is used.
Expire(t) ==
    /\ sessions[t].user # 0 /\ ~sessions[t].old
    /\ sessions' = [sessions EXCEPT ![t].old = TRUE]
    /\ UNCHANGED <<users, created, request, logins, changes>>

GetExpired(t) ==
    /\ sessions[t].user # 0 /\ sessions[t].old
    /\ sessions' = [sessions EXCEPT ![t] = NoSession]
    /\ UNCHANGED <<users, created, request, logins, changes>>

\* Faulty: the first session of the user is removed, and the others are kept.
DropOne(u) ==
    LET own == {t \in Tokens : sessions[t].user = u} IN
    [t \in Tokens |-> IF own # {} /\ t = Min(own) THEN NoSession ELSE sessions[t]]

DeleteUserSessions(u) ==
    [t \in Tokens |-> IF sessions[t].user = u THEN NoSession ELSE sessions[t]]

-----------------------------------------------------------------------------
(* Changes of users.                                                       *)

\* Somebody registers and waits for the approval.
apiRegister(name) ==
    /\ created < MaxUsers /\ ~Taken(name)
    /\ users' = CreateUser(users, name, "viewer", FALSE)
    /\ created' = created + 1
    /\ UNCHANGED <<sessions, request, logins, changes>>

\* authMiddleware takes user and role from the session, not from the table.
authMiddleware(s) == s.user # 0 /\ ~s.old
adminOnly(s) == s.role = "admin"

Change(h, op, u, arg) ==
    /\ Free(h) /\ changes < MaxChanges
    /\ users[u].there
    /\ changes' = changes + 1
    /\ request' = [request EXCEPT ![h] = [Idle EXCEPT !.pc = "change", !.op = op, !.user = u, !.arg = arg]]
    /\ UNCHANGED <<users, created, sessions, logins>>

\* The handlers, with session s: three are for admins, two also for the user.
ByAdmin(s) == authMiddleware(s) /\ adminOnly(s)
BySelf(s, u) == authMiddleware(s) /\ (s.user = u \/ adminOnly(s))

apiApproveUser(h, s, u) == ByAdmin(s) /\ Change(h, "approve", u, "")
apiRejectUser(h, s, u) == ByAdmin(s) /\ Change(h, "reject", u, "")
apiChangeRole(h, s, u) == ByAdmin(s) /\ \E role \in Roles : Change(h, "role", u, role)
apiChangePassword(h, s, u) == BySelf(s, u) /\ Change(h, "password", u, "")
apiChangeUsername(h, s, u) == BySelf(s, u) /\ \E name \in Names : Change(h, "username", u, name)

\* The statements, on the user's row.
ApproveUser(row) == [row EXCEPT !.approved = TRUE]
RejectUser(row) == Nobody
UpdateUserRole(row, role) == [row EXCEPT !.role = role]
UpdateUserPassword(row) == [row EXCEPT !.pw = @ + 1]
UpdateUsername(row, name) == [row EXCEPT !.name = name]

\* The row after the change; of a row that is gone nothing is changed.
Changed(r) ==
    LET u == users[r.user] IN
    IF ~u.there THEN u ELSE
    CASE r.op = "approve" -> ApproveUser(u)
      [] r.op = "reject" -> RejectUser(u)
      [] r.op = "role" -> UpdateUserRole(u, r.arg)
      [] r.op = "password" -> UpdateUserPassword(u)
      [] r.op = "username" -> UpdateUsername(u, r.arg)

\* The handler writes the row; a name somebody else has is refused.  A login
\* that has read the row before is overtaken.
Write(h) ==
    LET r == request[h] IN
    /\ r.pc = "change"
    /\ IF r.op = "username" /\ \E v \in Ids \ {r.user} : users[v].there /\ users[v].name = r.arg
       THEN request' = [request EXCEPT ![h] = Idle] /\ UNCHANGED users
       ELSE /\ users' = [users EXCEPT ![r.user] = Changed(r)]
            /\ request' = [g \in Handlers |->
                 IF g = h THEN (IF r.op = "approve" THEN Idle ELSE [r EXCEPT !.pc = "drop"])
                 ELSE IF request[g].pc = "login" /\ request[g].user = r.user
                 THEN [request[g] EXCEPT !.overtaken = TRUE]
                 ELSE request[g]]
    /\ UNCHANGED <<created, sessions, logins, changes>>

\* ... and then removes the sessions of the user.
Drop(h) ==
    /\ request[h].pc = "drop"
    /\ sessions' = DeleteUserSessions(request[h].user)
    /\ request' = [request EXCEPT ![h] = Idle]
    /\ UNCHANGED <<users, created, logins, changes>>

\* The master restarts: sessions are in memory only.  Without users there is a
\* new administrator.
MasterRestart ==
    /\ changes < MaxChanges /\ changes' = changes + 1
    /\ sessions' = [t \in Tokens |-> NoSession]
    /\ request' = [h \in Handlers |-> Idle]
    /\ IF Count = 0 /\ created < MaxUsers
       THEN users' = CreateUser(users, "admin", "admin", TRUE) /\ created' = created + 1
       ELSE UNCHANGED <<users, created>>
    /\ UNCHANGED logins

AccountsNext ==
    \/ \E h \in Handlers :
          \/ Create(h) \/ Write(h) \/ Drop(h)
          \/ \E u \in Ids :
                \/ apiLogin(h, u)
                \/ \E t \in Tokens : LET s == sessions[t] IN
                      \/ apiApproveUser(h, s, u) \/ apiRejectUser(h, s, u) \/ apiChangeRole(h, s, u)
                      \/ apiChangePassword(h, s, u) \/ apiChangeUsername(h, s, u)
    \/ \E t \in Tokens : apiLogout(t) \/ Expire(t) \/ GetExpired(t)
    \/ \E name \in Names : apiRegister(name)
    \/ MasterRestart

AccountsSpec == AccountsInit /\ [][AccountsNext]_accountsVars

-----------------------------------------------------------------------------
(* Properties.                                                             *)

AccountsTypeOK ==
    /\ created \in 0 .. MaxUsers
    /\ \A u \in Ids : users[u].role \in Roles /\ (u > created => ~users[u].there)
    /\ \A t \in Tokens : sessions[t].user \in 0 .. created
    /\ \A h \in Handlers : request[h].pc \in {"idle", "login", "change", "drop"}

\* A session says of its user what the table says: the user is there and
\* approved, with the role, the name and the password of the session, except
\* while the handler of a change has yet to drop the sessions, and in a session
\* whose login had read the row before the change and came after the drop.
SessionsAreCurrent ==
    \A t \in Tokens :
       LET s == sessions[t]
           u == users[s.user]
       IN s.user # 0 =>
            \/ s.overtaken
            \/ \E h \in Handlers : request[h].pc = "drop" /\ request[h].user = s.user
            \/ /\ u.there /\ u.approved
               /\ <<s.role, s.name, s.pw>> = <<u.role, u.name, u.pw>>
=============================================================================
