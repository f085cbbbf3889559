---------------------------- MODULE FileManager ----------------------------
(***************************************************************************)
(* The file manager of an instance.  A request of a user changes files in  *)
(* the work directory on the agent; when the agent has answered, the       *)
(* handler starts a goroutine that has the agent commit the paths of the   *)
(* change to the instance's git repository, and returns.  The goroutine    *)
(* takes the user from the request's context, which the web framework      *)
(* uses again for the next request.  The server of the instance writes to  *)
(* the directory at any time.                                              *)
(***************************************************************************)
EXTENDS Integers, Sequences, FiniteSets

CONSTANTS
    Paths,    \* files of the work directory
    Users,    \* users, numbers from 1
    Contexts, \* request contexts of the web framework, numbers
    MaxOps    \* bound: requests and writes of the server

ASSUME FilesAssumption == MaxOps \in Nat

NoUser == 0
Ops == 1..MaxOps

VARIABLES
    files,   \* [Paths -> content], the number of the operation that wrote it; 0: no file
    index,   \* what git has staged
    commits, \* the commits: their tree, author, and the user whose change it is
    context, \* the request contexts: the user, and the request it is used for
    job,     \* the goroutines that commit, by operation
    ops,     \* operations so far
    missed   \* history: paths changed by something that was not committed

filesVars == <<files, index, commits, context, job, ops, missed>>

NoFiles == [p \in Paths |-> 0]
head == IF commits = <<>> THEN NoFiles ELSE commits[Len(commits)].tree

FreeContext == [pc |-> "free", user |-> NoUser, kind |-> "none", from |-> {}, to |-> {}, entry |-> 0, op |-> 0]
NoJob == [pc |-> "none", context |-> 0, paths |-> {}, author |-> NoUser, actor |-> NoUser]

FilesInit ==
    /\ files = NoFiles /\ index = NoFiles /\ commits = <<>>
    /\ context = [c \in Contexts |-> FreeContext]
    /\ job = [n \in Ops |-> NoJob]
    /\ ops = 0 /\ missed = {}

-----------------------------------------------------------------------------
(* Requests.  Reads (listing, download, history) change nothing.           *)

\* The commits that git finds for a path: the ones that changed it.
GitLog(p) ==
    {k \in DOMAIN commits : commits[k].tree[p] # IF k = 1 THEN 0 ELSE commits[k - 1].tree[p]}

\* What the user may restore a file from.  (Another commit of the repository
\* has the file as one of these.)
apiFileHistory(p) == GitLog(p)

\* The framework resets a context for a new request, of which the files that
\* go away and the files that come are known.
Reset(c, kind, from, to, entry) ==
    /\ context[c].pc = "free" /\ \A d \in Contexts : d < c => context[d].pc # "free"
    /\ ops < MaxOps /\ ops' = ops + 1
    /\ context' = [context EXCEPT ![c] =
          [pc |-> "reset", user |-> NoUser, kind |-> kind, from |-> from, to |-> to,
           entry |-> entry, op |-> ops + 1]]
    /\ UNCHANGED <<files, index, commits, job, missed>>

apiWriteFile(c, p) == Reset(c, "write", {}, {p}, 0)
apiUploadFile(c, p) == Reset(c, "write", {}, {p}, 0)
apiDeleteFile(c, p) == Reset(c, "delete", {p}, {}, 0)
apiBatchDeleteFiles(c, S) == S # {} /\ Reset(c, "delete", S, {}, 0)
apiCreateDir(c) == Reset(c, "mkdir", {}, {}, 0)
apiRenameFile(c, p, q) == p # q /\ Reset(c, "rename", {p}, {q}, 0)
apiMoveFile(c, p, q) == p # q /\ Reset(c, "move", {p}, {q}, 0)
apiCopyFile(c, p, q) == p # q /\ Reset(c, "copy", {p}, {q}, 0)
apiFileRestore(c, p, k) == Reset(c, "restore", {}, {p}, k)

\* The middleware puts the user of the session into the context.
Authenticate(c, u) ==
    /\ context[c].pc = "reset"
    /\ context' = [context EXCEPT ![c].pc = "call", ![c].user = u]
    /\ UNCHANGED <<files, index, commits, job, ops, missed>>

HandlerAt(c, pc) == context' = [context EXCEPT ![c].pc = pc]

\* The handler returns.  The context keeps its user until it is reset.
Return(c) == context' = [context EXCEPT ![c] = [FreeContext EXCEPT !.user = context[c].user]]

\* connectFileManager finds no owner of the instance, or no agent.
NotConnected(c) ==
    /\ context[c].pc = "call" /\ Return(c)
    /\ UNCHANGED <<files, index, commits, job, ops, missed>>

\* The agent does not know the instance, the path leads out of its directory,
\* or the operation fails: nothing was changed.
Refused(c) ==
    /\ context[c].pc = "call" /\ Return(c)
    /\ UNCHANGED <<files, index, commits, job, ops, missed>>

\* Faulty: a rename commits the new path only.
NewPathsOnly(r) == IF r.kind = "delete" THEN r.from ELSE r.to

\* The paths a handler commits.
CommitPaths(r) == IF r.kind = "copy" THEN r.to ELSE r.from \cup r.to

FilesChange(c, content) ==
    /\ files' = [p \in Paths |-> IF p \in DOMAIN content THEN content[p] ELSE files[p]]
    /\ UNCHANGED <<index, commits, job, ops, missed>>

WriteFile(c) ==
    /\ context[c].pc = "call" /\ context[c].kind = "write"
    /\ FilesChange(c, [p \in context[c].to |-> context[c].op])
    /\ HandlerAt(c, "respond")

\* A batch goes on after a file that cannot be deleted; it commits all its
\* paths if one file was deleted.
DeleteFile(c) ==
    LET there == {p \in context[c].from : files[p] # 0} IN
    /\ context[c].pc = "call" /\ context[c].kind = "delete" /\ there # {}
    /\ FilesChange(c, [p \in there |-> 0])
    /\ HandlerAt(c, "respond")

\* git does not see a directory without files.
CreateDirectory(c) ==
    /\ context[c].pc = "call" /\ context[c].kind = "mkdir"
    /\ HandlerAt(c, "respond")
    /\ UNCHANGED <<files, index, commits, job, ops, missed>>

RenameFile(c) ==
    /\ context[c].pc = "call" /\ context[c].kind \in {"rename", "move"}
    /\ \E p \in context[c].from, q \in context[c].to :
          /\ files[p] # 0
          /\ FilesChange(c, [r \in {p, q} |-> IF r = q THEN files[p] ELSE 0])
    /\ HandlerAt(c, "respond")

\* A copy does not overwrite unless it is told to.  A move that cannot rename
\* copies, without overwriting, and deletes afterwards.
CopyFile(c) ==
    /\ context[c].pc = "call" /\ context[c].kind \in {"copy", "move"}
    /\ \E p \in context[c].from, q \in context[c].to :
          /\ files[p] # 0
          /\ context[c].kind = "move" => files[q] = 0
          /\ FilesChange(c, [r \in {q} |-> files[p]])
    /\ HandlerAt(c, IF context[c].kind = "move" THEN "copied" ELSE "respond")

DeleteMoved(c) ==
    /\ context[c].pc = "copied"
    /\ \E p \in context[c].from : files[p] # 0
    /\ FilesChange(c, [r \in context[c].from |-> 0])
    /\ HandlerAt(c, "respond")

\* The answer does not come in time, or the file to delete is gone: the
\* handler returns without a commit of what was done.
Unanswered(c) ==
    /\ context[c].pc \in {"copied", "respond"}
    /\ missed' = missed \cup CommitPaths(context[c])
    /\ Return(c)
    /\ UNCHANGED <<files, index, commits, job, ops>>

\* The handler writes the audit log, starts the goroutine and returns.
Respond(c) ==
    /\ context[c].pc = "respond"
    /\ job' = [job EXCEPT ![context[c].op] =
          [pc |-> "user", context |-> c, paths |-> CommitPaths(context[c]),
           author |-> NoUser, actor |-> context[c].user]]
    /\ Return(c)
    /\ UNCHANGED <<files, index, commits, ops, missed>>

\* GitRestore writes the file as it was in a commit and commits it, for the
\* user the handler passed on.
GitRestore(c) ==
    LET r == context[c] IN
    /\ r.pc = "call" /\ r.kind = "restore"
    /\ \E p \in r.to :
          /\ commits[r.entry].tree[p] # 0
          /\ files' = [files EXCEPT ![p] = commits[r.entry].tree[p]]
    /\ job' = [job EXCEPT ![r.op] =
          [pc |-> "add", context |-> c, paths |-> r.to, author |-> r.user, actor |-> r.user]]
    /\ HandlerAt(c, "restoring")
    /\ UNCHANGED <<index, commits, ops, missed>>

\* The restore has ended; it is in the audit log if the commit succeeded.
Restored(c) ==
    /\ context[c].pc = "restoring" /\ job[context[c].op].pc = "none"
    /\ Return(c)
    /\ UNCHANGED <<files, index, commits, job, ops, missed>>

-----------------------------------------------------------------------------
(* Commits.                                                                *)

\* getCurrentUser in the goroutine: the user the context has by now.
getCurrentUser(n) == context[job[n].context].user

gitCommitFiles(n) ==
    /\ job[n].pc = "user"
    /\ job' = [job EXCEPT ![n].pc = "add", ![n].author = getCurrentUser(n)]
    /\ UNCHANGED <<files, index, commits, context, ops, missed>>

\* git add refuses all of its paths when one is neither a file nor tracked.
Pathspec(n) == \A p \in job[n].paths : files[p] # 0 \/ index[p] # 0

GitAdd(n) ==
    /\ job[n].pc = "add" /\ Pathspec(n)
    /\ index' = [p \in Paths |-> IF p \in job[n].paths THEN files[p] ELSE index[p]]
    /\ job' = [job EXCEPT ![n].pc = "commit"]
    /\ UNCHANGED <<files, commits, context, ops, missed>>

\* git commit takes all that is staged, whoever has staged it; nothing staged
\* is not an error.
GitCommit(n) ==
    /\ job[n].pc = "commit"
    /\ commits' = IF index = head THEN commits
                  ELSE Append(commits, [tree |-> index, author |-> job[n].author, actor |-> job[n].actor])
    /\ missed' = {p \in missed : index[p] # files[p]}
    /\ job' = [job EXCEPT ![n] = NoJob]
    /\ UNCHANGED <<files, index, context, ops>>

\* A path git does not know; no agent or no git; a timeout; or another git
\* that holds the lock of the index.  It is logged.
GitFails(n) ==
    /\ job[n].pc # "none"
    /\ missed' = missed \cup job[n].paths
    /\ job' = [job EXCEPT ![n] = NoJob]
    /\ UNCHANGED <<files, index, commits, context, ops>>

\* The server writes a file of its own; nothing commits it.
ServerWrites(p) ==
    /\ ops < MaxOps /\ ops' = ops + 1
    /\ files' = [files EXCEPT ![p] = ops + 1]
    /\ missed' = missed \cup {p}
    /\ UNCHANGED <<index, commits, context, job>>

Request(c) ==
    \/ apiCreateDir(c)
    \/ \E p \in Paths : apiWriteFile(c, p) \/ apiUploadFile(c, p) \/ apiDeleteFile(c, p)
    \/ \E S \in SUBSET Paths : apiBatchDeleteFiles(c, S)
    \/ \E p, q \in Paths : apiRenameFile(c, p, q) \/ apiMoveFile(c, p, q) \/ apiCopyFile(c, p, q)
    \/ \E p \in Paths : \E k \in apiFileHistory(p) : apiFileRestore(c, p, k)

Agent(c) ==
    \/ WriteFile(c) \/ DeleteFile(c) \/ CreateDirectory(c) \/ RenameFile(c)
    \/ CopyFile(c) \/ DeleteMoved(c) \/ GitRestore(c)

FilesNext ==
    \/ \E p \in Paths : ServerWrites(p)
    \/ \E c \in Contexts :
          \/ Request(c) \/ Agent(c) \/ NotConnected(c) \/ Refused(c) \/ Unanswered(c) \/ Respond(c) \/ Restored(c)
          \/ \E u \in Users : Authenticate(c, u)
    \/ \E n \in Ops : gitCommitFiles(n) \/ GitAdd(n) \/ GitCommit(n) \/ GitFails(n)

FilesSpec == FilesInit /\ [][FilesNext]_filesVars

-----------------------------------------------------------------------------
(* Properties.                                                             *)

FilesTypeOK ==
    /\ files \in [Paths -> 0..MaxOps] /\ index \in [Paths -> 0..MaxOps]
    /\ \A k \in DOMAIN commits : commits[k].author \in Users \cup {NoUser}
    /\ \A c \in Contexts : context[c].user \in Users \cup {NoUser}
    /\ missed \subseteq Paths /\ ops \in 0..MaxOps

AtRest == (\A c \in Contexts : context[c].pc = "free") /\ (\A n \in Ops : job[n].pc = "none")

\* When all requests and commits have ended, the last commit has every file as
\* it is in the work directory, the ones that are gone included, except the
\* paths of a change that was not committed: commits of concurrent requests
\* take over what another one has staged, and lose nothing.
WorkIsCommitted == AtRest => \A p \in Paths \ missed : head[p] = files[p]

\* The author of a commit is the user whose change it was started for, as
\* docs/file-management.md says.  The goroutine reads the user from a context
\* that may be another request's by now.
AuthorIsWriter == \A k \in DOMAIN commits : commits[k].author = commits[k].actor
=============================================================================
