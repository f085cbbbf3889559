------------------------ MODULE BackupSchedulerProofs -----------------------
(***************************************************************************)
(* A successful backup is not repeated, a restore writes the archive that  *)
(* is recorded, the newest backups are kept, and cron expressions match    *)
(* what they denote: for all periods, timeouts, limits, calendars,         *)
(* expressions and numbers of backups.                                     *)
(***************************************************************************)
EXTENDS BackupScheduler, SequenceTheorems, FiniteSetTheorems, TLAPS

JobPcs == {"free", "launch", "zip", "retain", "row", "last", "trim", "done", "failed"}
Job == [kind : Kind, pc : JobPcs, age : Nat, waits : BOOLEAN, file : Nat, sum : Int]
BackupRow == [file : Nat, sum : Int]

BackupTypes ==
    /\ jobs \in [Jobs -> Job]
    /\ \A i \in Jobs : jobs[i].pc \in {"free", "launch"} => jobs[i].file = NoFile
    /\ rows \in Seq(BackupRow)
    /\ disk \in Seq(Nat)
    /\ DOMAIN content = Jobs
    /\ DOMAIN restore = {"pc", "file", "sum", "wrote"}
    /\ lastAge \in -1 .. Guard
    /\ crossed \in BOOLEAN

-----------------------------------------------------------------------------
(* What a step does to the jobs.                                           *)

\* Job i moves to p, with what it has of its file; the others do not move.
After(i, p, w, f, s) ==
    /\ jobs' \in [Jobs -> Job]
    /\ \A k \in Jobs \ {i} : jobs'[k] = jobs[k]
    /\ jobs'[i].pc = p /\ jobs'[i].waits = w /\ jobs'[i].file = f /\ jobs'[i].sum = s
    /\ jobs'[i].kind = jobs[i].kind /\ jobs'[i].age = jobs[i].age

\* Of a job that goes on only the label changes.
Moves(i, p) == After(i, p, jobs[i].waits, jobs[i].file, jobs[i].sum)

LEMMA JobsAre == Jobs \subseteq Nat /\ \A i \in Jobs : i # NoFile
<1>1. MaxJobs \in Nat
  BY CountAssumption
<1> QED
  BY <1>1 DEF Jobs, NoFile

LEMMA GotoMoves ==
    ASSUME BackupTypes, NEW i \in Jobs, NEW p \in JobPcs, Goto(i, p)
    PROVE  Moves(i, p)
<1> DEFINE r == [jobs[i] EXCEPT !.pc = p]
<1>1. jobs \in [Jobs -> Job] /\ jobs[i] \in Job
  BY DEF BackupTypes
<1>2. r \in Job /\ r.pc = p /\ r.waits = jobs[i].waits /\ r.file = jobs[i].file /\ r.sum = jobs[i].sum
      /\ r.kind = jobs[i].kind /\ r.age = jobs[i].age
  BY <1>1 DEF Job
<1>3. jobs' = [jobs EXCEPT ![i] = r]
  BY <1>1 DEF Goto
<1> HIDE DEF r
<1>4. jobs' \in [Jobs -> Job] /\ jobs'[i] = r /\ \A k \in Jobs \ {i} : jobs'[k] = jobs[k]
  BY <1>1, <1>2, <1>3
<1> QED
  BY <1>2, <1>4 DEF Moves, After

LEMMA GiveUpMoves ==
    ASSUME BackupTypes, NEW i \in Jobs, GiveUp(i)
    PROVE  After(i, jobs[i].pc, FALSE, jobs[i].file, jobs[i].sum)
<1> DEFINE r == [jobs[i] EXCEPT !.waits = FALSE]
<1>1. jobs \in [Jobs -> Job] /\ jobs[i] \in Job
  BY DEF BackupTypes
<1>2. r \in Job /\ r.pc = jobs[i].pc /\ r.waits = FALSE /\ r.file = jobs[i].file /\ r.sum = jobs[i].sum
      /\ r.kind = jobs[i].kind /\ r.age = jobs[i].age
  BY <1>1 DEF Job
<1>3. jobs' = [jobs EXCEPT ![i] = r]
  BY <1>1 DEF GiveUp
<1> HIDE DEF r
<1>4. jobs' \in [Jobs -> Job] /\ jobs'[i] = r /\ \A k \in Jobs \ {i} : jobs'[k] = jobs[k]
  BY <1>1, <1>2, <1>3
<1> QED
  BY <1>2, <1>4 DEF After

LEMMA ZipBeginsMoves ==
    ASSUME BackupTypes, NEW i \in Jobs, NEW f \in Nat, ZipBegins(i, f)
    PROVE  After(i, "zip", jobs[i].waits, f, jobs[i].sum)
<1> DEFINE r == [jobs[i] EXCEPT !.pc = "zip", !.file = f]
<1>1. jobs \in [Jobs -> Job] /\ jobs[i] \in Job
  BY DEF BackupTypes
<1>2. r \in Job /\ r.pc = "zip" /\ r.waits = jobs[i].waits /\ r.file = f /\ r.sum = jobs[i].sum
      /\ r.kind = jobs[i].kind /\ r.age = jobs[i].age
  BY <1>1 DEF Job, JobPcs
<1>3. jobs' = [jobs EXCEPT ![i] = r]
  BY <1>1 DEF ZipBegins
<1> HIDE DEF r
<1>4. jobs' \in [Jobs -> Job] /\ jobs'[i] = r /\ \A k \in Jobs \ {i} : jobs'[k] = jobs[k]
  BY <1>1, <1>2, <1>3
<1> QED
  BY <1>2, <1>4 DEF After

LEMMA ZipEndsMoves ==
    ASSUME BackupTypes, NEW i \in Jobs, ZipEnds(i)
    PROVE  After(i, "retain", jobs[i].waits, jobs[i].file, IF content[jobs[i].file] = Torn THEN Torn ELSE i)
<1> DEFINE w == IF content[jobs[i].file] = Torn THEN Torn ELSE i
           r == [jobs[i] EXCEPT !.pc = "retain", !.sum = w]
<1>1. jobs \in [Jobs -> Job] /\ jobs[i] \in Job
  BY DEF BackupTypes
<1>0. w \in Int
  BY JobsAre DEF Torn
<1>3. jobs' = [jobs EXCEPT ![i] = r]
  BY <1>1 DEF ZipEnds
<1> HIDE DEF w
<1>2. r \in Job /\ r.pc = "retain" /\ r.waits = jobs[i].waits /\ r.file = jobs[i].file /\ r.sum = w
      /\ r.kind = jobs[i].kind /\ r.age = jobs[i].age
  BY <1>0, <1>1 DEF Job, JobPcs
<1> HIDE DEF r
<1>4. jobs' \in [Jobs -> Job] /\ jobs'[i] = r /\ \A k \in Jobs \ {i} : jobs'[k] = jobs[k]
  BY <1>1, <1>2, <1>3
<1> QED
  BY <1>2, <1>4 DEF After, w

\* The least unused job.
LEMMA FreeIs ==
    ASSUME HasFree PROVE Free \in Jobs /\ jobs[Free].pc = "free"
<1> DEFINE R == OpToRel(<, Nat)
           T == {i \in Jobs : jobs[i].pc = "free"}
<1>1. T \subseteq Nat /\ T # {}
  BY JobsAre DEF HasFree
<1>2. \E x \in T : \A y \in T : ~(<<y, x>> \in R)
  BY <1>1, WFMin, NatLessThanWellFounded
<1>3. PICK x \in T : \A y \in T : ~(<<y, x>> \in R)
  BY <1>2
<1>4. \A y \in T : ~(y < x)
  BY <1>1, <1>3 DEF OpToRel
<1>5. \A k \in 1 .. x - 1 : k \in Jobs /\ k < x
  <2>1. MaxJobs \in Nat /\ x \in Jobs
    BY CountAssumption
  <2> QED
    BY <2>1 DEF Jobs
<1>6. \E i \in Jobs : jobs[i].pc = "free" /\ \A k \in 1 .. i - 1 : jobs[k].pc # "free"
  BY <1>4, <1>5
<1> QED
  BY <1>6 DEF Free

\* A new job, of which there is nothing yet.
Fresh(b, kind) ==
    /\ b \in Jobs /\ jobs[b].pc = "free"
    /\ jobs' \in [Jobs -> Job]
    /\ \A k \in Jobs \ {b} : jobs'[k] = jobs[k]
    /\ jobs'[b].pc = "launch" /\ jobs'[b].waits /\ jobs'[b].file = NoFile /\ jobs'[b].kind = kind

LEMMA BeginMakes ==
    ASSUME BackupTypes, HasFree, NEW kind \in Kind, Begin(kind)
    PROVE  Fresh(Free, kind) /\ crossed' = (crossed \/ AtWork # {})
<1> DEFINE b == Free
           r == [Unused EXCEPT !.kind = kind, !.pc = "launch", !.waits = TRUE]
<1>1. b \in Jobs /\ jobs[b].pc = "free"
  BY FreeIs
<1>2. jobs \in [Jobs -> Job]
  BY DEF BackupTypes
<1>3. jobs' = [jobs EXCEPT ![b] = r] /\ crossed' = (crossed \/ AtWork # {})
  BY DEF Begin
<1>4. r \in Job /\ r.pc = "launch" /\ r.waits /\ r.file = NoFile /\ r.kind = kind
  <2>1. Unused \in Job /\ Unused.file = NoFile
    BY DEF Unused, Job, JobPcs, Kind, Partial, NoFile
  <2> QED
    BY <2>1 DEF Job, JobPcs
<1> HIDE DEF r, b
<1>5. jobs' \in [Jobs -> Job] /\ jobs'[b] = r /\ \A k \in Jobs \ {b} : jobs'[k] = jobs[k]
  BY <1>1, <1>2, <1>3, <1>4
<1> QED
  BY <1>1, <1>3, <1>4, <1>5 DEF Fresh, b

\* As time passes the jobs become older, and nothing else.
Older ==
    /\ jobs' \in [Jobs -> Job]
    /\ \A k \in Jobs : /\ jobs'[k].pc = jobs[k].pc /\ jobs'[k].waits = jobs[k].waits
                       /\ jobs'[k].file = jobs[k].file /\ jobs'[k].sum = jobs[k].sum
                       /\ jobs'[k].kind = jobs[k].kind
                       /\ jobs'[k].age = jobs[k].age + 1 \/ jobs'[k].age = jobs[k].age

LEMMA ElapseAges ==
    ASSUME BackupTypes, Elapse PROVE Older
<1>1. jobs \in [Jobs -> Job]
  BY DEF BackupTypes
<1>2. jobs' = [i \in Jobs |->
                  IF jobs[i].pc # "free" /\ jobs[i].age < MaxAge(jobs[i].kind)
                  THEN [jobs[i] EXCEPT !.age = @ + 1] ELSE jobs[i]]
  BY DEF Elapse
<1>3. ASSUME NEW k \in Jobs
      PROVE  /\ jobs'[k] \in Job /\ jobs'[k].pc = jobs[k].pc /\ jobs'[k].waits = jobs[k].waits
             /\ jobs'[k].file = jobs[k].file /\ jobs'[k].sum = jobs[k].sum
             /\ jobs'[k].kind = jobs[k].kind
             /\ jobs'[k].age = jobs[k].age + 1 \/ jobs'[k].age = jobs[k].age
  <2> DEFINE o == [jobs[k] EXCEPT !.age = @ + 1]
  <2>1. jobs[k] \in Job /\ jobs'[k] \in {o, jobs[k]}
    BY <1>1, <1>2
  <2>2. /\ o \in Job /\ o.pc = jobs[k].pc /\ o.waits = jobs[k].waits
        /\ o.file = jobs[k].file /\ o.sum = jobs[k].sum
        /\ o.kind = jobs[k].kind /\ o.age = jobs[k].age + 1
    BY <2>1 DEF Job
  <2> HIDE DEF o
  <2> QED
    BY <2>1, <2>2
<1>4. jobs' \in [Jobs -> Job]
  BY <1>2, <1>3
<1> QED
  BY <1>3, <1>4 DEF Older

-----------------------------------------------------------------------------
(* What is left of the files and of the rows.                              *)

LEMMA LeastOf ==
    ASSUME NEW S \in SUBSET Nat, S # {}
    PROVE  Min(S) \in S /\ \A y \in S : Min(S) <= y
<1> DEFINE R == OpToRel(<, Nat)
<1>1. \E x \in S : \A y \in S : ~(<<y, x>> \in R)
  BY WFMin, NatLessThanWellFounded
<1>2. PICK x \in S : \A y \in S : ~(<<y, x>> \in R)
  BY <1>1
<1>3. \A y \in S : ~(y < x)
  BY <1>2 DEF OpToRel
<1>4. \A y \in S : x <= y
  BY <1>3
<1> QED
  BY <1>4 DEF Min

LEMMA RemoveAtGives ==
    ASSUME NEW S, NEW s \in Seq(S), NEW k \in 1 .. Len(s)
    PROVE  /\ RemoveAt(s, k) \in Seq(S) /\ Len(RemoveAt(s, k)) = Len(s) - 1
           /\ \A j \in 1 .. Len(s) - 1 : RemoveAt(s, k)[j] = s[IF j < k THEN j ELSE j + 1]
<1> DEFINE n == Len(s)
           a == SubSeq(s, 1, k - 1)
           b == SubSeq(s, k + 1, n)
<1>1. n \in Nat /\ k \in 1 .. n /\ \A j \in 1 .. n : s[j] \in S
  BY ElementOfSeq
<1>2. /\ a \in Seq(S) /\ Len(a) = (IF 1 <= k - 1 THEN k - 1 - 1 + 1 ELSE 0)
      /\ \A j \in 1 .. k - 1 - 1 + 1 : a[j] = s[1 + j - 1]
  <2>1. 1 \in Int /\ k - 1 \in Int /\ \A j \in 1 .. k - 1 : s[j] \in S
    BY <1>1
  <2> QED
    BY <2>1, SubSeqProperties
<1>3. /\ b \in Seq(S) /\ Len(b) = (IF k + 1 <= n THEN n - (k + 1) + 1 ELSE 0)
      /\ \A j \in 1 .. n - (k + 1) + 1 : b[j] = s[k + 1 + j - 1]
  <2>1. k + 1 \in Int /\ n \in Int /\ \A j \in k + 1 .. n : s[j] \in S
    BY <1>1
  <2> QED
    BY <2>1, SubSeqProperties
<1>4. RemoveAt(s, k) = a \o b
  BY DEF RemoveAt
<1> HIDE DEF n, a, b
<1>5. /\ Len(a) = k - 1 /\ \A j \in 1 .. k - 1 : a[j] = s[j]
      /\ Len(b) = n - k /\ \A j \in 1 .. n - k : b[j] = s[k + j]
  BY <1>1, <1>2, <1>3
<1>6. /\ a \o b \in Seq(S) /\ Len(a \o b) = Len(a) + Len(b)
      /\ \A j \in 1 .. Len(a) + Len(b) : (a \o b)[j] = IF j <= Len(a) THEN a[j] ELSE b[j - Len(a)]
  BY <1>2, <1>3, ConcatProperties
<1>7. \A j \in 1 .. n - 1 : (a \o b)[j] = s[IF j < k THEN j ELSE j + 1]
  <2> SUFFICES ASSUME NEW j \in 1 .. n - 1 PROVE (a \o b)[j] = s[IF j < k THEN j ELSE j + 1]
    OBVIOUS
  <2>1. j \in 1 .. Len(a) + Len(b)
    BY <1>1, <1>5
  <2>2. CASE j < k
    BY <1>1, <1>5, <1>6, <2>1, <2>2
  <2>3. CASE ~(j < k)
    <3>1. j - (k - 1) \in 1 .. n - k /\ k + (j - (k - 1)) = j + 1 /\ ~(j <= k - 1)
      BY <1>1, <2>3
    <3> QED
      BY <1>5, <1>6, <2>1, <2>3, <3>1
  <2> QED
    BY <2>2, <2>3
<1> QED
  BY <1>1, <1>4, <1>5, <1>6, <1>7 DEF n

LEMMA RemoveFirstIs ==
    ASSUME NEW S, NEW s \in Seq(S), NEW e
    PROVE  /\ RemoveFirst(s, e) \in Seq(S)
           /\ ~Contains(s, e) => RemoveFirst(s, e) = s
           /\ Contains(s, e) => \E k \in 1 .. Len(s) : s[k] = e /\ RemoveFirst(s, e) = RemoveAt(s, k)
<1>1. CASE ~Contains(s, e)
  BY <1>1 DEF Contains, RemoveFirst
<1>2. CASE Contains(s, e)
  <2> DEFINE I == {i \in 1 .. Len(s) : s[i] = e}
  <2>1. I \in SUBSET Nat /\ I # {}
    BY <1>2, LenProperties DEF Contains
  <2>2. Min(I) \in I
    BY <2>1, LeastOf
  <2>3. RemoveFirst(s, e) = RemoveAt(s, Min(I))
    BY <1>2, <2>1 DEF Contains, RemoveFirst, SelectInSeq
  <2> QED
    BY <1>2, <2>2, <2>3, RemoveAtGives
<1> QED
  BY <1>1, <1>2

\* A file that was written last, and is written or removed again.
LEMMA RemoveLast ==
    ASSUME NEW S, NEW s \in Seq(S), NEW e \in S, ~Contains(s, e)
    PROVE  RemoveFirst(Append(s, e), e) = s
<1> DEFINE t == Append(s, e)
           n == Len(s)
<1>1. /\ t \in Seq(S) /\ Len(t) = n + 1 /\ t[n + 1] = e
      /\ \A j \in 1 .. n : t[j] = s[j]
  BY AppendProperties
<1>2. n \in Nat /\ \A j \in 1 .. n : s[j] # e
  BY LenProperties DEF Contains
<1> HIDE DEF t, n
<1>3. Contains(t, e)
  BY <1>1, <1>2 DEF Contains
<1>4. PICK k \in 1 .. Len(t) : t[k] = e /\ RemoveFirst(t, e) = RemoveAt(t, k)
  BY <1>1, <1>3, RemoveFirstIs
<1>5. k = n + 1
  BY <1>1, <1>2, <1>4
<1> DEFINE u == RemoveAt(t, k)
<1>6. /\ u \in Seq(S) /\ Len(u) = Len(t) - 1
      /\ \A j \in 1 .. Len(t) - 1 : u[j] = t[IF j < k THEN j ELSE j + 1]
  BY <1>1, RemoveAtGives
<1> HIDE DEF u
<1>7. Len(u) = n /\ \A j \in 1 .. n : u[j] = s[j]
  BY <1>1, <1>2, <1>5, <1>6
<1>8. u = s
  BY <1>6, <1>7, SeqEqual DEF n
<1> QED
  BY <1>4, <1>8 DEF t, u

\* The newest are those at the end.
LEMMA NewestGives ==
    ASSUME NEW S, NEW s \in Seq(S), NEW n \in Nat
    PROVE  /\ Newest(s, n) \in Seq(S)
           /\ Len(Newest(s, n)) = IF Len(s) <= n THEN Len(s) ELSE n
           /\ \A j \in 0 .. Len(Newest(s, n)) - 1 : Newest(s, n)[Len(Newest(s, n)) - j] = s[Len(s) - j]
<1> DEFINE l == Len(s)
           a == SubSeq(s, l - n + 1, l)
<1>1. l \in Nat /\ \A j \in 1 .. l : s[j] \in S
  BY LenProperties, ElementOfSeq
<1>2. CASE l <= n
  <2>1. Newest(s, n) = s
    BY <1>2 DEF Newest
  <2> QED
    BY <1>2, <2>1
<1>3. CASE ~(l <= n)
  <2>1. Newest(s, n) = a
    BY <1>3 DEF Newest
  <2>2. l - n + 1 \in Int /\ l \in Int /\ \A j \in l - n + 1 .. l : s[j] \in S
    <3>1. \A j \in l - n + 1 .. l : j \in 1 .. l
      BY <1>1, <1>3
    <3> QED
      BY <1>1, <3>1
  <2>3. /\ a \in Seq(S) /\ Len(a) = (IF l - n + 1 <= l THEN l - (l - n + 1) + 1 ELSE 0)
        /\ \A j \in 1 .. l - (l - n + 1) + 1 : a[j] = s[l - n + 1 + j - 1]
    BY <2>2, SubSeqProperties
  <2> HIDE DEF a, l
  <2>4. Len(a) = n /\ \A j \in 1 .. n : a[j] = s[l - n + j]
    BY <1>1, <1>3, <2>3
  <2>5. \A j \in 0 .. n - 1 : n - j \in 1 .. n /\ l - n + (n - j) = l - j
    BY <1>1
  <2>6. \A j \in 0 .. n - 1 : a[n - j] = s[l - j]
    BY <2>4, <2>5
  <2> QED
    BY <1>3, <2>1, <2>3, <2>4, <2>6 DEF l
<1> QED
  BY <1>2, <1>3

-----------------------------------------------------------------------------
(* The types.                                                              *)

LEMMA NamesAre ==
    ASSUME BackupTypes, NEW i \in Jobs PROVE Names(i) \subseteq Nat
<1>1. \A k \in Jobs : jobs[k].file \in Nat
  BY DEF BackupTypes, Job
<1> QED
  BY <1>1, JobsAre DEF Names

\* A step of a job: it has begun, and the name of its file does not change.
LEMMA JobMoved ==
    ASSUME BackupTypes, NEW i \in Jobs, JobStep(i)
    PROVE  /\ \E p \in JobPcs \ {"free", "launch"}, w \in {FALSE, jobs[i].waits}, f \in Nat, s \in Int :
                 After(i, p, w, f, s) /\ (f = jobs[i].file \/ jobs[i].file = NoFile)
           /\ crossed' = crossed
<1> USE DEF time, master, agent, restoring
<1>1. jobs[i] \in Job
  BY DEF BackupTypes
<1>2. jobs[i].pc \in JobPcs /\ jobs[i].file \in Nat /\ jobs[i].sum \in Int
  BY <1>1 DEF Job
<1>3. ASSUME NEW p \in JobPcs \ {"free", "launch"}, Goto(i, p)
      PROVE  \E q \in JobPcs \ {"free", "launch"}, w \in {FALSE, jobs[i].waits}, f \in Nat, s \in Int :
                After(i, q, w, f, s) /\ (f = jobs[i].file \/ jobs[i].file = NoFile)
  <2>1. Moves(i, p)
    BY <1>3, GotoMoves
  <2> QED
    BY <1>2, <2>1, Zenon DEF Moves
<1>4. {"failed", "last", "done", "trim", "row", "zip", "retain"} \subseteq JobPcs \ {"free", "launch"}
  BY DEF JobPcs
<1>5. CASE RefusedScheduled(i) \/ RefusedManual(i)
  BY <1>3, <1>4, <1>5 DEF RefusedScheduled, RefusedManual
<1>6. CASE RecordScheduled(i) \/ RecordManual(i) \/ SetLastAt(i) \/ Trim(i)
  BY <1>3, <1>4, <1>6 DEF RecordScheduled, RecordManual, SetLastAt, Trim
<1>7. CASE ZipFails(i) \/ Retain(i)
  BY <1>3, <1>4, <1>7 DEF ZipFails, Retain
<1>8. CASE GiveUp(i)
  <2>1. After(i, jobs[i].pc, FALSE, jobs[i].file, jobs[i].sum)
    BY <1>8, GiveUpMoves
  <2>2. jobs[i].pc \in JobPcs \ {"free", "launch"} /\ crossed' = crossed
    BY <1>2, <1>4, <1>8 DEF GiveUp
  <2> QED
    BY <1>2, <2>1, <2>2
<1>9. CASE \E f \in Names(i) : ZipBegins(i, f)
  <2>1. PICK f \in Names(i) : ZipBegins(i, f)
    BY <1>9
  <2>2. f \in Nat
    BY NamesAre
  <2>3. After(i, "zip", jobs[i].waits, f, jobs[i].sum)
    BY <2>1, <2>2, ZipBeginsMoves
  <2>4. jobs[i].file = NoFile /\ crossed' = crossed
    BY <2>1 DEF BackupTypes, ZipBegins
  <2> QED
    BY <1>2, <1>4, <2>2, <2>3, <2>4
<1>10. CASE ZipEnds(i)
  <2> DEFINE s == IF content[jobs[i].file] = Torn THEN Torn ELSE i
  <2>1. After(i, "retain", jobs[i].waits, jobs[i].file, s)
    BY <1>10, ZipEndsMoves
  <2>2. s \in Int /\ crossed' = crossed
    BY <1>10, JobsAre DEF ZipEnds, Torn
  <2> HIDE DEF s
  <2> QED
    BY <1>2, <1>4, <2>1, <2>2
<1>11. CASE ZipWrites(i)
  <2>1. jobs' = jobs /\ crossed' = crossed /\ jobs[i].pc = "zip"
    BY <1>11 DEF ZipWrites
  <2>2. After(i, "zip", jobs[i].waits, jobs[i].file, jobs[i].sum)
    BY <2>1 DEF After, BackupTypes
  <2> QED
    BY <1>2, <1>4, <2>1, <2>2
<1> QED
  BY <1>5, <1>6, <1>7, <1>8, <1>9, <1>10, <1>11 DEF JobStep

\* What every step does: no job gets another file, none is waited for again, and
\* what has overlapped has.
Onward ==
    /\ jobs' \in [Jobs -> Job]
    /\ \A i \in Jobs : jobs'[i].file = jobs[i].file \/ jobs[i].file = NoFile
    /\ \A i \in Jobs : jobs'[i].pc \in {"free", "launch"} => jobs'[i].file = NoFile
    /\ \A i \in Jobs : jobs'[i].waits => jobs[i].waits \/ jobs[i].file = NoFile
    /\ crossed => crossed'

LEMMA FreshIsOnward ==
    ASSUME BackupTypes, NEW b, NEW kind, Fresh(b, kind), crossed => crossed' PROVE Onward
<1>1. jobs[b].file = NoFile /\ \A i \in Jobs : jobs[i].pc \in {"free", "launch"} => jobs[i].file = NoFile
  BY DEF Fresh, BackupTypes
<1> QED
  BY <1>1 DEF Fresh, Onward

LEMMA StepIsOnward ==
    ASSUME BackupTypes, [Next]_vars PROVE Onward
<1> USE DEF time, master, agent, restoring
<1>0. jobs \in [Jobs -> Job] /\ \A i \in Jobs : jobs[i].pc \in {"free", "launch"} => jobs[i].file = NoFile
  BY DEF BackupTypes
<1>1. CASE Elapse
  <2>1. Older /\ crossed' = crossed
    BY <1>1, ElapseAges DEF Elapse
  <2> QED
    BY <1>0, <2>1 DEF Older, Onward
<1>2. ASSUME NEW m \in Minutes, Tick(m) PROVE Onward
  <2>1. CASE Due(m) /\ HasFree
    <3>1. Fresh(Free, "scheduled") /\ (crossed => crossed')
      BY <1>2, <2>1, BeginMakes DEF Tick, Kind
    <3> QED
      BY <3>1, FreshIsOnward
  <2>2. CASE ~(Due(m) /\ HasFree)
    BY <1>0, <1>2, <2>2 DEF Tick, Onward
  <2> QED
    BY <2>1, <2>2
<1>3. CASE CreateBackup
  <2>1. Fresh(Free, "manual") /\ (crossed => crossed')
    BY <1>3, BeginMakes DEF CreateBackup, Kind
  <2> QED
    BY <2>1, FreshIsOnward
<1>4. ASSUME NEW i \in Jobs, JobStep(i) PROVE Onward
  <2>1. PICK p \in JobPcs \ {"free", "launch"}, w \in {FALSE, jobs[i].waits}, f \in Nat, s \in Int :
                 After(i, p, w, f, s) /\ (f = jobs[i].file \/ jobs[i].file = NoFile)
    BY <1>4, JobMoved
  <2>2. crossed' = crossed
    BY <1>4, JobMoved
  <2> QED
    BY <1>0, <2>1, <2>2 DEF After, Onward
<1>5. CASE RestoreStep \/ UNCHANGED vars
  <2>1. jobs' = jobs /\ crossed' = crossed
    BY <1>5 DEF RestoreStep, apiRestoreBackup, RestoreStop, RestoreOpen, RestoreExtract, vars
  <2> QED
    BY <1>0, <2>1 DEF Onward
<1> QED
  BY <1>1, <1>2, <1>3, <1>4, <1>5 DEF Next

LEMMA WithRowIs ==
    ASSUME BackupTypes, NEW i \in Jobs
    PROVE  /\ WithRow(i) \in Seq(BackupRow) /\ Len(WithRow(i)) = Len(rows) + 1
           /\ WithRow(i)[Len(rows) + 1].file = jobs[i].file /\ WithRow(i)[Len(rows) + 1].sum = jobs[i].sum
           /\ \A j \in 1 .. Len(rows) : WithRow(i)[j] = rows[j]
<1> DEFINE r == [file |-> jobs[i].file, sum |-> jobs[i].sum]
<1>1. r \in BackupRow /\ r.file = jobs[i].file /\ r.sum = jobs[i].sum
  BY DEF BackupTypes, Job, BackupRow
<1>2. rows \in Seq(BackupRow) /\ WithRow(i) = Append(rows, r)
  BY DEF BackupTypes, WithRow
<1> HIDE DEF r
<1> QED
  BY <1>1, <1>2, AppendProperties

\* The rows and the files after a step of a job.
LEMMA JobData ==
    ASSUME BackupTypes, NEW i \in Jobs, JobStep(i)
    PROVE  /\ rows' \in Seq(BackupRow) /\ disk' \in Seq(Nat) /\ DOMAIN content' = Jobs
           /\ restore' = restore /\ lastAge' \in {0, lastAge}
<1> USE DEF time, master, agent, restoring
<1>1. rows \in Seq(BackupRow) /\ disk \in Seq(Nat) /\ DOMAIN content = Jobs /\ jobs[i].file \in Nat
  BY DEF BackupTypes, Job
<1>2. MaxCount \in Nat /\ AgentMax \in Nat
  BY CountAssumption
<1>3. WithRow(i) \in Seq(BackupRow) /\ Newest(rows, MaxCount) \in Seq(BackupRow) /\ Retained(disk) \in Seq(Nat)
  BY <1>1, <1>2, WithRowIs, NewestGives DEF Retained
<1>4. \A f \in Nat : RemoveFirst(disk, f) \in Seq(Nat) /\ Touched(f) \in Seq(Nat)
  <2>1. \A f \in Nat : RemoveFirst(disk, f) \in Seq(Nat)
    BY <1>1, RemoveFirstIs
  <2> QED
    BY <2>1, AppendProperties DEF Touched
<1>5. CASE RefusedScheduled(i) \/ RefusedManual(i) \/ GiveUp(i)
  BY <1>1, <1>5 DEF RefusedScheduled, RefusedManual, GiveUp
<1>6. CASE RecordScheduled(i) \/ RecordManual(i) \/ SetLastAt(i) \/ Trim(i)
  BY <1>1, <1>3, <1>6 DEF RecordScheduled, RecordManual, SetLastAt, Trim
<1>7. CASE ZipFails(i) \/ Retain(i) \/ ZipWrites(i)
  BY <1>1, <1>3, <1>4, <1>7 DEF ZipFails, Retain, ZipWrites
<1>8. CASE ZipEnds(i)
  BY <1>1, <1>4, <1>8 DEF ZipEnds
<1>9. ASSUME NEW f \in Names(i), ZipBegins(i, f)
      PROVE  /\ rows' \in Seq(BackupRow) /\ disk' \in Seq(Nat) /\ DOMAIN content' = Jobs
             /\ restore' = restore /\ lastAge' \in {0, lastAge}
  <2>1. f \in Nat
    BY NamesAre
  <2> QED
    BY <1>1, <1>4, <1>9, <2>1 DEF ZipBegins
<1> QED
  BY <1>5, <1>6, <1>7, <1>8, <1>9 DEF JobStep

LEMMA BackupTypesKept ==
    ASSUME BackupTypes, [Next]_vars PROVE BackupTypes'
<1> USE DEF time, master, agent, restoring
<1>1. Onward
  BY StepIsOnward
<1>2. /\ rows \in Seq(BackupRow) /\ disk \in Seq(Nat) /\ DOMAIN content = Jobs
      /\ DOMAIN restore = {"pc", "file", "sum", "wrote"} /\ lastAge \in -1 .. Guard /\ crossed \in BOOLEAN
  BY DEF BackupTypes
<1>3. Guard \in Nat
  BY TimeAssumption
<1>4. crossed' \in BOOLEAN
  <2>1. ASSUME NEW i \in Jobs, JobStep(i) PROVE crossed' = crossed
    BY <2>1, JobMoved
  <2> QED
    BY <1>2, <2>1 DEF Next, vars, Elapse, Tick, Begin, CreateBackup, RestoreStep, apiRestoreBackup,
          RestoreStop, RestoreOpen, RestoreExtract
<1>5. /\ rows' \in Seq(BackupRow) /\ disk' \in Seq(Nat) /\ DOMAIN content' = Jobs
      /\ DOMAIN restore' = {"pc", "file", "sum", "wrote"} /\ lastAge' \in -1 .. Guard
  <2>1. CASE Elapse
    BY <1>2, <1>3, <2>1 DEF Elapse
  <2>2. ASSUME NEW m \in Minutes, Tick(m) PROVE UNCHANGED <<rows, disk, content, restore, lastAge>>
    BY <2>2 DEF Tick
  <2>3. CASE CreateBackup \/ UNCHANGED vars
    BY <1>2, <2>3 DEF CreateBackup, vars
  <2>4. ASSUME NEW i \in Jobs, JobStep(i)
        PROVE  /\ rows' \in Seq(BackupRow) /\ disk' \in Seq(Nat) /\ DOMAIN content' = Jobs
               /\ restore' = restore /\ lastAge' \in -1 .. Guard
    <3>1. /\ rows' \in Seq(BackupRow) /\ disk' \in Seq(Nat) /\ DOMAIN content' = Jobs
          /\ restore' = restore /\ lastAge' \in {0, lastAge}
      BY <2>4, JobData
    <3> QED
      BY <1>2, <1>3, <3>1
  <2>5. CASE RestoreStep
    <3>1. UNCHANGED <<rows, disk, content, lastAge>>
      BY <2>5 DEF RestoreStep, apiRestoreBackup, RestoreStop, RestoreOpen, RestoreExtract
    <3>2. DOMAIN restore' = {"pc", "file", "sum", "wrote"}
      BY <1>2, <2>5 DEF RestoreStep, apiRestoreBackup, RestoreStop, RestoreOpen, RestoreExtract
    <3> QED
      BY <1>2, <3>1, <3>2
  <2> QED
    BY <1>2, <2>1, <2>2, <2>3, <2>4, <2>5 DEF Next
<1> QED
  BY <1>1, <1>4, <1>5 DEF Onward, BackupTypes

LEMMA BackupTypesStart == Init => BackupTypes
<1> SUFFICES ASSUME Init PROVE BackupTypes
  OBVIOUS
<1>1. Unused \in Job /\ Unused.file = NoFile
  BY DEF Unused, Job, JobPcs, Kind, Partial, NoFile
<1>2. Guard \in Nat
  BY TimeAssumption
<1>3. jobs \in [Jobs -> Job] /\ \A i \in Jobs : jobs[i].file = NoFile
  BY <1>1 DEF Init
<1>4. DOMAIN restore = {"pc", "file", "sum", "wrote"}
  BY DEF Init
<1>5. lastAge \in -1 .. Guard
  BY <1>2 DEF Init
<1>6. crossed \in BOOLEAN /\ rows \in Seq(BackupRow) /\ disk \in Seq(Nat) /\ DOMAIN content = Jobs
  <2>1. crossed = FALSE /\ rows = <<>> /\ disk = <<>> /\ content = [f \in Jobs |-> Partial]
    BY DEF Init
  <2>2. <<>> \in Seq(BackupRow) /\ <<>> \in Seq(Nat)
    BY EmptySeq
  <2>3. DOMAIN content = Jobs
    BY <2>1
  <2> QED
    BY <2>1, <2>2, <2>3, Zenon
<1> QED
  BY <1>3, <1>4, <1>5, <1>6 DEF BackupTypes

-----------------------------------------------------------------------------
(* The guard on backup_last_at.                                            *)

\* A scheduled backup that is over began no later than backup_last_at says.
LastInv ==
    \A i \in Jobs : jobs[i].kind = "scheduled" /\ jobs[i].pc \in {"trim", "done"}
                  => lastAge >= 0 /\ (jobs[i].age >= lastAge)

LEMMA LastKept ==
    ASSUME BackupTypes, LastInv, [Next]_vars PROVE LastInv'
<1> USE DEF time, master, agent, restoring
<1>0. /\ Guard \in Nat /\ ScheduledTimeout \in Nat /\ lastAge \in -1 .. Guard
      /\ \A k \in Jobs : jobs[k] \in Job /\ jobs[k].age \in Nat
  BY TimeAssumption DEF BackupTypes, Job
<1>1. CASE Elapse
  <2> SUFFICES ASSUME NEW i \in Jobs, jobs'[i].kind = "scheduled", jobs'[i].pc \in {"trim", "done"}
               PROVE  lastAge' >= 0 /\ jobs'[i].age >= lastAge'
    BY DEF LastInv
  <2>1. Older
    BY <1>1, ElapseAges
  <2>2. lastAge >= 0 /\ jobs[i].age >= lastAge /\ jobs[i].kind = "scheduled" /\ jobs[i].pc # "free"
    BY <2>1 DEF Older, LastInv
  <2>3. MaxAge(jobs[i].kind) >= Guard /\ MaxAge(jobs[i].kind) \in Nat
    BY <1>0, <2>2 DEF MaxAge
  <2>4. jobs'[i] = IF jobs[i].age < MaxAge(jobs[i].kind) THEN [jobs[i] EXCEPT !.age = @ + 1] ELSE jobs[i]
    BY <1>1, <2>2 DEF Elapse
  <2>5. [jobs[i] EXCEPT !.age = @ + 1].age = jobs[i].age + 1
    BY <1>0 DEF Job
  <2>6. lastAge' = IF lastAge \in {-1, Guard} THEN lastAge ELSE lastAge + 1
    BY <1>1 DEF Elapse
  <2> DEFINE a == jobs[i].age
             b == jobs'[i].age
             x == MaxAge(jobs[i].kind)
  <2>7. b = IF a < x THEN a + 1 ELSE a
    BY <2>4, <2>5
  <2>8. a \in Nat /\ x \in Nat /\ x >= Guard /\ a >= lastAge
    BY <1>0, <2>2, <2>3
  <2> HIDE DEF a, b, x
  <2>9. lastAge' >= 0 /\ b >= lastAge'
    BY <1>0, <2>2, <2>6, <2>7, <2>8
  <2> QED
    BY <2>9 DEF b
<1>2. ASSUME NEW b, NEW kind, Fresh(b, kind), lastAge' = lastAge PROVE LastInv'
  BY <1>2 DEF Fresh, LastInv
<1>3. ASSUME NEW m \in Minutes, Tick(m) PROVE LastInv'
  <2>1. CASE Due(m) /\ HasFree
    <3>1. Fresh(Free, "scheduled") /\ lastAge' = lastAge
      BY <1>3, <2>1, BeginMakes DEF Tick, Kind
    <3> QED
      BY <3>1, <1>2
  <2>2. CASE ~(Due(m) /\ HasFree)
    BY <1>3, <2>2 DEF Tick, LastInv
  <2> QED
    BY <2>1, <2>2
<1>4. CASE CreateBackup
  <2>1. Fresh(Free, "manual") /\ lastAge' = lastAge
    BY <1>4, BeginMakes DEF CreateBackup, Kind
  <2> QED
    BY <2>1, <1>2
<1>5. ASSUME NEW i \in Jobs, JobStep(i) PROVE LastInv'
  <2>1. PICK p \in JobPcs \ {"free", "launch"}, w \in {FALSE, jobs[i].waits}, f \in Nat, s \in Int :
                 After(i, p, w, f, s)
    BY <1>5, JobMoved
  <2>2. CASE SetLastAt(i)
    <3>1. lastAge' = 0
      BY <2>2 DEF SetLastAt
    <3>2. \A k \in Jobs : jobs'[k].age = jobs[k].age
      BY <2>1 DEF After
    <3> QED
      BY <1>0, <3>1, <3>2 DEF LastInv
  <2>3. CASE ~SetLastAt(i)
    <3>1. lastAge' = lastAge
      BY <1>5, <2>3 DEF JobStep, RefusedScheduled, RefusedManual, GiveUp, RecordScheduled, RecordManual,
             Trim, ZipBegins, ZipWrites, ZipEnds, ZipFails, Retain
    <3>2. ASSUME jobs'[i].kind = "scheduled", jobs'[i].pc \in {"trim", "done"}
          PROVE  jobs[i].kind = "scheduled" /\ jobs[i].pc \in {"trim", "done"}
      <4>1. jobs[i].kind = "scheduled"
        BY <2>1, <3>2 DEF After
      <4>2. ASSUME NEW q \in JobPcs, Goto(i, q), q \notin {"trim", "done"} PROVE FALSE
        BY <3>2, <4>2, GotoMoves DEF Moves, After
      <4>3. CASE RefusedScheduled(i) \/ RefusedManual(i) \/ RecordScheduled(i) \/ ZipFails(i)
        BY <4>2, <4>3 DEF RefusedScheduled, RefusedManual, RecordScheduled, ZipFails, JobPcs
      <4>4. CASE Retain(i)
        BY <4>2, <4>4 DEF Retain, JobPcs
      <4>5. CASE RecordManual(i)
        BY <4>1, <4>5 DEF RecordManual
      <4>6. CASE Trim(i)
        BY <4>1, <4>6 DEF Trim
      <4>7. CASE GiveUp(i)
        BY <3>2, <4>7, GiveUpMoves DEF After, GiveUp
      <4>8. CASE ZipWrites(i)
        BY <3>2, <4>8 DEF ZipWrites
      <4>9. CASE ZipEnds(i)
        BY <3>2, <4>9, ZipEndsMoves DEF After
      <4>10. CASE \E g \in Names(i) : ZipBegins(i, g)
        BY <3>2, <4>10, NamesAre, ZipBeginsMoves DEF After
      <4> QED
        BY <1>5, <2>3, <4>3, <4>4, <4>5, <4>6, <4>7, <4>8, <4>9, <4>10 DEF JobStep
    <3>3. \A k \in Jobs : jobs'[k].age = jobs[k].age /\ (k # i => jobs'[k] = jobs[k])
      BY <2>1 DEF After
    <3> QED
      BY <3>1, <3>2, <3>3 DEF LastInv
  <2> QED
    BY <2>2, <2>3
<1>6. CASE RestoreStep \/ UNCHANGED vars
  <2>1. jobs' = jobs /\ lastAge' = lastAge
    BY <1>6 DEF RestoreStep, apiRestoreBackup, RestoreStop, RestoreOpen, RestoreExtract, vars
  <2> QED
    BY <2>1 DEF LastInv
<1> QED
  BY <1>1, <1>3, <1>4, <1>5, <1>6 DEF Next

\* For all periods, timeouts and numbers of backups, whatever fails or is given up:
\* a scheduled backup starts within the guard of the start of another only if that
\* one has failed or is not over (tick, runBackup).
THEOREM SuccessIsNotRepeated == Spec => NoRepeatOfSuccess
<1>1. Init => LastInv
  <2>1. Unused.pc = "free"
    BY DEF Unused
  <2> QED
    BY <2>1 DEF Init, LastInv
<1>2. ASSUME BackupTypes, LastInv, [Next]_vars
      PROVE  [Starts => \A i \in Scheduled : jobs[i].age >= Guard \/ jobs[i].pc # "done"]_vars
  <2> SUFFICES ASSUME Next, Starts, NEW i \in Scheduled, jobs[i].pc = "done" PROVE jobs[i].age >= Guard
    BY <1>2 DEF Starts, vars, time
  <2>1. PICK m \in Minutes : Tick(m)
    <3>1. ~Elapse
      BY DEF Starts, Elapse
    <3>2. ASSUME NEW k \in Jobs, JobStep(k) PROVE FALSE
      BY <3>2 DEF Starts, time, JobStep, RefusedScheduled, RefusedManual, GiveUp, RecordScheduled, RecordManual,
             SetLastAt, Trim, ZipBegins, ZipWrites, ZipEnds, ZipFails, Retain
    <3>3. ~CreateBackup /\ ~RestoreStep
      BY DEF Starts, time, CreateBackup, RestoreStep, apiRestoreBackup, RestoreStop, RestoreOpen, RestoreExtract
    <3> QED
      BY <3>1, <3>2, <3>3 DEF Next
  <2>2. Due(m)
    BY <2>1 DEF Starts, Tick
  <2>3. lastAge = -1 \/ lastAge >= Guard
    BY <2>2 DEF Due
  <2>4. lastAge >= 0 /\ jobs[i].age >= lastAge /\ i \in Jobs
    BY <1>2 DEF LastInv, Scheduled
  <2>5. Guard \in Nat /\ lastAge \in Int /\ jobs[i].age \in Nat
    BY <1>2, <2>4, TimeAssumption DEF BackupTypes, Job
  <2> DEFINE a == jobs[i].age
  <2> HIDE DEF a
  <2>6. a >= Guard
    BY <2>3, <2>4, <2>5 DEF a
  <2> QED
    BY <2>6 DEF a
<1> QED
  BY <1>1, <1>2, BackupTypesStart, BackupTypesKept, LastKept, PTL DEF Spec, NoRepeatOfSuccess

-----------------------------------------------------------------------------
(* The archives and their checksums.                                       *)

\* The file of job f is complete, and the job's own.
Known(f) == f \in Jobs /\ jobs[f].file = f /\ content[f] = f

Saved == {"retain", "row", "last", "trim", "done"}

JobFile(i) ==
    /\ jobs[i].file \in {NoFile, i}
    /\ jobs[i].pc = "zip" => jobs[i].file = i /\ content[i] = Partial
    /\ jobs[i].pc \in Saved => Known(i) /\ jobs[i].sum = i

\* Each job has a file of its own, with its number; the rows and the restore name
\* files that are complete, and nothing is written to those again.
FileInv ==
    /\ \A i \in Jobs : JobFile(i)
    /\ \A r \in DOMAIN rows : Known(rows[r].file) /\ rows[r].sum = rows[r].file
    /\ restore.pc # "none" => Known(restore.file) /\ restore.sum = restore.file
    /\ restore.pc \in {"extract", "done"} => restore.wrote = restore.file

LEMMA NamesDifferedBefore ==
    ASSUME Onward, NamesDiffer' PROVE NamesDiffer
<1> SUFFICES ASSUME NEW i \in Jobs, NEW k \in Jobs, i # k, jobs[i].file # NoFile, jobs[i].file = jobs[k].file
             PROVE  FALSE
  BY DEF NamesDiffer
<1>1. jobs'[i].file = jobs[i].file /\ jobs'[k].file = jobs[k].file
  BY DEF Onward
<1> QED
  BY <1>1 DEF NamesDiffer

\* The rows after a step are among those before, but for new ones.
RowsFrom ==
    \A r \in DOMAIN rows' :
       \/ \E q \in DOMAIN rows : rows'[r] = rows[q]
       \/ Known(rows'[r].file) /\ rows'[r].sum = rows'[r].file

LEMMA FilesStay ==
    ASSUME FileInv, \A f \in Jobs : Known(f) => Known(f)', \A k \in Jobs : JobFile(k)',
           RowsFrom, restore' = restore
    PROVE  FileInv'
<1> DEFINE Fine(f) == f \in Jobs /\ jobs'[f].file = f /\ content'[f] = f
<1>0. \A f : Known(f) => Fine(f)
  <2> SUFFICES ASSUME NEW f, Known(f) PROVE Fine(f)
    OBVIOUS
  <2>1. f \in Jobs /\ Known(f)'
    BY DEF Known
  <2> QED
    BY <2>1 DEF Known
<1> HIDE DEF Fine
<1>1. \A r \in DOMAIN rows' : Fine(rows'[r].file) /\ rows'[r].sum = rows'[r].file
  BY <1>0 DEF RowsFrom, FileInv
<1>2. restore.pc # "none" => Fine(restore.file)
  BY <1>0 DEF FileInv
<1> QED
  BY <1>1, <1>2 DEF FileInv, Known, Fine

\* A job goes on, and its file is left alone.
LEMMA FileMoves ==
    ASSUME BackupTypes, FileInv, NEW i \in Jobs, NEW p, NEW w, After(i, p, w, jobs[i].file, jobs[i].sum),
           content' = content, restore' = restore, RowsFrom,
           p = "zip" => jobs[i].pc = "zip", p \in Saved => jobs[i].pc \in Saved
    PROVE  FileInv'
<1>1. \A k \in Jobs : jobs'[k].file = jobs[k].file /\ jobs'[k].sum = jobs[k].sum
  BY DEF After
<1>2. \A f \in Jobs : Known(f) => Known(f)'
  BY <1>1 DEF Known
<1>3. \A k \in Jobs : (jobs'[k].pc = "zip" => jobs[k].pc = "zip") /\ (jobs'[k].pc \in Saved => jobs[k].pc \in Saved)
  BY DEF After
<1>4. ASSUME NEW k \in Jobs PROVE JobFile(k)'
  BY <1>1, <1>2, <1>3 DEF FileInv, JobFile
<1> QED
  BY <1>2, <1>4, FilesStay

LEMMA ListedIs ==
    ASSUME BackupTypes, NEW row \in ToSet(ListBackups) PROVE \E r \in DOMAIN rows : row = rows[r]
<1> DEFINE s == Newest(rows, 50)
           n == Len(s)
           l == Len(rows)
<1>1. rows \in Seq(BackupRow) /\ l \in Nat
  BY LenProperties DEF BackupTypes
<1>2. s \in Seq(BackupRow) /\ n = (IF l <= 50 THEN l ELSE 50) /\ \A j \in 0 .. n - 1 : s[n - j] = rows[l - j]
  <2>1. \A m \in Nat : /\ Newest(rows, m) \in Seq(BackupRow)
                       /\ Len(Newest(rows, m)) = IF Len(rows) <= m THEN Len(rows) ELSE m
                       /\ \A j \in 0 .. Len(Newest(rows, m)) - 1 :
                             Newest(rows, m)[Len(Newest(rows, m)) - j] = rows[Len(rows) - j]
    BY <1>1, NewestGives, Zenon
  <2>2. 50 \in Nat
    OBVIOUS
  <2> QED
    BY <2>1, <2>2, Zenon
<1>3. PICK i \in DOMAIN Reverse(s) : row = Reverse(s)[i]
  BY DEF ToSet, ListBackups
<1>4. i \in 1 .. n /\ row = s[n - i + 1]
  BY <1>3 DEF Reverse
<1> HIDE DEF s, n, l
<1>5. n \in Nat /\ n <= l /\ i - 1 \in 0 .. n - 1 /\ n - (i - 1) = n - i + 1
  BY <1>1, <1>2, <1>4
<1>6. row = rows[l - (i - 1)]
  BY <1>2, <1>4, <1>5
<1>7. l - (i - 1) \in 1 .. l
  BY <1>1, <1>4, <1>5
<1> QED
  BY <1>1, <1>6, <1>7 DEF l

\* The name of the new file is its own: the others have theirs.
LEMMA OwnName ==
    ASSUME BackupTypes, NEW i \in Jobs, NEW f \in Names(i), ZipBegins(i, f), NamesDiffer' PROVE f = i
<1>1. SUFFICES ASSUME f # i PROVE FALSE
  OBVIOUS
<1>2. PICK k \in Jobs \ {i} : f = jobs[k].file /\ f # NoFile
  BY <1>1 DEF Names
<1>3. After(i, "zip", jobs[i].waits, f, jobs[i].sum)
  BY NamesAre, ZipBeginsMoves
<1>4. jobs'[i].file = f /\ jobs'[k].file = f
  BY <1>2, <1>3 DEF After
<1> QED
  BY <1>2, <1>4 DEF NamesDiffer

LEMMA FileJobStep ==
    ASSUME BackupTypes, FileInv, NEW i \in Jobs, JobStep(i), NamesDiffer' PROVE FileInv'
<1> USE DEF time, master, agent, restoring
<1>1. /\ JobFile(i) /\ \A k \in Jobs : JobFile(k)
      /\ jobs[i].pc \in {"free", "launch"} => jobs[i].file = NoFile
  BY DEF FileInv, BackupTypes
<1>2. rows' = rows => RowsFrom
  BY DEF RowsFrom
<1>3. ASSUME NEW p \in JobPcs, Goto(i, p), content' = content, restore' = restore, RowsFrom,
             p # "zip", p \in Saved => jobs[i].pc \in Saved
      PROVE  FileInv'
  BY <1>3, GotoMoves, FileMoves DEF Moves
<1>4. CASE RefusedScheduled(i) \/ RefusedManual(i) \/ ZipFails(i)
  BY <1>2, <1>3, <1>4 DEF RefusedScheduled, RefusedManual, ZipFails, JobPcs, Saved
<1>5. CASE SetLastAt(i)
  BY <1>2, <1>3, <1>5 DEF SetLastAt, JobPcs, Saved
<1>6. CASE Retain(i)
  BY <1>2, <1>3, <1>6 DEF Retain, JobPcs, Saved
<1>7. CASE RecordScheduled(i) \/ RecordManual(i)
  <2>1. rows' = WithRow(i) /\ jobs[i].pc = "row" /\ content' = content /\ restore' = restore
    BY <1>7 DEF RecordScheduled, RecordManual
  <2>2. Known(i) /\ jobs[i].sum = i /\ jobs[i].file = i
    BY <1>1, <2>1 DEF JobFile, Saved, Known
  <2>3. RowsFrom
    <3> DEFINE n == Len(rows)
    <3>1. rows \in Seq(BackupRow) /\ n \in Nat /\ DOMAIN rows = 1 .. n
      BY LenProperties DEF BackupTypes
    <3>2. /\ rows' \in Seq(BackupRow) /\ Len(rows') = n + 1
          /\ rows'[n + 1].file = i /\ rows'[n + 1].sum = i /\ \A j \in 1 .. n : rows'[j] = rows[j]
      BY <2>1, <2>2, WithRowIs
    <3>3. DOMAIN rows' = 1 .. n + 1
      BY <3>2
    <3> HIDE DEF n
    <3>4. \A r \in DOMAIN rows' : r \in 1 .. n \/ r = n + 1
      BY <3>1, <3>3
    <3> QED
      BY <2>2, <3>1, <3>2, <3>4 DEF RowsFrom
  <2> QED
    BY <1>3, <1>7, <2>1, <2>3 DEF RecordScheduled, RecordManual, JobPcs, Saved
<1>8. CASE Trim(i)
  <2>1. RowsFrom
    <3> DEFINE n == Len(rows)
               l == Len(rows')
    <3>1. rows \in Seq(BackupRow) /\ n \in Nat /\ DOMAIN rows = 1 .. n /\ MaxCount \in Nat
      BY LenProperties, CountAssumption DEF BackupTypes
    <3>2. rows' = Newest(rows, MaxCount)
      BY <1>8 DEF Trim
    <3>3. /\ rows' \in Seq(BackupRow) /\ l = (IF n <= MaxCount THEN n ELSE MaxCount)
          /\ \A j \in 0 .. l - 1 : rows'[l - j] = rows[n - j]
      BY <3>1, <3>2, NewestGives
    <3>4. DOMAIN rows' = 1 .. l
      BY <3>3
    <3> HIDE DEF n, l
    <3>5. l \in Nat /\ l <= n
      BY <3>1, <3>3
    <3>6. \A r \in 1 .. l : l - r \in 0 .. l - 1 /\ l - (l - r) = r /\ n - (l - r) \in 1 .. n
      BY <3>1, <3>5
    <3>7. \A r \in 1 .. l : rows'[r] = rows[n - (l - r)]
      BY <3>3, <3>6
    <3> QED
      BY <3>1, <3>4, <3>6, <3>7 DEF RowsFrom
  <2> QED
    BY <1>3, <1>8, <2>1 DEF Trim, JobPcs, Saved
<1>9. CASE GiveUp(i)
  <2>1. After(i, jobs[i].pc, FALSE, jobs[i].file, jobs[i].sum)
    BY <1>9, GiveUpMoves
  <2> QED
    BY <1>2, <1>9, <2>1, FileMoves DEF GiveUp
<1>10. CASE ZipWrites(i)
  BY <1>2, <1>10 DEF ZipWrites, FileInv, JobFile, Known
<1>11. CASE ZipEnds(i)
  <2>1. jobs[i].file = i /\ content[i] = Partial
    BY <1>1, <1>11 DEF JobFile, ZipEnds
  <2>2. After(i, "retain", jobs[i].waits, i, i)
    BY <1>11, <2>1, ZipEndsMoves DEF Partial, Torn
  <2>3. content' = [content EXCEPT ![i] = i] /\ rows' = rows /\ restore' = restore /\ DOMAIN content = Jobs
    BY <1>11, <2>1 DEF ZipEnds, Partial, Torn, BackupTypes
  <2>4. content'[i] = i /\ \A k \in Jobs \ {i} : content'[k] = content[k] /\ jobs'[k] = jobs[k]
    BY <2>2, <2>3 DEF After
  <2>5. jobs'[i].file = i /\ jobs'[i].sum = i /\ jobs'[i].pc = "retain"
    BY <2>2 DEF After
  <2>6. \A f \in Jobs : Known(f) => Known(f)'
    BY <2>4, <2>5 DEF Known
  <2>7. \A k \in Jobs : JobFile(k)'
    <3>1. JobFile(i)'
      BY <2>4, <2>5 DEF JobFile, Known
    <3>2. ASSUME NEW k \in Jobs \ {i} PROVE JobFile(k)'
      BY <1>1, <2>4 DEF JobFile, Known
    <3> QED
      BY <3>1, <3>2
  <2> QED
    BY <1>2, <2>3, <2>6, <2>7, FilesStay
<1>12. ASSUME NEW f \in Names(i), ZipBegins(i, f) PROVE FileInv'
  <2>1. f = i
    BY <1>12, OwnName
  <2>2. After(i, "zip", jobs[i].waits, i, jobs[i].sum)
    BY <1>12, <2>1, JobsAre, ZipBeginsMoves
  <2>3. Zipping(i) = {}
    <3> SUFFICES ASSUME NEW k \in Jobs, jobs[k].pc = "zip", jobs[k].file = i PROVE FALSE
      BY DEF Zipping
    <3>1. k = i
      BY <1>1 DEF JobFile
    <3> QED
      BY <1>12, <3>1 DEF ZipBegins
  <2>4. content' = [content EXCEPT ![i] = Partial] /\ rows' = rows /\ restore' = restore /\ DOMAIN content = Jobs
    BY <1>12, <2>1, <2>3 DEF ZipBegins, BackupTypes
  <2>5. content'[i] = Partial /\ \A k \in Jobs \ {i} : content'[k] = content[k] /\ jobs'[k] = jobs[k]
    BY <2>2, <2>4 DEF After
  <2>6. jobs'[i].file = i /\ jobs'[i].pc = "zip"
    BY <2>2 DEF After
  <2>7. ~Known(i)
    BY <1>1, <1>12, JobsAre DEF ZipBegins, Known
  <2>8. \A k \in Jobs : Known(k) => Known(k)'
    BY <2>5, <2>7 DEF Known
  <2>9. \A k \in Jobs : JobFile(k)'
    <3>1. JobFile(i)'
      BY <2>5, <2>6 DEF JobFile, Saved
    <3>2. ASSUME NEW k \in Jobs \ {i} PROVE JobFile(k)'
      BY <1>1, <2>5 DEF JobFile, Known
    <3> QED
      BY <3>1, <3>2
  <2> QED
    BY <1>2, <2>4, <2>8, <2>9, FilesStay
<1> QED
  BY <1>4, <1>5, <1>6, <1>7, <1>8, <1>9, <1>10, <1>11, <1>12 DEF JobStep

LEMMA FileRestoreStep ==
    ASSUME BackupTypes, FileInv, RestoreStep PROVE FileInv'
<1> USE DEF time, master, agent
<1>1. UNCHANGED <<jobs, content, rows>> /\ DOMAIN restore = {"pc", "file", "sum", "wrote"}
  BY DEF RestoreStep, apiRestoreBackup, RestoreStop, RestoreOpen, RestoreExtract, BackupTypes
<1>2. /\ restore'.pc # "none" => Known(restore'.file) /\ restore'.sum = restore'.file
      /\ restore'.pc \in {"extract", "done"} => restore'.wrote = restore'.file
  <2>1. ASSUME NEW row \in ToSet(ListBackups), NEW stopBefore \in BOOLEAN, apiRestoreBackup(row, stopBefore)
        PROVE  Known(restore'.file) /\ restore'.sum = restore'.file /\ restore'.pc \in {"stop", "open"}
    <3>1. PICK r \in DOMAIN rows : row = rows[r]
      BY ListedIs
    <3>2. restore'.file = row.file /\ restore'.sum = row.sum /\ restore'.pc \in {"stop", "open"}
      BY <2>1 DEF apiRestoreBackup
    <3> QED
      BY <3>1, <3>2 DEF FileInv
  <2>2. CASE RestoreStop
    BY <1>1, <2>2 DEF RestoreStop, FileInv
  <2>3. CASE RestoreOpen
    <3>1. Known(restore.file) /\ restore.sum = restore.file /\ content[restore.file] = restore.file
      BY <2>3 DEF RestoreOpen, FileInv, Known
    <3> QED
      BY <1>1, <2>3, <3>1 DEF RestoreOpen
  <2>4. CASE RestoreExtract
    <3>1. /\ Known(restore.file) /\ restore.sum = restore.file /\ content[restore.file] = restore.file
          /\ restore.wrote = restore.file
      BY <2>4 DEF RestoreExtract, FileInv, Known
    <3> QED
      BY <1>1, <2>4, <3>1 DEF RestoreExtract
  <2> QED
    BY <2>1, <2>2, <2>3, <2>4 DEF RestoreStep
<1>3. \A f \in Jobs : Known(f)' <=> Known(f)
  BY <1>1 DEF Known
<1>4. \A k \in Jobs : JobFile(k)'
  BY <1>1, <1>3 DEF FileInv, JobFile
<1> QED
  BY <1>1, <1>2, <1>4 DEF FileInv, Known

LEMMA FileKept ==
    ASSUME BackupTypes, NamesDiffer => FileInv, [Next]_vars, NamesDiffer' PROVE FileInv'
<1> USE DEF time, master, agent, restoring
<1>1. FileInv
  BY StepIsOnward, NamesDifferedBefore
<1>2. CASE Elapse
  <2>1. Older /\ UNCHANGED <<content, rows, restore>>
    BY <1>2, ElapseAges DEF Elapse
  <2>2. \A f \in Jobs : Known(f) => Known(f)'
    BY <2>1 DEF Older, Known
  <2>3. \A k \in Jobs : JobFile(k)'
    BY <1>1, <2>1, <2>2 DEF Older, FileInv, JobFile
  <2>4. RowsFrom
    BY <2>1 DEF RowsFrom
  <2> QED
    BY <1>1, <2>1, <2>2, <2>3, <2>4, FilesStay
<1>3. ASSUME NEW b, NEW kind, Fresh(b, kind), UNCHANGED <<content, rows, restore>> PROVE FileInv'
  <2>1. jobs[b].file = NoFile /\ b # NoFile /\ b \in Jobs
    BY <1>3, JobsAre DEF Fresh, BackupTypes
  <2>2. \A f \in Jobs : Known(f) => Known(f)'
    BY <1>3, <2>1 DEF Fresh, Known
  <2>3. ASSUME NEW k \in Jobs PROVE JobFile(k)'
    <3>1. CASE k = b
      BY <1>3, <3>1 DEF Fresh, JobFile, Saved
    <3>2. CASE k # b
      BY <1>1, <1>3, <2>2, <3>2 DEF Fresh, FileInv, JobFile
    <3> QED
      BY <3>1, <3>2
  <2>4. RowsFrom
    BY <1>3 DEF RowsFrom
  <2> QED
    BY <1>1, <1>3, <2>2, <2>3, <2>4, FilesStay
<1>4. CASE UNCHANGED <<jobs, content, rows, restore>>
  BY <1>1, <1>4 DEF FileInv, JobFile, Known
<1>5. ASSUME NEW m \in Minutes, Tick(m) PROVE FileInv'
  <2>1. CASE Due(m) /\ HasFree
    <3>1. Fresh(Free, "scheduled") /\ UNCHANGED <<content, rows, restore>>
      BY <1>5, <2>1, BeginMakes DEF Tick, Kind
    <3> QED
      BY <3>1, <1>3
  <2>2. CASE ~(Due(m) /\ HasFree)
    BY <1>4, <1>5, <2>2 DEF Tick
  <2> QED
    BY <2>1, <2>2
<1>6. CASE CreateBackup
  <2>1. Fresh(Free, "manual") /\ UNCHANGED <<content, rows, restore>>
    BY <1>6, BeginMakes DEF CreateBackup, Kind
  <2> QED
    BY <2>1, <1>3
<1>7. ASSUME NEW i \in Jobs, JobStep(i) PROVE FileInv'
  BY <1>1, <1>7, FileJobStep
<1>8. CASE UNCHANGED vars
  BY <1>4, <1>8 DEF vars
<1> QED
  BY <1>1, <1>2, <1>5, <1>6, <1>7, <1>8, FileRestoreStep DEF Next

\* For any number of backups, at any time and of any length, and any retention: a
\* restore that ends well has written the archive whose checksum its row has, and
\* so would one of any other row, unless two archives had one name
\* (CreateBackup, RestoreBackup).
THEOREM RestoredStaysRecorded == Spec => []RestoredIsRecorded
<1> DEFINE I == NamesDiffer => FileInv
<1>1. Init => I
  <2> SUFFICES ASSUME Init PROVE FileInv
    OBVIOUS
  <2>1. \A i \in Jobs : jobs[i].pc = "free" /\ jobs[i].file = NoFile
    BY DEF Init, Unused
  <2>2. \A i \in Jobs : JobFile(i)
    BY <2>1 DEF JobFile, Saved
  <2>3. rows = <<>> /\ restore.pc = "none"
    BY DEF Init
  <2> QED
    BY <2>2, <2>3 DEF FileInv
<1>2. ASSUME BackupTypes, I, [Next]_vars PROVE I'
  BY <1>2, FileKept
<1>3. I => RestoredIsRecorded
  <2> SUFFICES ASSUME NamesDiffer, FileInv
               PROVE  /\ restore.pc = "done" => restore.wrote = restore.sum
                      /\ \A r \in DOMAIN rows : Archive(r) \subseteq {rows[r].sum}
    BY DEF RestoredIsRecorded
  <2> QED
    BY DEF FileInv, Known, Archive
<1> QED
  BY <1>1, <1>2, <1>3, BackupTypesStart, BackupTypesKept, PTL DEF Spec

-----------------------------------------------------------------------------
(* What the two retentions keep.                                           *)

\* Backups are made one after the other, under names of their own, and none is
\* given up.  What is not so once never is again.
Calm == ~crossed /\ NamesDiffer /\ \A i \in Jobs : jobs[i].file # NoFile => jobs[i].waits

\* The rows R and the files D have the same end, and a row that has no file is older
\* than as many as the agent keeps.
Agree(R, D) ==
    /\ Len(D) <= AgentMax
    /\ Len(D) < AgentMax => Len(R) <= Len(D)
    /\ \A j \in 0 .. Len(D) - 1 : j < Len(R) => R[Len(R) - j].file = D[Len(D) - j]

Busy == {i \in Jobs : jobs[i].pc \in {"zip", "retain", "row"}}

KeepInv ==
    /\ \A i, k \in AtWork : i = k
    /\ \A k \in DOMAIN disk : disk[k] \in Jobs /\ jobs[disk[k]].file = disk[k]
    /\ Busy = {} => Agree(rows, disk)
    /\ \A i \in Jobs : jobs[i].pc \in {"zip", "retain"} =>
          \E D \in Seq(Nat) : disk = Append(D, i) /\ ~Contains(D, i) /\ Agree(rows, D)
    /\ \A i \in Jobs : jobs[i].pc = "row" => Agree(WithRow(i), disk)

LEMMA CalmBefore ==
    ASSUME Onward, Calm' PROVE Calm
<1>1. NamesDiffer /\ ~crossed
  BY NamesDifferedBefore DEF Calm, Onward
<1>2. \A i \in Jobs : jobs[i].file # NoFile => jobs[i].waits
  <2> SUFFICES ASSUME NEW i \in Jobs, jobs[i].file # NoFile PROVE jobs[i].waits
    OBVIOUS
  <2>1. jobs'[i].file = jobs[i].file
    BY DEF Onward
  <2>2. jobs'[i].waits
    BY <2>1 DEF Calm
  <2> QED
    BY <2>2 DEF Onward
<1> QED
  BY <1>1, <1>2 DEF Calm

\* EnforceRetention, and the row that will be added.
LEMMA RetainAgrees ==
    ASSUME NEW S, NEW R \in Seq(S), NEW R2 \in Seq(S), NEW D \in Seq(Nat), NEW i \in Nat,
           Agree(R, D), Len(R2) = Len(R) + 1, R2[Len(R) + 1].file = i, \A j \in 1 .. Len(R) : R2[j] = R[j]
    PROVE  Agree(R2, Newest(Append(D, i), AgentMax))
<1> DEFINE r == Len(R)
           d == Len(D)
           E == Append(D, i)
           N == Newest(E, AgentMax)
           n == Len(N)
<1>1. r \in Nat /\ d \in Nat /\ AgentMax \in Nat /\ AgentMax > 0
  BY LenProperties, CountAssumption
<1>2. E \in Seq(Nat) /\ Len(E) = d + 1 /\ E[d + 1] = i /\ \A j \in 1 .. d : E[j] = D[j]
  BY AppendProperties
<1>3. n = (IF d + 1 <= AgentMax THEN d + 1 ELSE AgentMax) /\ \A j \in 0 .. n - 1 : N[n - j] = E[d + 1 - j]
  <2> HIDE DEF E, d
  <2>1. n = (IF Len(E) <= AgentMax THEN Len(E) ELSE AgentMax) /\ \A j \in 0 .. n - 1 : N[n - j] = E[Len(E) - j]
    BY <1>1, <1>2, NewestGives
  <2>2. Len(E) = d + 1
    BY <1>2
  <2>3. n = (IF d + 1 <= AgentMax THEN d + 1 ELSE AgentMax)
    BY <2>1, <2>2
  <2>4. ASSUME NEW j \in 0 .. n - 1 PROVE N[n - j] = E[d + 1 - j]
    <3>1. Len(E) - j = d + 1 - j
      BY <1>1, <2>2
    <3> QED
      BY <2>1, <3>1
  <2> QED
    BY <2>3, <2>4
<1>4. d <= AgentMax /\ (d < AgentMax => r <= d) /\ \A j \in 0 .. d - 1 : j < r => R[r - j].file = D[d - j]
  BY DEF Agree
<1>5. Len(R2) = r + 1 /\ R2[r + 1].file = i /\ \A j \in 1 .. r : R2[j] = R[j]
  OBVIOUS
<1> HIDE DEF r, d, E, N, n
<1>6. n <= AgentMax /\ n \in Nat /\ n <= d + 1 /\ (n < AgentMax => r + 1 <= n)
  BY <1>1, <1>3, <1>4
<1>7. ASSUME NEW j \in 0 .. n - 1, j < r + 1 PROVE R2[r + 1 - j].file = N[n - j]
  <2>1. N[n - j] = E[d + 1 - j]
    BY <1>3
  <2>2. CASE j = 0
    <3>1. r + 1 - j = r + 1 /\ d + 1 - j = d + 1
      BY <1>1, <2>2
    <3> QED
      BY <1>2, <1>5, <2>1, <3>1
  <2>3. CASE j # 0
    <3>1. /\ j - 1 \in 0 .. d - 1 /\ j - 1 < r /\ r + 1 - j = r - (j - 1) /\ d + 1 - j = d - (j - 1)
          /\ r - (j - 1) \in 1 .. r /\ d - (j - 1) \in 1 .. d
      BY <1>1, <1>6, <1>7, <2>3
    <3>2. R[r - (j - 1)].file = D[d - (j - 1)]
      BY <1>4, <3>1
    <3> QED
      BY <1>2, <1>5, <2>1, <3>1, <3>2
  <2> QED
    BY <2>2, <2>3
<1>8. Agree(R2, N)
  <2> HIDE DEF n
  <2>1. Len(N) = n
    BY DEF n
  <2>2. Len(R2) = r + 1
    BY <1>5
  <2>3. ASSUME NEW j \in 0 .. Len(N) - 1, j < Len(R2) PROVE R2[Len(R2) - j].file = N[Len(N) - j]
    <3>1. j \in 0 .. n - 1 /\ j < r + 1 /\ Len(R2) - j = r + 1 - j /\ Len(N) - j = n - j
      BY <1>1, <1>6, <2>1, <2>2, <2>3
    <3> QED
      BY <1>7, <3>1
  <2>4. Len(N) <= AgentMax /\ (Len(N) < AgentMax => Len(R2) <= Len(N))
    BY <1>6, <2>1, <2>2
  <2> QED
    BY <2>3, <2>4, Zenon DEF Agree
<1> QED
  BY <1>8 DEF N, E

\* DeleteOldestBackups.
LEMMA TrimAgrees ==
    ASSUME NEW S, NEW R \in Seq(S), NEW D \in Seq(Nat), NEW m \in Nat, Agree(R, D)
    PROVE  Agree(Newest(R, m), D)
<1> DEFINE r == Len(R)
           d == Len(D)
           N == Newest(R, m)
           n == Len(N)
<1>1. r \in Nat /\ d \in Nat /\ AgentMax \in Nat
  BY LenProperties, CountAssumption
<1>2. n = (IF r <= m THEN r ELSE m) /\ \A j \in 0 .. n - 1 : N[n - j] = R[r - j]
  BY NewestGives
<1>3. d <= AgentMax /\ (d < AgentMax => r <= d) /\ \A j \in 0 .. d - 1 : j < r => R[r - j].file = D[d - j]
  BY DEF Agree
<1> HIDE DEF r, d, N, n
<1>4. n \in Nat /\ n <= r
  BY <1>1, <1>2
<1>5. d < AgentMax => n <= d
  BY <1>1, <1>3, <1>4
<1>6. ASSUME NEW j \in 0 .. d - 1, j < n PROVE N[n - j].file = D[d - j]
  <2>1. j \in 0 .. n - 1 /\ j < r
    BY <1>1, <1>4, <1>6
  <2> QED
    BY <1>2, <1>3, <2>1
<1>7. Agree(N, D)
  BY <1>3, <1>5, <1>6 DEF Agree, n, d
<1> QED
  BY <1>7 DEF N

\* The files after a step are among those before, but for a new one of job i.
DiskFrom(i, f) ==
    \A k \in DOMAIN disk' : (\E q \in DOMAIN disk : disk'[k] = disk[q]) \/ (disk'[k] = i /\ f = i)

\* The rows and the files agree as they must when job i is at p.
AgreeAt(i, p) ==
    \/ p \notin {"zip", "retain", "row"} /\ Agree(rows', disk')
    \/ /\ p \in {"zip", "retain"}
       /\ \E D \in Seq(Nat) : disk' = Append(D, i) /\ ~Contains(D, i) /\ Agree(rows', D)
    \/ p = "row" /\ Agree(WithRow(i)', disk')

\* The only job at work goes on.
LEMMA KeepMoves ==
    ASSUME KeepInv, NEW i \in AtWork, NEW p, NEW w, NEW f, NEW s, After(i, p, w, f, s),
           f = jobs[i].file \/ jobs[i].file = NoFile, DiskFrom(i, f), AgreeAt(i, p)
    PROVE  KeepInv'
<1>1. i \in Jobs /\ \A k \in Jobs \ {i} : k \notin AtWork
  BY DEF KeepInv, AtWork
<1>2. \A k \in Jobs \ {i} : jobs'[k] = jobs[k] /\ jobs[k].pc \in {"free", "done", "failed"}
  BY <1>1 DEF After, AtWork
<1>3. jobs'[i].pc = p /\ jobs'[i].file = f
  BY DEF After
<1>4. \A j, k \in AtWork' : j = k
  BY <1>2 DEF AtWork
<1>5. ASSUME NEW k \in DOMAIN disk' PROVE disk'[k] \in Jobs /\ jobs'[disk'[k]].file = disk'[k]
  <2>1. CASE disk'[k] = i /\ f = i
    BY <1>1, <1>3, <2>1
  <2>2. CASE \E q \in DOMAIN disk : disk'[k] = disk[q]
    <3>1. disk'[k] \in Jobs /\ jobs[disk'[k]].file = disk'[k]
      BY <2>2 DEF KeepInv
    <3>2. CASE disk'[k] = i
      BY <1>1, <1>3, <3>1, <3>2, JobsAre
    <3>3. CASE disk'[k] # i
      BY <1>2, <3>1, <3>3
    <3> QED
      BY <3>2, <3>3
  <2> QED
    BY <2>1, <2>2 DEF DiskFrom
<1>6. Busy' = {} => Agree(rows', disk')
  BY <1>1, <1>3 DEF Busy, AgreeAt
<1>7. ASSUME NEW k \in Jobs, jobs'[k].pc \in {"zip", "retain", "row"} PROVE k = i
  BY <1>2, <1>7
<1>8. \A k \in Jobs : jobs'[k].pc \in {"zip", "retain"} =>
          \E D \in Seq(Nat) : disk' = Append(D, k) /\ ~Contains(D, k) /\ Agree(rows', D)
  BY <1>3, <1>7 DEF AgreeAt
<1>9. ASSUME NEW k \in Jobs, jobs'[k].pc = "row" PROVE Agree(WithRow(k)', disk')
  <2>1. k = i /\ p = "row"
    BY <1>3, <1>7, <1>9
  <2> QED
    BY <2>1 DEF AgreeAt
<1> QED
  BY <1>4, <1>5, <1>6, <1>8, <1>9 DEF KeepInv

LEMMA KeepJobStep ==
    ASSUME BackupTypes, FileInv, KeepInv, NEW i \in Jobs, JobStep(i), Calm' PROVE KeepInv'
<1> USE DEF time, master, agent, restoring
<1>0. /\ rows \in Seq(BackupRow) /\ disk \in Seq(Nat) /\ i \in Nat /\ i # NoFile
      /\ AgentMax \in Nat /\ MaxCount \in Nat /\ JobFile(i) /\ jobs[i] \in Job
      /\ jobs[i].pc \in {"free", "launch"} => jobs[i].file = NoFile
  BY JobsAre, CountAssumption DEF BackupTypes, FileInv
<1>1. i \in AtWork
  BY DEF AtWork, JobStep, RefusedScheduled, RefusedManual, GiveUp, RecordScheduled, RecordManual,
         SetLastAt, Trim, ZipBegins, ZipWrites, ZipEnds, ZipFails, Retain
<1>2. jobs[i].pc \notin {"zip", "retain", "row"} => Agree(rows, disk)
  <2>1. \A k \in AtWork : k = i
    BY <1>1 DEF KeepInv
  <2>2. jobs[i].pc \notin {"zip", "retain", "row"} => Busy = {}
    BY <2>1 DEF Busy, AtWork
  <2> QED
    BY <2>2 DEF KeepInv
<1>3. ASSUME disk' = disk
      PROVE  DiskFrom(i, jobs[i].file)
  BY <1>3, Zenon DEF DiskFrom
<1>4. CASE RefusedScheduled(i) \/ RefusedManual(i)
  <2>1. disk' = disk /\ rows' = rows /\ Goto(i, "failed") /\ jobs[i].pc = "launch"
    BY <1>4 DEF RefusedScheduled, RefusedManual
  <2>2. After(i, "failed", jobs[i].waits, jobs[i].file, jobs[i].sum)
    BY <2>1, GotoMoves DEF Moves, JobPcs
  <2>3. AgreeAt(i, "failed")
    BY <1>2, <2>1 DEF AgreeAt
  <2> QED
    BY <1>1, <1>3, <2>1, <2>2, <2>3, KeepMoves
<1>5. CASE SetLastAt(i)
  <2>1. disk' = disk /\ rows' = rows /\ Goto(i, "trim") /\ jobs[i].pc = "last"
    BY <1>5 DEF SetLastAt
  <2>2. After(i, "trim", jobs[i].waits, jobs[i].file, jobs[i].sum)
    BY <2>1, GotoMoves DEF Moves, JobPcs
  <2>3. AgreeAt(i, "trim")
    BY <1>2, <2>1 DEF AgreeAt
  <2> QED
    BY <1>1, <1>3, <2>1, <2>2, <2>3, KeepMoves
<1>6. CASE Trim(i)
  <2>1. disk' = disk /\ rows' = Newest(rows, MaxCount) /\ Goto(i, "done") /\ jobs[i].pc = "trim"
    BY <1>6 DEF Trim
  <2>2. After(i, "done", jobs[i].waits, jobs[i].file, jobs[i].sum)
    BY <2>1, GotoMoves DEF Moves, JobPcs
  <2>3. AgreeAt(i, "done")
    BY <1>0, <1>2, <2>1, TrimAgrees DEF AgreeAt
  <2> QED
    BY <1>1, <1>3, <2>1, <2>2, <2>3, KeepMoves
<1>7. CASE RecordScheduled(i) \/ RecordManual(i)
  <2>1. PICK p \in {"last", "done"} : Goto(i, p)
    BY <1>7 DEF RecordScheduled, RecordManual
  <2>2. disk' = disk /\ rows' = WithRow(i) /\ jobs[i].pc = "row"
    BY <1>7 DEF RecordScheduled, RecordManual
  <2>3. After(i, p, jobs[i].waits, jobs[i].file, jobs[i].sum) /\ p \notin {"zip", "retain", "row"}
    BY <2>1, GotoMoves DEF Moves, JobPcs
  <2>4. AgreeAt(i, p)
    BY <2>2, <2>3 DEF KeepInv, AgreeAt
  <2> QED
    BY <1>1, <1>3, <2>2, <2>3, <2>4, KeepMoves
<1>8. CASE GiveUp(i)
  <2>1. After(i, jobs[i].pc, FALSE, jobs[i].file, jobs[i].sum) /\ jobs[i].pc \in {"zip", "retain"}
    BY <1>8, GiveUpMoves DEF GiveUp
  <2>2. jobs[i].file = i
    BY <1>0, <2>1 DEF JobFile, Saved, Known
  <2>3. jobs'[i].file # NoFile /\ ~jobs'[i].waits
    BY <1>0, <2>1, <2>2 DEF After
  <2> QED
    BY <2>3 DEF Calm
<1>9. ASSUME jobs[i].pc \in {"zip", "retain"}
      PROVE  /\ jobs[i].file = i /\ jobs[i].waits
             /\ \E D \in Seq(Nat) : disk = Append(D, i) /\ ~Contains(D, i) /\ Agree(rows, D) /\ Touched(i) = disk
                                  /\ RemoveFirst(disk, i) = D
                                  /\ \A k \in DOMAIN D : \E q \in DOMAIN disk : D[k] = disk[q]
  <2>1. jobs[i].file = i
    BY <1>0, <1>9 DEF JobFile, Saved, Known
  <2>2. jobs[i].waits
    BY <1>0, <2>1, StepIsOnward, CalmBefore DEF Calm, Next
  <2>3. PICK D \in Seq(Nat) : disk = Append(D, i) /\ ~Contains(D, i) /\ Agree(rows, D)
    BY <1>9 DEF KeepInv
  <2>4. RemoveFirst(disk, i) = D
    BY <1>0, <2>3, RemoveLast
  <2>5. \A k \in DOMAIN D : \E q \in DOMAIN disk : D[k] = disk[q]
    <3>1. Len(disk) = Len(D) + 1 /\ \A k \in 1 .. Len(D) : disk[k] = D[k]
      BY <1>0, <2>3, AppendProperties
    <3>2. DOMAIN D = 1 .. Len(D) /\ DOMAIN disk = 1 .. Len(D) + 1 /\ Len(D) \in Nat
      BY <1>0, <3>1, LenProperties
    <3>3. \A k \in 1 .. Len(D) : k \in 1 .. Len(D) + 1
      BY <3>2
    <3> QED
      BY <3>1, <3>2, <3>3
  <2> QED
    BY <2>1, <2>2, <2>3, <2>4, <2>5 DEF Touched
<1>10. CASE ZipWrites(i)
  <2>1. jobs' = jobs /\ rows' = rows /\ disk' = Touched(i) /\ jobs[i].pc = "zip"
    BY <1>9, <1>10 DEF ZipWrites
  <2>2. disk' = disk
    BY <1>9, <2>1
  <2> QED
    BY <2>1, <2>2 DEF KeepInv, Busy, AtWork, WithRow
<1>11. CASE ZipEnds(i)
  <2> DEFINE s == IF content[jobs[i].file] = Torn THEN Torn ELSE i
  <2>1. After(i, "retain", jobs[i].waits, jobs[i].file, s)
    BY <1>11, ZipEndsMoves
  <2> HIDE DEF s
  <2>2. jobs[i].pc = "zip" /\ rows' = rows /\ disk' = Touched(i)
    BY <1>9, <1>11 DEF ZipEnds
  <2>3. PICK D \in Seq(Nat) : disk = Append(D, i) /\ ~Contains(D, i) /\ Agree(rows, D) /\ Touched(i) = disk
    BY <1>9, <2>2
  <2>4. disk' = disk /\ AgreeAt(i, "retain")
    BY <2>2, <2>3 DEF AgreeAt
  <2> QED
    BY <1>1, <1>3, <2>1, <2>4, KeepMoves
<1>12. CASE ZipFails(i)
  <2>1. Goto(i, "failed") /\ jobs[i].pc = "zip" /\ rows' = rows /\ disk' = RemoveFirst(disk, i)
    BY <1>9, <1>12 DEF ZipFails
  <2>2. After(i, "failed", jobs[i].waits, jobs[i].file, jobs[i].sum)
    BY <2>1, GotoMoves DEF Moves, JobPcs
  <2>3. PICK D \in Seq(Nat) : /\ Agree(rows, D) /\ RemoveFirst(disk, i) = D
                             /\ \A k \in DOMAIN D : \E q \in DOMAIN disk : D[k] = disk[q]
    BY <1>9, <2>1
  <2>4. AgreeAt(i, "failed")
    BY <2>1, <2>3 DEF AgreeAt
  <2>5. DiskFrom(i, jobs[i].file)
    BY <2>1, <2>3, Zenon DEF DiskFrom
  <2> QED
    BY <1>1, <2>2, <2>4, <2>5, KeepMoves
<1>13. CASE Retain(i)
  <2>1. Goto(i, "row") /\ jobs[i].pc = "retain" /\ rows' = rows /\ disk' = Newest(disk, AgentMax)
    BY <1>9, <1>13 DEF Retain, Retained
  <2>2. After(i, "row", jobs[i].waits, jobs[i].file, jobs[i].sum)
    BY <2>1, GotoMoves DEF Moves, JobPcs
  <2>3. jobs[i].file = i /\ \E D \in Seq(Nat) : disk = Append(D, i) /\ Agree(rows, D)
    BY <1>9, <2>1
  <2>4. PICK D \in Seq(Nat) : disk = Append(D, i) /\ Agree(rows, D)
    BY <2>3
  <2>5. /\ WithRow(i) \in Seq(BackupRow) /\ Len(WithRow(i)) = Len(rows) + 1
        /\ WithRow(i)[Len(rows) + 1].file = i /\ \A j \in 1 .. Len(rows) : WithRow(i)[j] = rows[j]
    BY <2>3, WithRowIs
  <2>6. Agree(WithRow(i), disk')
    BY <1>0, <2>1, <2>4, <2>5, RetainAgrees
  <2>7. WithRow(i)' = WithRow(i)
    BY <2>1, <2>2 DEF After, WithRow
  <2>8. \A k \in DOMAIN disk' : \E q \in DOMAIN disk : disk'[k] = disk[q]
    <3> DEFINE n == Len(disk)
               l == Len(disk')
    <3>1. n \in Nat /\ DOMAIN disk = 1 .. n
      BY <1>0, LenProperties
    <3>2. /\ disk' \in Seq(Nat) /\ l = (IF n <= AgentMax THEN n ELSE AgentMax)
          /\ \A j \in 0 .. l - 1 : disk'[l - j] = disk[n - j]
      BY <1>0, <2>1, NewestGives
    <3>3. DOMAIN disk' = 1 .. l
      BY <3>2
    <3> HIDE DEF n, l
    <3>4. l \in Nat /\ l <= n
      BY <1>0, <3>1, <3>2
    <3>5. \A k \in 1 .. l : l - k \in 0 .. l - 1 /\ l - (l - k) = k /\ n - (l - k) \in 1 .. n
      BY <3>1, <3>4
    <3>6. \A k \in 1 .. l : disk'[k] = disk[n - (l - k)]
      BY <3>2, <3>5
    <3> QED
      BY <3>1, <3>3, <3>5, <3>6
  <2>9. AgreeAt(i, "row")
    BY <2>6, <2>7 DEF AgreeAt
  <2>10. DiskFrom(i, jobs[i].file)
    BY <2>8, Zenon DEF DiskFrom
  <2> QED
    BY <1>1, <2>2, <2>9, <2>10, KeepMoves
<1>14. ASSUME NEW f \in Names(i), ZipBegins(i, f) PROVE KeepInv'
  <2>1. f = i
    BY <1>14, OwnName DEF Calm
  <2>2. After(i, "zip", jobs[i].waits, i, jobs[i].sum)
    BY <1>0, <1>14, <2>1, ZipBeginsMoves
  <2>3. jobs[i].pc = "launch" /\ jobs[i].file = NoFile /\ rows' = rows /\ disk' = Touched(i)
    BY <1>0, <1>14, <2>1 DEF ZipBegins
  <2>4. ~Contains(disk, i)
    <3>1. \A k \in DOMAIN disk : disk[k] # i
      BY <1>0, <2>3 DEF KeepInv
    <3> QED
      BY <1>0, <3>1 DEF Contains
  <2>5. disk' = Append(disk, i)
    BY <1>0, <2>3, <2>4, RemoveFirstIs DEF Touched
  <2>6. Agree(rows', disk)
    BY <1>2, <2>3
  <2>7. \A k \in DOMAIN disk' : (\E q \in DOMAIN disk : disk'[k] = disk[q]) \/ disk'[k] = i
    <3> DEFINE n == Len(disk)
    <3>1. n \in Nat /\ DOMAIN disk = 1 .. n
      BY <1>0, LenProperties
    <3>2. disk' \in Seq(Nat) /\ Len(disk') = n + 1 /\ disk'[n + 1] = i /\ \A k \in 1 .. n : disk'[k] = disk[k]
      BY <1>0, <2>5, AppendProperties
    <3>3. DOMAIN disk' = 1 .. n + 1
      BY <3>2
    <3> HIDE DEF n
    <3>4. \A k \in 1 .. n + 1 : k \in 1 .. n \/ k = n + 1
      BY <3>1
    <3> QED
      BY <3>1, <3>2, <3>3, <3>4
  <2>8. AgreeAt(i, "zip") /\ DiskFrom(i, i)
    BY <1>0, <2>4, <2>5, <2>6, <2>7 DEF AgreeAt, DiskFrom
  <2> QED
    BY <1>1, <2>2, <2>3, <2>8, KeepMoves
<1> QED
  BY <1>4, <1>5, <1>6, <1>7, <1>8, <1>10, <1>11, <1>12, <1>13, <1>14 DEF JobStep

LEMMA KeepKept ==
    ASSUME BackupTypes, NamesDiffer => FileInv, Calm => KeepInv, [Next]_vars, Calm' PROVE KeepInv'
<1> USE DEF time, master, agent, restoring
<1>1. KeepInv /\ FileInv
  <2>1. Calm
    BY StepIsOnward, CalmBefore
  <2> QED
    BY <2>1 DEF Calm
<1>2. ASSUME \A k \in Jobs : jobs'[k].pc = jobs[k].pc /\ jobs'[k].file = jobs[k].file /\ jobs'[k].sum = jobs[k].sum,
             UNCHANGED <<rows, disk>>
      PROVE  KeepInv'
  <2>1. AtWork' = AtWork /\ Busy' = Busy
    BY <1>2 DEF AtWork, Busy
  <2>2. \A k \in Jobs : WithRow(k)' = WithRow(k)
    BY <1>2 DEF WithRow
  <2>3. \A k \in DOMAIN disk' : disk'[k] \in Jobs /\ jobs'[disk'[k]].file = disk'[k]
    BY <1>1, <1>2 DEF KeepInv
  <2>4. ASSUME NEW i \in Jobs, jobs'[i].pc \in {"zip", "retain"}
        PROVE  \E D \in Seq(Nat) : disk' = Append(D, i) /\ ~Contains(D, i) /\ Agree(rows', D)
    BY <1>1, <1>2, <2>4 DEF KeepInv
  <2>5. ASSUME NEW i \in Jobs, jobs'[i].pc = "row" PROVE Agree(WithRow(i)', disk')
    BY <1>1, <1>2, <2>2, <2>5 DEF KeepInv
  <2>6. (\A i, k \in AtWork' : i = k) /\ (Busy' = {} => Agree(rows', disk'))
    BY <1>1, <1>2, <2>1 DEF KeepInv
  <2> QED
    BY <2>3, <2>4, <2>5, <2>6 DEF KeepInv
<1>3. CASE Elapse
  <2>1. Older /\ UNCHANGED <<rows, disk>>
    BY <1>3, ElapseAges DEF Elapse
  <2> QED
    BY <1>2, <2>1 DEF Older
<1>4. ASSUME NEW b, NEW kind, Fresh(b, kind), crossed' = (crossed \/ AtWork # {}), UNCHANGED <<rows, disk>>
      PROVE  KeepInv'
  <2>1. AtWork = {}
    BY <1>4 DEF Calm
  <2>2. \A k \in Jobs : jobs[k].pc \in {"free", "done", "failed"}
    BY <2>1 DEF AtWork
  <2>3. \A k \in Jobs : jobs'[k].pc \notin {"zip", "retain", "row"} /\ (k # b => jobs'[k] = jobs[k])
    BY <1>4, <2>2 DEF Fresh
  <2>4. \A i, k \in AtWork' : i = k
    BY <2>2, <2>3 DEF AtWork
  <2>5. jobs[b].file = NoFile /\ b \in Jobs
    BY <1>4 DEF Fresh, BackupTypes
  <2>6. ASSUME NEW k \in DOMAIN disk PROVE disk[k] \in Jobs /\ jobs'[disk[k]].file = disk[k]
    <3>1. disk[k] \in Jobs /\ jobs[disk[k]].file = disk[k] /\ disk[k] # NoFile
      BY <1>1, JobsAre DEF KeepInv
    <3> QED
      BY <2>3, <2>5, <3>1
  <2>7. Agree(rows, disk)
    BY <1>1, <2>2 DEF KeepInv, Busy
  <2> QED
    BY <1>4, <2>3, <2>4, <2>6, <2>7 DEF KeepInv
<1>5. ASSUME NEW m \in Minutes, Tick(m) PROVE KeepInv'
  <2>1. CASE Due(m) /\ HasFree
    <3>1. Fresh(Free, "scheduled") /\ crossed' = (crossed \/ AtWork # {}) /\ UNCHANGED <<rows, disk>>
      BY <1>5, <2>1, BeginMakes DEF Tick, Kind
    <3> QED
      BY <3>1, <1>4
  <2>2. CASE ~(Due(m) /\ HasFree)
    BY <1>2, <1>5, <2>2 DEF Tick
  <2> QED
    BY <2>1, <2>2
<1>6. CASE CreateBackup
  <2>1. Fresh(Free, "manual") /\ crossed' = (crossed \/ AtWork # {}) /\ UNCHANGED <<rows, disk>>
    BY <1>6, BeginMakes DEF CreateBackup, Kind
  <2> QED
    BY <2>1, <1>4
<1>7. ASSUME NEW i \in Jobs, JobStep(i) PROVE KeepInv'
  BY <1>1, <1>7, KeepJobStep
<1>8. CASE RestoreStep \/ UNCHANGED vars
  <2>1. UNCHANGED <<jobs, rows, disk>>
    BY <1>8 DEF RestoreStep, apiRestoreBackup, RestoreStop, RestoreOpen, RestoreExtract, vars
  <2> QED
    BY <1>2, <2>1
<1> QED
  BY <1>3, <1>5, <1>6, <1>7, <1>8 DEF Next

\* For all limits of the agent and of the instance: backups made one after the other
\* leave files for the newest rows, as many as the agent keeps, though files and rows
\* are trimmed by different limits on different occasions (EnforceRetention,
\* DeleteOldestBackups).
THEOREM NewestStayKept == Spec => []NewestAreKept
<1> DEFINE F == NamesDiffer => FileInv
           K == Calm => KeepInv
<1>1. Init => F /\ K
  <2> SUFFICES ASSUME Init PROVE FileInv /\ KeepInv
    OBVIOUS
  <2>1. \A i \in Jobs : jobs[i].pc = "free" /\ jobs[i].file = NoFile
    BY DEF Init, Unused
  <2>2. FileInv
    <3>1. \A i \in Jobs : JobFile(i)
      BY <2>1 DEF JobFile, Saved
    <3>2. rows = <<>> /\ restore.pc = "none"
      BY DEF Init
    <3> QED
      BY <3>1, <3>2 DEF FileInv
  <2>3. KeepInv
    <3>1. rows = <<>> /\ disk = <<>> /\ AgentMax \in Nat
      BY CountAssumption DEF Init
    <3>2. Agree(<<>>, <<>>)
      BY <3>1 DEF Agree
    <3> QED
      BY <2>1, <3>1, <3>2 DEF KeepInv, AtWork
  <2> QED
    BY <2>2, <2>3
<1>2. ASSUME BackupTypes, F, K, [Next]_vars PROVE F' /\ K'
  BY <1>2, FileKept, KeepKept
<1>3. ASSUME BackupTypes, K PROVE NewestAreKept
  <2> SUFFICES ASSUME ~crossed, AtWork = {}, NamesDiffer, \A i \in Jobs : jobs[i].file # NoFile => jobs[i].waits,
                      NEW r \in DOMAIN rows, r > Len(rows) - AgentMax
               PROVE  Contains(disk, rows[r].file)
    BY DEF NewestAreKept, Archive
  <2>1. KeepInv /\ Busy = {}
    BY <1>3 DEF Calm, AtWork, Busy
  <2>2. Agree(rows, disk)
    BY <2>1 DEF KeepInv
  <2> DEFINE n == Len(rows)
             d == Len(disk)
             j == n - r
  <2>3. n \in Nat /\ d \in Nat /\ AgentMax \in Nat /\ r \in 1 .. n
    BY <1>3, LenProperties, CountAssumption DEF BackupTypes
  <2>4. /\ d <= AgentMax /\ (d < AgentMax => n <= d) /\ r > n - AgentMax
        /\ \A q \in 0 .. d - 1 : q < n => rows[n - q].file = disk[d - q]
    BY <2>2 DEF Agree
  <2> HIDE DEF n, d
  <2>5. j \in 0 .. d - 1 /\ j < n /\ n - j = r /\ d - j \in 1 .. d
    BY <2>3, <2>4
  <2>6. rows[r].file = disk[d - j]
    BY <2>4, <2>5
  <2> QED
    BY <2>5, <2>6 DEF Contains, d
<1> QED
  BY <1>1, <1>2, <1>3, BackupTypesStart, BackupTypesKept, PTL DEF Spec

-----------------------------------------------------------------------------
(* Cron expressions.                                                       *)

LEMMA LimitsAre ==
    \A i \in 1 .. 5 : Limits[i][1] \in {0, 1} /\ Limits[i][2] \in Nat /\ Limits[i][2] >= 6
  BY DEF Limits

\* The multiples of a step are what leaves no remainder.
LEMMA Multiples ==
    ASSUME NEW v \in Nat, NEW n \in Int
    PROVE  (n > 0 /\ v % n = 0) <=> (n > 0 /\ \E k \in 0 .. v : v = k * n)
<1> SUFFICES ASSUME n > 0 PROVE v % n = 0 <=> \E k \in 0 .. v : v = k * n
  OBVIOUS
<1>1. n \in Nat
  OBVIOUS
<1>2. ASSUME v % n = 0 PROVE \E k \in 0 .. v : v = k * n
  <2> DEFINE d == v \div n
  <2>1. d \in Nat /\ v = n * d + (v % n)
    BY <1>1
  <2> HIDE DEF d
  <2>2. v = d * n
    BY <1>1, <1>2, <2>1
  <2>3. d * n >= d
    BY <1>1, <2>1
  <2>4. d \in 0 .. v
    BY <2>1, <2>2, <2>3
  <2> QED
    BY <2>2, <2>4
<1>3. ASSUME NEW k \in 0 .. v, v = k * n PROVE v % n = 0
  <2>1. (k * n) % n = 0
    BY <1>1
  <2> QED
    BY <1>3, <2>1
<1> QED
  BY <1>2, <1>3

\* A part matches the values it denotes, or none if it is a range with a step.
LEMMA PartMeans ==
    ASSUME NEW part, IsPart(part), NEW i \in 1 .. 5, NEW v \in Nat, Limits[i][1] <= v, v <= Limits[i][2]
    PROVE  /\ cronPartMatches(part, v) => v \in Values(part, Limits[i])
           /\ v \in Values(part, Limits[i]) => cronPartMatches(part, v) \/ part.kind = "stepped"
<1>1. Limits[i][1] \in Int /\ Limits[i][2] \in Int
  BY LimitsAre
<1>2. CASE part.kind = "any"
  BY <1>1, <1>2 DEF cronPartMatches, Values
<1>3. CASE part.kind = "step"
  <2>1. part.n \in Int
    BY <1>3 DEF IsPart
  <2>2. cronPartMatches(part, v) <=> part.n > 0 /\ v % part.n = 0
    BY <1>3 DEF cronPartMatches
  <2>3. Values(part, Limits[i]) =
           {u \in Limits[i][1] .. Limits[i][2] : part.n > 0 /\ \E k \in 0 .. u : u = k * part.n}
    BY <1>3 DEF Values
  <2>4. v \in Limits[i][1] .. Limits[i][2]
    BY <1>1
  <2> QED
    BY <2>1, <2>2, <2>3, <2>4, Multiples, Zenon
<1>4. CASE part.kind = "num"
  BY <1>4 DEF cronPartMatches, Values, IsPart
<1>5. CASE part.kind = "range"
  BY <1>5 DEF cronPartMatches, Values, IsPart
<1>6. CASE part.kind \in {"stepped", "bad"}
  BY <1>6 DEF cronPartMatches, Values
<1> QED
  BY <1>2, <1>3, <1>4, <1>5, <1>6 DEF IsPart

\* A part that ValidateCron accepts denotes values of its field.
LEMMA ValidPart ==
    ASSUME NEW part, IsPart(part), NEW i \in 1 .. 5, validateCronPart(part, Limits[i][1], Limits[i][2])
    PROVE  /\ Values(part, Limits[i]) # {}
           /\ \A v \in Values(part, Limits[i]) : Limits[i][1] <= v /\ v <= Limits[i][2]
<1> DEFINE lo == Limits[i][1]
           hi == Limits[i][2]
<1>1. lo \in {0, 1} /\ hi \in Nat /\ hi >= 6
  BY LimitsAre
<1>2. CASE part.kind = "any"
  <2>1. Values(part, Limits[i]) = lo .. hi
    BY <1>2 DEF Values
  <2> HIDE DEF lo, hi
  <2>2. 6 \in lo .. hi
    BY <1>1
  <2>3. \A v \in lo .. hi : lo <= v /\ v <= hi
    BY <1>1
  <2> QED
    BY <2>1, <2>2, <2>3 DEF lo, hi
<1>3. CASE part.kind = "step"
  <2>1. part.n \in Int /\ 0 < part.n /\ part.n <= hi
    BY <1>3 DEF IsPart, validateCronPart
  <2>2. Values(part, Limits[i]) = {u \in lo .. hi : part.n > 0 /\ \E k \in 0 .. u : u = k * part.n}
    BY <1>3 DEF Values
  <2> DEFINE n == part.n
  <2> HIDE DEF lo, hi, n
  <2>3. n \in lo .. hi /\ n > 0 /\ 1 \in 0 .. n /\ n = 1 * n
    BY <1>1, <2>1 DEF n
  <2>4. n \in Values(part, Limits[i])
    BY <2>2, <2>3 DEF n
  <2>5. \A v \in lo .. hi : lo <= v /\ v <= hi
    BY <1>1
  <2> QED
    BY <2>2, <2>4, <2>5 DEF lo, hi
<1>4. CASE part.kind = "num"
  BY <1>4 DEF Values, IsPart, validateCronPart
<1>5. CASE part.kind = "range"
  <2>1. part.lo \in Int /\ part.hi \in Int /\ lo <= part.lo /\ part.lo <= part.hi /\ part.hi <= hi
    BY <1>5 DEF IsPart, validateCronPart
  <2>2. Values(part, Limits[i]) = part.lo .. part.hi
    BY <1>5 DEF Values
  <2> HIDE DEF lo, hi
  <2>3. part.lo \in part.lo .. part.hi /\ \A v \in part.lo .. part.hi : lo <= v /\ v <= hi
    BY <1>1, <2>1
  <2> QED
    BY <2>2, <2>3 DEF lo, hi
<1>6. CASE part.kind \in {"stepped", "bad"}
  BY <1>6 DEF validateCronPart
<1> QED
  BY <1>2, <1>3, <1>4, <1>5, <1>6 DEF IsPart

\* For every expression and every time, not only those tried: the five tests by
\* the characters of a part give what the expression denotes, but for a range with a
\* step, and ValidateCron lets none pass that has one or that denotes nothing or a
\* value no time has.
LEMMA ExpressionMeans ==
    ASSUME NEW expr, IsExpression(expr), NEW t \in Times PROVE Means(expr, t)
<1>1. \A i \in 1 .. 5 : t[i] \in Nat /\ Limits[i][1] <= t[i] /\ t[i] <= Limits[i][2]
  BY DEF Times
<1>2. \A i \in 1 .. 5 : expr[i] # {} /\ \A part \in expr[i] : IsPart(part)
  BY DEF IsExpression
<1>3. ASSUME NEW i \in 1 .. 5
      PROVE  /\ cronFieldMatches(expr[i], t[i]) => t[i] \in FieldValues(expr, i)
             /\ t[i] \in FieldValues(expr, i) => cronFieldMatches(expr[i], t[i]) \/ HasStepped(expr)
  <2>1. \A part \in expr[i] :
          /\ cronPartMatches(part, t[i]) => t[i] \in Values(part, Limits[i])
          /\ t[i] \in Values(part, Limits[i]) => cronPartMatches(part, t[i]) \/ part.kind = "stepped"
    BY <1>1, <1>2, PartMeans
  <2> QED
    BY <2>1 DEF cronFieldMatches, FieldValues, HasStepped
<1>4. /\ cronMatches(expr, t) => Denotes(expr, t)
      /\ Denotes(expr, t) => cronMatches(expr, t) \/ HasStepped(expr)
  BY <1>3 DEF cronMatches, Denotes
<1>6. ValidateCron(expr) => ~HasStepped(expr)
  BY DEF ValidateCron, validateCronField, validateCronPart, HasStepped
<1>5. ASSUME ValidateCron(expr), NEW i \in 1 .. 5
      PROVE  /\ FieldValues(expr, i) # {}
             /\ \A v \in FieldValues(expr, i) : Limits[i][1] <= v /\ v <= Limits[i][2]
  <2>1. \A part \in expr[i] : validateCronPart(part, Limits[i][1], Limits[i][2])
    BY <1>5 DEF ValidateCron, validateCronField
  <2>2. \A part \in expr[i] : /\ Values(part, Limits[i]) # {}
                              /\ \A v \in Values(part, Limits[i]) : Limits[i][1] <= v /\ v <= Limits[i][2]
    BY <1>2, <2>1, ValidPart
  <2> QED
    BY <1>2, <2>2 DEF FieldValues
<1> QED
  BY <1>4, <1>5, <1>6 DEF Means

LEMMA MinuteKept ==
    ASSUME minute \in DOMAIN Calendar, [Next]_vars PROVE minute' \in DOMAIN Calendar
<1> USE DEF time
<1>1. CASE \E m \in Minutes : Tick(m)
  <2>1. PICK m \in Minutes : minute' = m
    BY <1>1 DEF Tick
  <2> DEFINE n == Len(Calendar)
  <2>2. n \in Nat /\ n > 0 /\ DOMAIN Calendar = 1 .. n
    BY CalendarAssumption, EmptySeq, LenProperties
  <2>3. PICK k \in {-1, 0, 1} : m = 1 + ((minute + k) % n)
    BY DEF Minutes
  <2> HIDE DEF n
  <2>4. minute + k \in Int
    BY <2>2
  <2>5. (minute + k) % n \in 0 .. n - 1
    BY <2>2, <2>4
  <2> QED
    BY <2>1, <2>2, <2>3, <2>5
<1>2. CASE ~\E m \in Minutes : Tick(m)
  <2>1. minute' = minute
    BY <1>2 DEF Next, vars, Elapse, CreateBackup, RestoreStep, apiRestoreBackup, RestoreStop, RestoreOpen,
           RestoreExtract, JobStep, RefusedScheduled, RefusedManual, GiveUp, RecordScheduled, RecordManual,
           SetLastAt, Trim, ZipBegins, ZipWrites, ZipEnds, ZipFails, Retain
  <2> QED
    BY <2>1
<1> QED
  BY <1>1, <1>2

\* For every set of expressions and every calendar: a minute matches what denotes it
\* and nothing else, but for ranges with a step, which ValidateCron does not accept
\* (cronMatches, ValidateCron).
THEOREM CronStaysMeant == Spec => []CronMeans
<1> DEFINE I == minute \in DOMAIN Calendar
<1>1. Init => I
  <2>1. Calendar \in Seq(Times) /\ Len(Calendar) \in Nat /\ Len(Calendar) > 0
    BY CalendarAssumption, EmptySeq, LenProperties
  <2> QED
    BY <2>1 DEF Init
<1>2. I /\ [Next]_vars => I'
  BY MinuteKept
<1>3. I => CronMeans
  <2> SUFFICES ASSUME I, NEW expr \in Exprs PROVE Means(expr, Calendar[minute])
    BY DEF CronMeans, Meant
  <2>1. Calendar[minute] \in Times /\ IsExpression(expr)
    BY CalendarAssumption, ExprsAssumption, ElementOfSeq
  <2> QED
    BY <2>1, ExpressionMeans
<1> QED
  BY <1>1, <1>2, <1>3, PTL DEF Spec
=============================================================================
