--------------------------- MODULE FileSyncProofs ---------------------------
(***************************************************************************)
(* No agent's file is replaced by parts of two or by an older one, for any *)
(* number of agents, saves and breaks, though it is read twice, in halves, *)
(* while it is being written and removed.  The watcher has the directories *)
(* of the mappings in the table, and a save reaches the instances that are *)
(* on, for any number of instances, requests and jobs.                     *)
(***************************************************************************)
EXTENDS FileSync, SyncJobs, SequenceTheorems, TLAPS

-----------------------------------------------------------------------------
(* The file: hash, push and the agent's copy.                              *)

Engine == [pc : Pcs, hash : Seq(Int), todo : SUBSET Agents, to : SUBSET Agents,
           got : Seq(Int), fd : Nat]
Orphan == [on : BOOLEAN, pos : Nat, val : Int, at : {"none", "tmp", "final"}]

TypeInv ==
    /\ ver \in Nat
    /\ engine \in Engine
    /\ orphan \in [Agents -> Orphan]
    /\ DOMAIN tmp = Agents /\ DOMAIN final = Agents
    /\ crossed \subseteq Agents /\ targets \subseteq Agents

\* The file is empty when a save has begun, has its version from the first half on,
\* or is gone.
SourceInv ==
    \/ saving = "begun" /\ src = Empty /\ ver >= 1
    \/ saving = "half" /\ src = ver /\ ver >= 1
    \/ saving = "no" /\ (src = Gone \/ (src = ver /\ ver >= 1))

\* What the engine has read.  A first half that is no longer the file's is of a
\* version that is past, unless the engine still has that file open.  A version that
\* was removed was whole.
HashInv ==
    engine.pc = "hash" =>
       \E h \in 0 .. ver :
          /\ engine.got = <<h>>
          /\ h # Empty => (IF engine.fd = Linked THEN src ELSE engine.fd) = h \/ ver > h
OpenInv == engine.fd # Linked => engine.fd <= ver /\ (saving = "no" \/ ver > engine.fd)

\* No agent has the whole of a version.
Unwhole(v) == \A a \in Agents \ crossed : final[a] # <<v, v>>

\* So the hash is of a version that is whole, or of the beginning of one that nobody
\* has the whole of, or of a version that is past; and the first half of a push, which
\* is of the version there is, cannot agree with a hash of the last kind.
Hashed(h, i) ==
    /\ h <= ver
    /\ h # i => ver > h \/ (i = Empty /\ Unwhole(h))
    /\ h = i => saving = "no" \/ ver # h
Pushed(h, i) ==
    /\ engine.got # <<>> /\ engine.got[1] >= 1 /\ engine.got[1] <= ver
    /\ engine.got[1] = h /\ h # i => i = Empty /\ Unwhole(h)
SentInv ==
    engine.pc \in {"next", "second", "verify"} =>
       \E h, i \in Int : /\ engine.hash = <<h, i>> /\ Hashed(h, i)
                         /\ engine.pc \in {"second", "verify"} => Pushed(h, i)

\* A push is to one agent, and what it has sent so far is in the temporary file,
\* unless a handler that was given up is at work there.
PushInv ==
    /\ engine.pc \notin {"second", "verify"} => engine.to = {}
    /\ engine.pc \in {"second", "verify"} => \E a \in Agents : engine.to = {a}
    /\ engine.pc = "second" => \E g \in Int : engine.got = <<g>>
    /\ engine.pc = "verify" => \E g, i \in Int : engine.got = <<g, i>>
    /\ \A a \in Agents \ crossed :
          /\ orphan[a].at # "final"
          /\ a \in engine.to => ~orphan[a].on
          /\ a \in engine.to /\ engine.pc = "second" => tmp[a] = <<engine.got[1], Empty>>
          /\ a \in engine.to /\ engine.pc = "verify" => tmp[a] = engine.got

\* The files in place are of one version, whole or its beginning, no later than what
\* is being pushed to them; and none is the whole of a version that is being saved.
FinalInv ==
    /\ \A a \in Agents \ crossed :
          final[a] # NoFile =>
             \E f \in 1 .. ver, j \in Int : /\ final[a] = <<f, j>> /\ j \in {f, Empty}
                                            /\ a \in engine.to => f <= engine.got[1]
    /\ saving # "no" => Unwhole(ver)

Inv == TypeInv /\ SourceInv /\ HashInv /\ OpenInv /\ SentInv /\ PushInv /\ FinalInv

-----------------------------------------------------------------------------
(* What a step does to the engine.                                         *)

LEMMA Values ==
    /\ NoFile \in Seq(Int) /\ NoFile = <<>> /\ Empty = 0 /\ Gone \in Int /\ Linked = 0
    /\ \A x \in Int : <<x>> \in Seq(Int) /\ <<x>> # NoFile /\ <<x>>[1] = x /\ Len(<<x>>) = 1
    /\ \A x, y \in Int : /\ <<x, y>> \in Seq(Int) /\ <<x, y>> # NoFile /\ Len(<<x, y>>) = 2
                         /\ <<x, y>>[1] = x /\ <<x, y>>[2] = y
  BY DEF NoFile, Empty, Gone, Linked

LEMMA IdleEngine == Idle \in Engine /\ Idle.pc = "idle" /\ Idle.to = {} /\ Idle.fd = Linked
<1>1. NoFile \in Seq(Int) /\ Linked \in Nat
  BY Values
<1> QED
  BY <1>1 DEF Idle, Engine, Pcs

\* What a read gives: the version there is, or nothing.
LEMMA FirstRead ==
    ASSUME TypeInv, SourceInv
    PROVE  /\ ReadFirst \in 0 .. ver
           /\ ReadFirst # Empty => ReadFirst = ver
           /\ src # Gone => ReadFirst = src
           /\ ReadFirst = ver /\ ver >= 1 => saving # "begun"
  BY Values DEF TypeInv, SourceInv, ReadFirst, Gone

LEMMA SecondRead ==
    ASSUME TypeInv, SourceInv, NEW first \in Int
    PROVE  /\ ReadSecond(first) \in Int
           /\ first = Empty => ReadSecond(first) = Empty
           /\ engine.fd # Linked /\ first # Empty => ReadSecond(first) = engine.fd
           /\ engine.fd = Linked /\ first # Empty =>
                 ReadSecond(first) = IF saving = "half" THEN Empty ELSE ReadFirst
<1>1. ReadFirst \in Int /\ engine.fd \in Int /\ Empty \in Int
  BY FirstRead, Values DEF TypeInv, Engine
<1> QED
  BY <1>1 DEF ReadSecond

LEMMA RemoveEffect ==
    ASSUME TypeInv, SourceInv, RemoveSource
    PROVE  /\ engine' \in Engine /\ engine'.pc = engine.pc /\ engine'.hash = engine.hash
           /\ engine'.to = engine.to /\ engine'.got = engine.got
           /\ src = ver /\ ver >= 1 /\ saving = "no"
           /\ engine'.fd = IF engine.pc \in {"hash", "second"} /\ engine.fd = Linked THEN ver ELSE engine.fd
<1>1. /\ src = ver /\ ver >= 1 /\ saving = "no" /\ ver \in Nat
      /\ engine' = [engine EXCEPT !.fd = IF engine.pc \in {"hash", "second"} /\ @ = Linked THEN src ELSE @]
  BY DEF RemoveSource, SourceInv, TypeInv
<1> DEFINE fd == IF engine.pc \in {"hash", "second"} /\ engine.fd = Linked THEN ver ELSE engine.fd
<1>2. fd \in Nat
  BY <1>1 DEF TypeInv, Engine
<1>3. engine' = [engine EXCEPT !.fd = fd]
  BY <1>1 DEF TypeInv, Engine
<1>4. fd = IF engine.pc \in {"hash", "second"} /\ engine.fd = Linked THEN ver ELSE engine.fd
  OBVIOUS
<1> HIDE DEF fd
<1>5. /\ engine' \in Engine /\ engine'.pc = engine.pc /\ engine'.hash = engine.hash
      /\ engine'.to = engine.to /\ engine'.got = engine.got /\ engine'.fd = fd
  BY <1>2, <1>3 DEF TypeInv, Engine
<1> QED
  BY <1>1, <1>4, <1>5

LEMMA HandleEffect ==
    ASSUME TypeInv, SourceInv, HandleEvent
    PROVE  /\ engine.pc = "idle" /\ UNCHANGED <<disk, agents>> /\ engine' \in Engine /\ engine'.to = {}
           /\ engine'.fd = Linked
           /\ \/ engine'.pc = "idle"
              \/ engine'.pc = "hash" /\ src # Gone /\ engine'.got = <<ReadFirst>>
<1> DEFINE todo == matchTarget(Head(queue).to)
           got == <<ReadFirst>>
           e == [Idle EXCEPT !.pc = "hash", !.todo = todo, !.got = got]
<1>1. /\ engine.pc = "idle" /\ UNCHANGED <<disk, agents>>
      /\ engine' = Idle \/ (engine' = e /\ src # Gone /\ queue # <<>>)
  BY DEF HandleEvent
<1>2. got \in Seq(Int)
  BY FirstRead, Values
<1>3. todo \in SUBSET Agents
  BY DEF TypeInv, matchTarget
<1>4. got = <<ReadFirst>>
  OBVIOUS
<1> HIDE DEF todo, got
<1>5. e \in Engine /\ e.pc = "hash" /\ e.to = Idle.to /\ e.got = got /\ e.fd = Idle.fd
  <2> SUFFICES ASSUME NEW r \in Engine, r = Idle
               PROVE  LET f == [r EXCEPT !.pc = "hash", !.todo = todo, !.got = got]
                      IN f \in Engine /\ f.pc = "hash" /\ f.to = r.to /\ f.got = got /\ f.fd = r.fd
    BY IdleEngine
  <2> QED
    BY <1>2, <1>3 DEF Engine, Pcs
<1> HIDE DEF e
<1> QED
  BY <1>1, <1>4, <1>5, IdleEngine

\* The hash is of the whole of a version, of the beginning of one that is being
\* saved, or of a version that is past.
LEMMA ComputeEffect ==
    ASSUME TypeInv, SourceInv, HashInv, OpenInv, ComputeFileInfo
    PROVE  /\ engine.pc = "hash" /\ UNCHANGED <<disk, agents, targets>> /\ engine' \in Engine
           /\ engine'.pc = "next" /\ engine'.to = engine.to /\ engine'.fd = Linked
           /\ \E h, i \in Int : /\ engine'.hash = <<h, i>> /\ h <= ver
                                /\ h # i => ver > h \/ (i = Empty /\ h = ver /\ saving = "half")
                                /\ h = i => saving = "no" \/ ver # h
<1>1. /\ engine.pc = "hash" /\ UNCHANGED <<disk, agents, targets>>
      /\ engine' = [engine EXCEPT !.pc = "next", !.fd = Linked, !.got = NoFile,
                                  !.hash = <<engine.got[1], ReadSecond(engine.got[1])>>]
  BY DEF ComputeFileInfo
<1>2. PICK h \in 0 .. ver :
         /\ engine.got = <<h>>
         /\ h # Empty => (IF engine.fd = Linked THEN src ELSE engine.fd) = h \/ ver > h
  BY <1>1 DEF HashInv
<1>3. h \in Int /\ engine.got[1] = h /\ ver \in Nat /\ h <= ver
  BY <1>2, Values DEF TypeInv
<1> DEFINE i == ReadSecond(h)
           hash == <<h, i>>
<1>4. i \in Int
  BY <1>3, SecondRead
<1>5. hash \in Seq(Int)
  BY <1>3, <1>4
<1>6. /\ h # i => ver > h \/ (i = Empty /\ h = ver /\ saving = "half")
      /\ h = i => saving = "no" \/ ver # h
  <2>1. CASE h = Empty
    <3>1. i = Empty
      BY <2>1, <1>3, SecondRead
    <3> QED
      BY <3>1, <2>1, <1>3, Values DEF SourceInv
  <2>2. CASE h # Empty /\ ver > h
    BY <2>2, <1>3
  <2>3. CASE h # Empty /\ h = ver /\ engine.fd # Linked
    BY <2>3, <1>2, <1>3, SecondRead DEF OpenInv
  <2>4. CASE h # Empty /\ h = ver /\ engine.fd = Linked
    <3>1. src = h /\ ReadFirst = h
      BY <2>4, <1>2, <1>3, FirstRead, Values DEF Gone
    <3>2. i = IF saving = "half" THEN Empty ELSE h
      BY <3>1, <2>4, <1>3, SecondRead
    <3>3. saving \in {"half", "no"}
      BY <3>1, <2>4 DEF SourceInv
    <3> QED
      BY <3>2, <3>3, <2>4
  <2> QED
    BY <2>1, <2>2, <2>3, <2>4, <1>3
<1>7. engine' = [engine EXCEPT !.pc = "next", !.fd = Linked, !.got = NoFile, !.hash = hash]
  BY <1>1, <1>3
<1> HIDE DEF hash
<1>8. /\ engine' \in Engine /\ engine'.pc = "next" /\ engine'.to = engine.to /\ engine'.hash = hash
      /\ engine'.fd = Linked
  BY <1>5, <1>7, Values DEF TypeInv, Engine, Pcs
<1> QED
  BY <1>1, <1>3, <1>4, <1>6, <1>8 DEF hash

\* The agents that are left, or none.
LEMMA RemainingEffect ==
    ASSUME TypeInv, NEW todo \in SUBSET Agents, engine' = Remaining(todo)
    PROVE  /\ engine' \in Engine /\ engine'.to = {} /\ engine'.fd = Linked
           /\ \/ engine'.pc = "idle"
              \/ engine'.pc = "next" /\ engine'.hash = engine.hash
<1> DEFINE hash == engine.hash
           e == [Idle EXCEPT !.pc = "next", !.todo = todo, !.hash = hash]
<1>1. engine' = Idle \/ engine' = e
  BY DEF Remaining
<1>2. hash \in Seq(Int) /\ hash = engine.hash
  BY DEF TypeInv, Engine
<1> HIDE DEF hash
<1>3. e \in Engine /\ e.pc = "next" /\ e.to = Idle.to /\ e.hash = hash /\ e.fd = Idle.fd
  <2> SUFFICES ASSUME NEW r \in Engine, r = Idle
               PROVE  LET f == [r EXCEPT !.pc = "next", !.todo = todo, !.hash = hash]
                      IN f \in Engine /\ f.pc = "next" /\ f.to = r.to /\ f.hash = hash /\ f.fd = r.fd
    BY IdleEngine
  <2> QED
    BY <1>2 DEF Engine, Pcs
<1> HIDE DEF e
<1> QED
  BY <1>1, <1>2, <1>3, IdleEngine

\* A push begins with the version there is, or not at all.
LEMMA BeginEffect ==
    ASSUME TypeInv, SourceInv, NEW a \in Agents, PushBegins(a)
    PROVE  /\ engine.pc = "next" /\ UNCHANGED <<disk, targets, final, orphan>>
           /\ engine' \in Engine /\ engine'.fd \in {engine.fd, Linked}
           /\ \/ /\ engine'.to = {} /\ UNCHANGED agents
                 /\ engine'.pc = "idle" \/ (engine'.pc = "next" /\ engine'.hash = engine.hash)
              \/ /\ engine'.pc = "second" /\ engine'.to = {a} /\ engine'.got = <<ver>> /\ ver >= 1
                 /\ engine'.hash = engine.hash
                 /\ tmp' = [tmp EXCEPT ![a] = <<ver, Empty>>]
                 /\ crossed' = IF orphan[a].on THEN crossed \cup {a} ELSE crossed
<1>1. /\ engine.pc = "next" /\ UNCHANGED <<disk, targets>>
      /\ \/ ReadFirst = Empty /\ UNCHANGED agents /\ engine' = Remaining(engine.todo \ {a})
         \/ /\ ReadFirst # Empty /\ ReceiveFirst(a, ReadFirst)
            /\ engine' = [engine EXCEPT !.pc = "second", !.todo = @ \ {a}, !.to = {a}, !.got = <<ReadFirst>>]
  BY DEF PushBegins
<1>2. CASE ReadFirst = Empty /\ UNCHANGED agents /\ engine' = Remaining(engine.todo \ {a})
  <2>1. engine.todo \ {a} \in SUBSET Agents
    BY DEF TypeInv, Engine
  <2> QED
    BY <2>1, <1>1, <1>2, RemainingEffect DEF agents
<1>3. CASE /\ ReadFirst # Empty /\ ReceiveFirst(a, ReadFirst)
           /\ engine' = [engine EXCEPT !.pc = "second", !.todo = @ \ {a}, !.to = {a}, !.got = <<ReadFirst>>]
  <2>1. ReadFirst = ver /\ ver \in Int /\ ver >= 1
    BY <1>3, FirstRead, Values DEF TypeInv
  <2> DEFINE got == <<ver>>
  <2>2. got \in Seq(Int)
    BY <2>1
  <2>3. engine' = [engine EXCEPT !.pc = "second", !.todo = @ \ {a}, !.to = {a}, !.got = got]
    BY <1>3, <2>1
  <2> HIDE DEF got
  <2>4. /\ engine' \in Engine /\ engine'.hash = engine.hash /\ engine'.to = {a}
        /\ engine'.pc = "second" /\ engine'.got = got /\ engine'.fd = engine.fd
    BY <2>2, <2>3 DEF TypeInv, Engine, Pcs
  <2>5. /\ tmp' = [tmp EXCEPT ![a] = <<ver, Empty>>]
        /\ crossed' = IF orphan[a].on THEN crossed \cup {a} ELSE crossed
        /\ UNCHANGED <<final, orphan>>
    BY <1>3, <2>1 DEF ReceiveFirst
  <2> QED
    BY <2>1, <2>4, <2>5, <1>1 DEF got
<1> QED
  BY <1>1, <1>2, <1>3

LEMMA SecondEffect ==
    ASSUME TypeInv, SourceInv, SentInv, NEW a \in Agents, PushSecond(a)
    PROVE  /\ engine.pc = "second" /\ a \in engine.to
           /\ UNCHANGED <<disk, targets, final, orphan, crossed>>
           /\ engine' \in Engine /\ engine'.hash = engine.hash /\ engine'.to = engine.to
           /\ engine'.pc = "verify" /\ engine'.fd = engine.fd
           /\ \E i \in Int : /\ engine'.got = <<engine.got[1], i>>
                             /\ tmp' = [tmp EXCEPT ![a] = IF @ = NoFile THEN NoFile ELSE [@ EXCEPT ![2] = i]]
<1>1. /\ engine.pc = "second" /\ a \in engine.to
      /\ UNCHANGED <<disk, targets, final, orphan, crossed>>
      /\ engine' = [engine EXCEPT !.pc = "verify", !.got = <<engine.got[1], ReadSecond(engine.got[1])>>]
      /\ tmp' = [tmp EXCEPT ![a] = IF @ = NoFile THEN NoFile
                                   ELSE [@ EXCEPT ![2] = ReadSecond(engine.got[1])]]
  BY DEF PushSecond
<1> DEFINE g == engine.got[1]
           i == ReadSecond(g)
           got == <<g, i>>
<1>2. g \in Int
  <2>1. engine.got # <<>> /\ engine.got \in Seq(Int)
    BY <1>1 DEF SentInv, Pushed, TypeInv, Engine
  <2> QED
    BY <2>1
<1>3. i \in Int
  BY <1>2, SecondRead
<1>4. got \in Seq(Int)
  BY <1>2, <1>3
<1>5. engine' = [engine EXCEPT !.pc = "verify", !.got = got]
  BY <1>1
<1> HIDE DEF got
<1>6. /\ engine' \in Engine /\ engine'.hash = engine.hash /\ engine'.to = engine.to
      /\ engine'.pc = "verify" /\ engine'.got = got /\ engine'.fd = engine.fd
  BY <1>4, <1>5 DEF TypeInv, Engine, Pcs
<1> QED
  BY <1>1, <1>3, <1>6 DEF got

LEMMA DoneEffect ==
    ASSUME TypeInv, engine' = PushDone
    PROVE  /\ engine' \in Engine /\ engine'.to = {} /\ engine'.fd = Linked
           /\ \/ engine'.pc = "idle"
              \/ engine'.pc = "next" /\ engine'.hash = engine.hash
<1>1. engine.todo \in SUBSET Agents
  BY DEF TypeInv, Engine
<1> QED
  BY <1>1, RemainingEffect DEF PushDone

\* What becomes of the handlers that were given up.
LEMMA OrphanedEffect ==
    ASSUME TypeInv, NEW a \in Agents, Orphaned(a)
    PROVE  /\ orphan' \in [Agents -> Orphan]
           /\ \A b \in Agents \ {a} : orphan'[b] = orphan[b]
           /\ orphan'[a].at # "final"
<1>1. PICK pos \in {0, Len(engine.got)} :
         orphan' = [orphan EXCEPT ![a] = [on |-> TRUE, pos |-> pos, at |-> IF tmp[a] = NoFile THEN "none" ELSE "tmp",
                                          val |-> IF pos = 0 THEN Empty ELSE engine.got[pos]]]
  BY DEF Orphaned
<1> DEFINE val == IF pos = 0 THEN Empty ELSE engine.got[pos]
           at == IF tmp[a] = NoFile THEN "none" ELSE "tmp"
           o == [on |-> TRUE, pos |-> pos, at |-> at, val |-> val]
<1>2. engine.got \in Seq(Int)
  BY DEF TypeInv, Engine
<1>3. pos \in Nat /\ val \in Int
  BY <1>2 DEF Empty
<1>4. at \in {"none", "tmp"}
  OBVIOUS
<1> HIDE DEF val, at
<1>5. o \in Orphan /\ o.at = at
  BY <1>3, <1>4 DEF Orphan
<1>6. orphan' = [orphan EXCEPT ![a] = o]
  BY <1>1 DEF val, at
<1> HIDE DEF o
<1> QED
  BY <1>4, <1>5, <1>6 DEF TypeInv

-----------------------------------------------------------------------------
(* The steps.                                                              *)

\* What NeverTornNorOlder says of a step.
WholeAndLater ==
    \A a \in Agents \ crossed' : final'[a] # final[a] =>
          /\ final'[a][2] \in {final'[a][1], Empty}
          /\ final[a] # NoFile =>
                \/ final[a][1] < final'[a][1]
                \/ final[a][1] = final'[a][1] /\ final[a][2] = Empty

LEMMA QuietStep ==
    ASSUME Inv, UNCHANGED <<disk, engine, agents>>, targets' \subseteq Agents
    PROVE  Inv' /\ WholeAndLater
<1>1. UNCHANGED <<src, ver, saving, engine, tmp, final, orphan, crossed>>
  BY DEF disk, agents
<1>2. TypeInv' /\ SourceInv' /\ HashInv' /\ OpenInv' /\ PushInv'
  BY <1>1 DEF Inv, TypeInv, SourceInv, HashInv, OpenInv, PushInv
<1>3. ASSUME NEW h, NEW i PROVE (Hashed(h, i)' <=> Hashed(h, i)) /\ (Pushed(h, i)' <=> Pushed(h, i))
  BY <1>1 DEF Hashed, Pushed, Unwhole
<1>4. SentInv'
  BY <1>1, <1>3 DEF Inv, SentInv
<1>5. FinalInv' /\ WholeAndLater
  BY <1>1 DEF Inv, FinalInv, Unwhole, WholeAndLater
<1> QED
  BY <1>2, <1>4, <1>5 DEF Inv

LEMMA SourceStep ==
    ASSUME Inv, Truncate \/ WritePart \/ Write \/ RemoveSource
    PROVE  Inv' /\ WholeAndLater
<1>0. ver \in Nat
  BY DEF Inv, TypeInv
\* The next version is begun, it is written, or the file goes.
<1>1. /\ UNCHANGED <<targets, agents>> /\ ver' \in Nat /\ ver' >= ver
      /\ \/ ver' = ver + 1 /\ src' = Empty /\ saving' = "begun" /\ engine' = engine
         \/ /\ saving # "no" /\ src' = ver /\ ver' = ver /\ saving' \in {"half", "no"}
            /\ engine' = engine
         \/ RemoveSource /\ src' = Gone /\ saving' = "no" /\ ver' = ver
  BY <1>0 DEF Truncate, WritePart, Write, RemoveSource
<1>2. /\ engine' \in Engine /\ engine'.pc = engine.pc /\ engine'.hash = engine.hash
      /\ engine'.to = engine.to /\ engine'.got = engine.got
  BY <1>1, RemoveEffect DEF Inv, TypeInv
<1>a. UNCHANGED <<tmp, final, orphan, crossed>>
  BY <1>1 DEF agents
<1>b. saving' # "no" => saving # "no" \/ ver' = ver + 1
  BY <1>1
<1>3. TypeInv'
  BY <1>1, <1>2, <1>a DEF Inv, TypeInv
<1>4. SourceInv'
  <2>1. saving # "no" => ver >= 1
    BY DEF Inv, SourceInv
  <2> QED
    BY <2>1, <1>0, <1>1 DEF SourceInv
<1>5. HashInv' /\ OpenInv'
  <2>1. CASE ver' = ver + 1 /\ engine' = engine
    BY <2>1, <1>0 DEF Inv, HashInv, OpenInv, TypeInv, Engine
  <2>2. CASE saving # "no" /\ src' = ver /\ ver' = ver /\ engine' = engine
    <3>1. OpenInv'
      BY <2>2 DEF Inv, OpenInv
    <3>2. HashInv'
      BY <2>2, <1>0 DEF Inv, HashInv, SourceInv
    <3> QED
      BY <3>1, <3>2
  <2>3. CASE RemoveSource /\ saving' = "no" /\ ver' = ver
    <3>1. /\ src = ver /\ ver >= 1
          /\ engine'.fd = IF engine.pc \in {"hash", "second"} /\ engine.fd = Linked THEN ver ELSE engine.fd
      BY <2>3, RemoveEffect DEF Inv
    <3>2. OpenInv'
      BY <3>1, <2>3, <1>0 DEF Inv, OpenInv
    <3>3. HashInv'
      <4> SUFFICES ASSUME engine.pc = "hash"
                   PROVE  \E h \in 0 .. ver' :
                             /\ engine'.got = <<h>>
                             /\ h # Empty => (IF engine'.fd = Linked THEN src' ELSE engine'.fd) = h \/ ver' > h
        BY <1>2 DEF HashInv
      <4>1. PICK h \in 0 .. ver :
               /\ engine.got = <<h>>
               /\ h # Empty => (IF engine.fd = Linked THEN src ELSE engine.fd) = h \/ ver > h
        BY DEF Inv, HashInv
      <4>2. engine'.fd # Linked /\ engine'.fd = IF engine.fd = Linked THEN src ELSE engine.fd
        BY <3>1, <1>0, Values
      <4> QED
        BY <4>1, <4>2, <2>3, <1>2
    <3> QED
      BY <3>2, <3>3
  <2> QED
    BY <2>1, <2>2, <2>3, <1>1
<1>6. SentInv'
  <2> SUFFICES ASSUME engine.pc \in {"next", "second", "verify"}
               PROVE  SentInv'
    BY <1>2 DEF SentInv
  <2>1. PICK h, i \in Int : /\ engine.hash = <<h, i>> /\ Hashed(h, i)
                            /\ engine.pc \in {"second", "verify"} => Pushed(h, i)
    BY DEF Inv, SentInv
  <2>2. Unwhole(h) => Unwhole(h)'
    BY <1>a DEF Unwhole
  <2>3. Hashed(h, i)'
    <3>1. CASE ver' = ver
      BY <3>1, <2>1, <2>2, <1>b DEF Hashed
    <3>2. CASE ver' = ver + 1
      BY <3>2, <2>1, <1>0 DEF Hashed
    <3> QED
      BY <3>1, <3>2, <1>1
  <2>4. ASSUME engine.pc \in {"second", "verify"} PROVE Pushed(h, i)'
    <3>1. engine.got \in Seq(Int) /\ engine.got # <<>>
      BY <2>1, <2>4 DEF Inv, TypeInv, Engine, Pushed
    <3>2. engine.got[1] \in Int
      BY <3>1
    <3> QED
      BY <3>2, <2>1, <2>2, <2>4, <1>0, <1>1, <1>2 DEF Pushed
  <2> QED
    BY <2>1, <2>3, <2>4, <1>2 DEF SentInv
<1>7. PushInv'
  BY <1>2, <1>a DEF Inv, PushInv
<1>8. FinalInv'
  <2>1. ASSUME NEW a \in Agents \ crossed, final[a] # NoFile
        PROVE  \E f \in 1 .. ver', j \in Int : /\ final[a] = <<f, j>> /\ j \in {f, Empty}
                                               /\ a \in engine.to => f <= engine.got[1]
    BY <2>1, <1>0, <1>1 DEF Inv, FinalInv
  <2>2. saving' # "no" => Unwhole(ver)'
    <3>1. CASE saving # "no" /\ ver' = ver
      BY <3>1, <1>a DEF Inv, FinalInv, Unwhole
    <3>2. CASE ver' = ver + 1
      <4> SUFFICES ASSUME NEW a \in Agents \ crossed, final[a] = <<ver', ver'>>
                   PROVE  FALSE
        BY <1>a DEF Unwhole
      <4>1. final[a] # NoFile
        BY <1>0, <3>2, Values
      <4>2. PICK f \in 1 .. ver, j \in Int : final[a] = <<f, j>>
        BY <4>1 DEF Inv, FinalInv
      <4>3. f = ver'
        BY <4>2, <1>0, <3>2, Values
      <4> QED
        BY <4>3, <1>0, <3>2
    <3> QED
      BY <3>1, <3>2, <1>1, <1>b
  <2> QED
    BY <2>1, <2>2, <1>2, <1>a DEF FinalInv
<1>9. WholeAndLater
  BY <1>a DEF WholeAndLater
<1> QED
  BY <1>3, <1>4, <1>5, <1>6, <1>7, <1>8, <1>9 DEF Inv

LEMMA HandleStep ==
    ASSUME Inv, HandleEvent
    PROVE  Inv' /\ WholeAndLater
<1>0. ver \in Nat /\ targets' = targets
  BY DEF Inv, TypeInv, HandleEvent
<1>1. /\ engine.pc = "idle" /\ UNCHANGED <<disk, agents>> /\ engine' \in Engine /\ engine'.to = {}
      /\ engine'.fd = Linked
      /\ \/ engine'.pc = "idle"
         \/ engine'.pc = "hash" /\ src # Gone /\ engine'.got = <<ReadFirst>>
  BY HandleEffect DEF Inv
<1>2. TypeInv'
  BY <1>0, <1>1 DEF Inv, TypeInv, disk, agents
<1>3. SourceInv'
  BY <1>1 DEF Inv, SourceInv, disk
<1>a. UNCHANGED <<src, ver, saving, tmp, final, orphan, crossed>>
  BY <1>1 DEF disk, agents
<1>4. HashInv' /\ OpenInv'
  <2>1. CASE engine'.pc = "idle"
    BY <2>1, <1>1 DEF HashInv, OpenInv
  <2>2. CASE engine'.pc = "hash" /\ src # Gone /\ engine'.got = <<ReadFirst>>
    <3>1. ReadFirst \in 0 .. ver /\ ReadFirst = src
      BY <2>2, FirstRead DEF Inv
    <3> QED
      BY <3>1, <2>2, <1>1, <1>a DEF HashInv, OpenInv
  <2> QED
    BY <1>1, <2>1, <2>2
<1>5. SentInv'
  BY <1>1 DEF SentInv
<1>6. PushInv'
  BY <1>1 DEF Inv, PushInv, agents
<1>7. FinalInv' /\ WholeAndLater
  BY <1>1, <1>a DEF Inv, FinalInv, Unwhole, WholeAndLater
<1> QED
  BY <1>2, <1>3, <1>4, <1>5, <1>6, <1>7 DEF Inv

LEMMA ComputeStep ==
    ASSUME Inv, ComputeFileInfo
    PROVE  Inv' /\ WholeAndLater
<1>0. ver \in Nat
  BY DEF Inv, TypeInv
<1>1. /\ engine.pc = "hash" /\ UNCHANGED <<disk, agents, targets>> /\ engine' \in Engine
      /\ engine'.pc = "next" /\ engine'.to = engine.to /\ engine'.fd = Linked
  BY ComputeEffect DEF Inv
<1>a. UNCHANGED <<src, ver, saving, tmp, final, orphan, crossed>>
  BY <1>1 DEF disk, agents
<1>2. TypeInv' /\ SourceInv'
  BY <1>1, <1>a DEF Inv, TypeInv, SourceInv
<1>3. HashInv' /\ OpenInv'
  BY <1>1 DEF HashInv, OpenInv
<1>4. SentInv'
  <2>1. PICK h, i \in Int : /\ engine'.hash = <<h, i>> /\ h <= ver
                            /\ h # i => ver > h \/ (i = Empty /\ h = ver /\ saving = "half")
                            /\ h = i => saving = "no" \/ ver # h
    BY ComputeEffect DEF Inv
  <2>2. saving = "half" => Unwhole(ver)
    BY DEF Inv, FinalInv
  <2>3. Hashed(h, i)
    BY <2>1, <2>2 DEF Hashed
  <2>4. Hashed(h, i)'
    BY <2>3, <1>a DEF Hashed, Unwhole
  <2> QED
    BY <2>1, <2>4, <1>1 DEF SentInv
<1>5. engine.to = {}
  BY <1>1 DEF Inv, PushInv
<1>6. PushInv'
  BY <1>1, <1>a, <1>5 DEF Inv, PushInv
<1>7. FinalInv' /\ WholeAndLater
  BY <1>1, <1>a, <1>5 DEF Inv, FinalInv, Unwhole, WholeAndLater
<1> QED
  BY <1>2, <1>3, <1>4, <1>6, <1>7 DEF Inv

\* The engine gives up what it does at an agent, or has done it, and keeps the
\* hash; nothing is put in place.
LEMMA DoneStep ==
    ASSUME Inv, engine' \in Engine, engine'.to = {}, engine'.fd \in {engine.fd, Linked},
           engine'.pc = "idle" \/ (engine'.pc = "next" /\ engine'.hash = engine.hash),
           engine.pc \in {"next", "second", "verify"},
           UNCHANGED <<disk, targets, tmp, final, crossed>>,
           orphan' \in [Agents -> Orphan],
           \A a \in Agents \ crossed : orphan'[a].at # "final"
    PROVE  Inv' /\ WholeAndLater
<1>a. UNCHANGED <<src, ver, saving>>
  BY DEF disk
<1>1. TypeInv' /\ SourceInv'
  BY <1>a DEF Inv, TypeInv, SourceInv
<1>2. HashInv' /\ OpenInv'
  BY <1>a DEF HashInv, Inv, OpenInv
<1>3. SentInv'
  <2> SUFFICES ASSUME engine'.pc = "next" PROVE SentInv'
    BY DEF SentInv
  <2>1. PICK h, i \in Int : engine.hash = <<h, i>> /\ Hashed(h, i)
    BY DEF Inv, SentInv
  <2>2. Hashed(h, i)'
    BY <2>1, <1>a DEF Hashed, Unwhole
  <2> QED
    BY <2>1, <2>2 DEF SentInv
<1>4. PushInv'
  BY DEF Inv, PushInv
<1>5. FinalInv' /\ WholeAndLater
  BY <1>a DEF Inv, FinalInv, Unwhole, WholeAndLater
<1> QED
  BY <1>1, <1>2, <1>3, <1>4, <1>5 DEF Inv

LEMMA BeginStep ==
    ASSUME Inv, NEW a \in Agents, PushBegins(a)
    PROVE  Inv' /\ WholeAndLater
<1>0. ver \in Nat /\ engine.to = {} /\ engine.pc = "next"
  BY BeginEffect DEF Inv, TypeInv, PushInv
<1>1. /\ UNCHANGED <<disk, targets, final, orphan>>
      /\ engine' \in Engine /\ engine'.fd \in {engine.fd, Linked}
      /\ \/ /\ engine'.to = {} /\ UNCHANGED agents
            /\ engine'.pc = "idle" \/ (engine'.pc = "next" /\ engine'.hash = engine.hash)
         \/ /\ engine'.pc = "second" /\ engine'.to = {a} /\ engine'.got = <<ver>> /\ ver >= 1
            /\ engine'.hash = engine.hash
            /\ tmp' = [tmp EXCEPT ![a] = <<ver, Empty>>]
            /\ crossed' = IF orphan[a].on THEN crossed \cup {a} ELSE crossed
  BY BeginEffect DEF Inv
<1>2. CASE /\ engine'.to = {} /\ UNCHANGED agents
           /\ engine'.pc = "idle" \/ (engine'.pc = "next" /\ engine'.hash = engine.hash)
  <2>1. UNCHANGED <<disk, targets, tmp, final, crossed>> /\ orphan' = orphan
    BY <1>1, <1>2 DEF agents
  <2>2. /\ orphan' \in [Agents -> Orphan] /\ \A b \in Agents \ crossed : orphan'[b].at # "final"
    BY <2>1 DEF Inv, TypeInv, PushInv
  <2> QED
    BY <2>1, <2>2, <1>0, <1>1, <1>2, DoneStep
<1>3. CASE /\ engine'.pc = "second" /\ engine'.to = {a} /\ engine'.got = <<ver>> /\ ver >= 1
           /\ engine'.hash = engine.hash
           /\ tmp' = [tmp EXCEPT ![a] = <<ver, Empty>>]
           /\ crossed' = IF orphan[a].on THEN crossed \cup {a} ELSE crossed
  <2>0. engine'.got # <<>> /\ engine'.got[1] = ver /\ ver \in Int
    BY <1>0, <1>3, Values
  <2>1. crossed \subseteq crossed' /\ crossed' \subseteq Agents /\ (orphan[a].on => a \in crossed')
    BY <1>3 DEF Inv, TypeInv
  <2>a. UNCHANGED <<src, ver, saving, final>>
    BY <1>1 DEF disk
  <2>2. TypeInv' /\ SourceInv'
    BY <1>1, <1>3, <2>1, <2>a DEF Inv, TypeInv, SourceInv
  <2>3. HashInv' /\ OpenInv'
    BY <1>1, <1>3, <2>a DEF HashInv, Inv, OpenInv
  <2>4. SentInv'
    <3>1. PICK h, i \in Int : engine.hash = <<h, i>> /\ Hashed(h, i)
      BY <1>0 DEF Inv, SentInv
    <3>2. Unwhole(h) => Unwhole(h)'
      BY <2>1, <2>a DEF Unwhole
    <3>3. Hashed(h, i)'
      BY <3>1, <3>2, <2>a DEF Hashed
    <3>4. Pushed(h, i)'
      BY <3>1, <3>2, <2>0, <2>a, <1>3 DEF Hashed, Pushed
    <3> QED
      BY <3>1, <3>3, <3>4, <1>3 DEF SentInv
  <2>5. PushInv'
    <3>1. tmp'[a] = <<engine'.got[1], Empty>>
      BY <1>3, <2>0 DEF Inv, TypeInv
    <3> QED
      BY <3>1, <2>0, <2>1, <1>1, <1>3 DEF Inv, PushInv
  <2>6. FinalInv' /\ WholeAndLater
    BY <2>0, <2>1, <2>a, <1>3 DEF Inv, FinalInv, Unwhole, WholeAndLater
  <2> QED
    BY <2>2, <2>3, <2>4, <2>5, <2>6 DEF Inv
<1> QED
  BY <1>1, <1>2, <1>3

LEMMA SecondStep ==
    ASSUME Inv, NEW a \in Agents, PushSecond(a)
    PROVE  Inv' /\ WholeAndLater
<1>1. /\ engine.pc = "second" /\ a \in engine.to
      /\ UNCHANGED <<disk, targets, final, orphan, crossed>>
      /\ engine' \in Engine /\ engine'.hash = engine.hash /\ engine'.to = engine.to
      /\ engine'.pc = "verify" /\ engine'.fd = engine.fd
  BY SecondEffect DEF Inv
<1>2. PICK i \in Int : /\ engine'.got = <<engine.got[1], i>>
                       /\ tmp' = [tmp EXCEPT ![a] = IF @ = NoFile THEN NoFile ELSE [@ EXCEPT ![2] = i]]
  BY SecondEffect DEF Inv
<1>3. PICK g \in Int : engine.got = <<g>>
  BY <1>1 DEF Inv, PushInv
<1>4. engine.got[1] = g /\ engine'.got = <<g, i>> /\ engine'.got # <<>> /\ engine'.got[1] = g
  BY <1>2, <1>3, Values
<1>5. engine.to = {a} /\ engine'.to = {a}
  BY <1>1 DEF Inv, PushInv
<1>a. UNCHANGED <<src, ver, saving, final, crossed>>
  BY <1>1 DEF disk
<1>6. TypeInv' /\ SourceInv' /\ HashInv' /\ OpenInv'
  BY <1>1, <1>2, <1>a DEF Inv, TypeInv, SourceInv, HashInv, OpenInv
<1>7. SentInv'
  <2>1. PICK h, k \in Int : engine.hash = <<h, k>> /\ Hashed(h, k) /\ Pushed(h, k)
    BY <1>1 DEF Inv, SentInv
  <2>2. Hashed(h, k)' /\ Pushed(h, k)'
    BY <2>1, <1>4, <1>a DEF Hashed, Pushed, Unwhole
  <2> QED
    BY <2>1, <2>2, <1>1 DEF SentInv
<1>8. PushInv'
  <2>1. a \notin crossed => tmp'[a] = engine'.got
    <3> SUFFICES ASSUME a \notin crossed
                 PROVE  tmp'[a] = engine'.got
      OBVIOUS
    <3>1. tmp[a] = <<g, Empty>>
      BY <1>1, <1>4 DEF Inv, PushInv
    <3>2. tmp[a] # NoFile /\ [tmp[a] EXCEPT ![2] = i] = <<g, i>>
      BY <3>1, Values
    <3>3. tmp'[a] = [tmp[a] EXCEPT ![2] = i]
      BY <1>2, <3>2 DEF Inv, TypeInv
    <3> QED
      BY <3>2, <3>3, <1>4
  <2> QED
    BY <2>1, <1>1, <1>4, <1>5 DEF Inv, PushInv
<1>9. FinalInv' /\ WholeAndLater
  BY <1>1, <1>4, <1>a DEF Inv, FinalInv, Unwhole, WholeAndLater
<1> QED
  BY <1>6, <1>7, <1>8, <1>9 DEF Inv

\* The agent has got what was hashed, and its first half is of the version there
\* was when the push began: the file is of that version, and later than the one in
\* place, or the rest of it.
LEMMA VerifyStep ==
    ASSUME Inv, NEW a \in Agents, Verify(a)
    PROVE  Inv' /\ WholeAndLater
<1>1. /\ engine.pc = "verify" /\ a \in engine.to /\ engine' = PushDone
      /\ tmp' = [tmp EXCEPT ![a] = NoFile]
      /\ UNCHANGED <<disk, targets, crossed>>
      /\ \/ /\ engine.got = engine.hash /\ tmp[a] # NoFile
            /\ final' = [final EXCEPT ![a] = tmp[a]]
            /\ MoveOrphan(a, "tmp", "final")
         \/ MoveOrphan(a, "tmp", "none") /\ UNCHANGED final
  BY DEF Verify
<1>2. /\ engine' \in Engine /\ engine'.to = {} /\ engine'.fd = Linked
      /\ engine'.pc = "idle" \/ (engine'.pc = "next" /\ engine'.hash = engine.hash)
  BY <1>1, DoneEffect DEF Inv
<1>a. UNCHANGED <<src, ver, saving>> /\ ver \in Nat
  BY <1>1 DEF disk, Inv, TypeInv
<1>b. DOMAIN final = Agents /\ DOMAIN final' = Agents /\ \A b \in Agents \ {a} : final'[b] = final[b]
  BY <1>1 DEF Inv, TypeInv
<1>3. /\ orphan' \in [Agents -> Orphan]
      /\ \A b \in Agents \ {a} : orphan'[b] = orphan[b]
      /\ a \notin crossed => orphan'[a].at # "final"
  <2>1. PICK at \in {"final", "none"} :
           /\ orphan' = [orphan EXCEPT ![a].at = IF orphan[a].on /\ @ = "tmp" THEN at ELSE @]
    BY <1>1 DEF MoveOrphan
  <2>2. orphan' \in [Agents -> Orphan] /\ \A b \in Agents \ {a} : orphan'[b] = orphan[b]
    BY <2>1 DEF Inv, TypeInv, Orphan
  <2>3. ASSUME a \notin crossed
        PROVE  orphan'[a].at # "final"
    <3>1. ~orphan[a].on /\ orphan[a].at # "final" /\ orphan[a] \in Orphan
      BY <2>3, <1>1 DEF Inv, PushInv, TypeInv
    <3> QED
      BY <3>1, <2>1 DEF Inv, TypeInv, Orphan
  <2> QED
    BY <2>2, <2>3
<1>4. TypeInv' /\ SourceInv'
  BY <1>1, <1>2, <1>3, <1>a, <1>b DEF Inv, TypeInv, SourceInv
<1>5. HashInv' /\ OpenInv'
  BY <1>2 DEF HashInv, OpenInv
<1>6. PICK h, i \in Int : engine.hash = <<h, i>> /\ Hashed(h, i) /\ Pushed(h, i)
  BY <1>1 DEF Inv, SentInv
\* What is put in place where no handler that was given up is met.
<1>7. ASSUME a \notin crossed, final'[a] # final[a]
      PROVE  /\ final'[a] = <<h, i>> /\ engine.got[1] = h /\ h \in 1 .. ver /\ i \in {h, Empty}
             /\ h # i => Unwhole(h)
  <2>1. engine.got = engine.hash /\ final'[a] = tmp[a] /\ tmp[a] = engine.got
    BY <1>1, <1>7 DEF Inv, PushInv, TypeInv
  <2>2. engine.got[1] = h
    BY <2>1, <1>6, Values
  <2> QED
    BY <2>1, <2>2, <1>6, <1>a DEF Pushed
<1>8. SentInv'
  <2> SUFFICES ASSUME engine'.pc = "next" PROVE SentInv'
    BY <1>2 DEF SentInv
  <2>1. h # i /\ Unwhole(h) => Unwhole(h)'
    <3> SUFFICES ASSUME h # i, Unwhole(h), NEW b \in Agents \ crossed
                 PROVE  final'[b] # <<h, h>>
      BY <1>1 DEF Unwhole
    <3>1. CASE final'[b] = final[b]
      BY <3>1 DEF Unwhole
    <3>2. CASE final'[b] # final[b]
      <4>1. final'[b] = <<h, i>>
        BY <3>2, <1>7, <1>b
      <4> QED
        BY <4>1, Values
    <3> QED
      BY <3>1, <3>2
  <2>2. Hashed(h, i)'
    BY <2>1, <1>6, <1>a DEF Hashed
  <2> QED
    BY <2>2, <1>2, <1>6 DEF SentInv
<1>9. PushInv'
  BY <1>1, <1>2, <1>3 DEF Inv, PushInv
<1>10. FinalInv'
  <2>1. ASSUME NEW b \in Agents \ crossed, final'[b] # NoFile
        PROVE  \E f \in 1 .. ver, j \in Int : final'[b] = <<f, j>> /\ j \in {f, Empty}
    <3>1. CASE final'[b] # final[b]
      BY <3>1, <1>7, <1>b
    <3>2. CASE final'[b] = final[b]
      BY <3>2, <2>1 DEF Inv, FinalInv
    <3> QED
      BY <3>1, <3>2
  <2>2. ASSUME saving # "no", NEW b \in Agents \ crossed PROVE final'[b] # <<ver, ver>>
    <3>1. CASE final'[b] # final[b]
      <4>1. final'[b] = <<h, i>> /\ (h = i => ver # h)
        BY <3>1, <2>2, <1>6, <1>7, <1>b DEF Hashed
      <4> QED
        BY <4>1, <1>a, Values
    <3>2. CASE final'[b] = final[b]
      BY <3>2, <2>2 DEF Inv, FinalInv, Unwhole
    <3> QED
      BY <3>1, <3>2
  <2> QED
    BY <2>1, <2>2, <1>1, <1>2, <1>a DEF FinalInv, Unwhole
<1>11. WholeAndLater
  <2> SUFFICES ASSUME a \notin crossed, final'[a] # final[a]
               PROVE  /\ final'[a][2] \in {final'[a][1], Empty}
                      /\ final[a] # NoFile =>
                            \/ final[a][1] < final'[a][1]
                            \/ final[a][1] = final'[a][1] /\ final[a][2] = Empty
    BY <1>1, <1>b DEF WholeAndLater
  <2>1. final'[a][1] = h /\ final'[a][2] = i /\ i \in {h, Empty} /\ h \in Int /\ engine.got[1] = h
    BY <1>7, Values
  <2>2. ASSUME final[a] # NoFile
        PROVE  \/ final[a][1] < h
               \/ final[a][1] = h /\ final[a][2] = Empty
    <3>1. PICK f \in 1 .. ver, j \in Int : /\ final[a] = <<f, j>> /\ j \in {f, Empty}
                                           /\ f <= engine.got[1]
      BY <2>2, <1>1 DEF Inv, FinalInv
    <3>2. f \in Int /\ final[a][1] = f /\ final[a][2] = j
      BY <3>1, <1>a, Values
    <3>3. CASE f # h
      BY <3>1, <3>2, <3>3, <2>1
    <3>4. CASE f = h /\ j # Empty
      <4>1. final[a] = <<h, h>>
        BY <3>1, <3>4
      <4>2. h # i
        BY <4>1, <1>7
      <4> QED
        BY <4>1, <4>2, <1>7 DEF Unwhole
    <3> QED
      BY <3>2, <3>3, <3>4
  <2> QED
    BY <2>1, <2>2
<1> QED
  BY <1>4, <1>5, <1>8, <1>9, <1>10, <1>11 DEF Inv

LEMMA BreakStep ==
    ASSUME Inv, NEW a \in Agents, PushBreaks(a)
    PROVE  Inv' /\ WholeAndLater
<1>1. UNCHANGED <<disk, targets, tmp, final, crossed>>
  BY DEF PushBreaks, watcher
<1>2. CASE engine.pc = "next" /\ UNCHANGED orphan /\ engine' = Remaining(engine.todo \ {a})
  <2>1. engine.todo \ {a} \in SUBSET Agents
    BY DEF Inv, TypeInv, Engine
  <2>2. /\ engine' \in Engine /\ engine'.to = {} /\ engine'.fd = Linked
        /\ engine'.pc = "idle" \/ (engine'.pc = "next" /\ engine'.hash = engine.hash)
    BY <2>1, <1>2, RemainingEffect DEF Inv
  <2>3. /\ orphan' \in [Agents -> Orphan] /\ \A b \in Agents \ crossed : orphan'[b].at # "final"
    BY <1>2 DEF Inv, TypeInv, PushInv
  <2> QED
    BY <2>2, <2>3, <1>1, <1>2, DoneStep
<1>3. CASE engine.pc \in {"second", "verify"} /\ engine' = PushDone /\ Orphaned(a)
  BY <1>1, <1>3, DoneEffect, OrphanedEffect, DoneStep DEF Inv, PushInv
<1> QED
  BY <1>2, <1>3 DEF PushBreaks

\* The engine starts anew.
LEMMA RestartStep ==
    ASSUME Inv, NEW m, MasterRestart(m)
    PROVE  Inv' /\ WholeAndLater
<1>1. /\ UNCHANGED <<disk, tmp, final, crossed>> /\ targets' = {}
      /\ engine' \in Engine /\ engine'.pc = "idle" /\ engine'.to = {}
      /\ engine'.fd = Linked
  BY IdleEngine DEF MasterRestart
<1>2. orphan' \in [Agents -> Orphan] /\ \A a \in Agents \ crossed : orphan'[a].at # "final"
  <2>1. CASE engine.to = {}
    BY <2>1 DEF MasterRestart, Inv, TypeInv, PushInv
  <2>2. CASE engine.to # {}
    <3>1. PICK a \in Agents : engine.to = {a}
      BY <2>2 DEF Inv, PushInv, TypeInv, Engine, Pcs
    <3>2. Orphaned(a)
      BY <2>2, <3>1 DEF MasterRestart
    <3> QED
      BY <3>2, OrphanedEffect DEF Inv, PushInv
  <2> QED
    BY <2>1, <2>2
<1>3. TypeInv' /\ SourceInv' /\ HashInv' /\ OpenInv' /\ SentInv'
  BY <1>1, <1>2 DEF Inv, TypeInv, SourceInv, HashInv, OpenInv, SentInv, disk
<1>4. PushInv'
  BY <1>1, <1>2 DEF Inv, PushInv
<1>5. FinalInv' /\ WholeAndLater
  BY <1>1 DEF Inv, FinalInv, Unwhole, disk, WholeAndLater
<1> QED
  BY <1>3, <1>4, <1>5 DEF Inv

\* A handler that was given up changes temporary files, at agents that no push is
\* under way to, and files in place where one has met it.
LEMMA OrphanSteps ==
    ASSUME Inv, NEW a \in Agents, OrphanWrites(a) \/ OrphanEnds(a)
    PROVE  Inv' /\ WholeAndLater
<1>1. /\ orphan[a].on /\ UNCHANGED <<disk, targets, engine, crossed>>
      /\ DOMAIN tmp' = Agents /\ \A b \in Agents \ {a} : tmp'[b] = tmp[b]
      /\ DOMAIN final' = Agents /\ \A b \in Agents \ {a} : final'[b] = final[b]
      /\ orphan[a].at # "final" => final' = final
  <2>1. CASE OrphanEnds(a)
    BY <2>1 DEF OrphanEnds, Inv, TypeInv
  <2>2. CASE OrphanWrites(a)
    <3> DEFINE put(f) == IF f = NoFile THEN f ELSE [f EXCEPT ![orphan[a].pos] = orphan[a].val]
    <3>1. /\ tmp' = IF orphan[a].at = "tmp" THEN [tmp EXCEPT ![a] = put(@)] ELSE tmp
          /\ final' = IF orphan[a].at = "final" THEN [final EXCEPT ![a] = put(@)] ELSE final
          /\ orphan[a].on /\ UNCHANGED <<disk, targets, engine, crossed>>
      BY <2>2 DEF OrphanWrites
    <3> HIDE DEF put
    <3> QED
      BY <3>1 DEF Inv, TypeInv
  <2> QED
    BY <2>1, <2>2
<1>2. /\ orphan' \in [Agents -> Orphan] /\ \A b \in Agents \ {a} : orphan'[b] = orphan[b]
      /\ orphan'[a].at \in {orphan[a].at, "none"}
  <2>1. CASE OrphanEnds(a)
    <3>1. NoOrphan \in Orphan /\ NoOrphan.at = "none"
      BY Values DEF NoOrphan, Orphan
    <3> QED
      BY <2>1, <3>1 DEF OrphanEnds, Inv, TypeInv
  <2>2. CASE OrphanWrites(a)
    <3> DEFINE zero == 0
               val == Empty
               o == [orphan[a] EXCEPT !.pos = zero, !.val = val]
    <3>1. orphan[a] \in Orphan /\ orphan \in [Agents -> Orphan]
      BY DEF Inv, TypeInv
    <3>2. orphan' = [orphan EXCEPT ![a] = o]
      BY <2>2, <3>1 DEF OrphanWrites, Orphan
    <3>3. zero \in Nat /\ val \in Int
      BY Values
    <3> HIDE DEF zero, val
    <3>4. o \in Orphan /\ o.at = orphan[a].at
      BY <3>1, <3>3 DEF Orphan
    <3> HIDE DEF o
    <3> QED
      BY <3>1, <3>2, <3>4
  <2> QED
    BY <2>1, <2>2
<1>3. TypeInv' /\ SourceInv'
  BY <1>1, <1>2 DEF Inv, TypeInv, SourceInv, disk
<1>a. UNCHANGED <<src, ver, saving>>
  BY <1>1 DEF disk
<1>5. a \notin crossed => a \notin engine.to /\ final' = final /\ orphan'[a].at # "final"
  BY <1>1, <1>2 DEF Inv, PushInv
<1>b. \A b \in Agents \ crossed : final'[b] = final[b]
  BY <1>1, <1>5
<1>c. ASSUME NEW v PROVE Unwhole(v)' <=> Unwhole(v)
  BY <1>b, <1>1 DEF Unwhole
<1>4. HashInv' /\ OpenInv' /\ SentInv'
  <2>1. HashInv' /\ OpenInv'
    BY <1>1, <1>a DEF Inv, HashInv, OpenInv
  <2>2. ASSUME NEW h, NEW i PROVE (Hashed(h, i) => Hashed(h, i)') /\ (Pushed(h, i) => Pushed(h, i)')
    BY <1>1, <1>a, <1>c DEF Hashed, Pushed
  <2>3. SentInv'
    BY <2>2, <1>1 DEF Inv, SentInv
  <2> QED
    BY <2>1, <2>3
<1>6. PushInv'
  BY <1>1, <1>2, <1>5 DEF Inv, PushInv
<1>7. FinalInv' /\ WholeAndLater
  BY <1>1, <1>a, <1>b, <1>c DEF Inv, FinalInv, WholeAndLater
<1> QED
  BY <1>3, <1>4, <1>6, <1>7 DEF Inv

LEMMA Starts ==
    ASSUME Init
    PROVE  Inv
<1>1. TypeInv
  <2>1. NoOrphan \in Orphan
    BY Values DEF NoOrphan, Orphan
  <2> QED
    BY <2>1, IdleEngine DEF Init, TypeInv
<1>2. SourceInv /\ HashInv /\ OpenInv /\ SentInv
  BY IdleEngine DEF Init, SourceInv, HashInv, OpenInv, SentInv
<1>3. PushInv
  <2>1. NoOrphan.at = "none"
    BY DEF NoOrphan
  <2> QED
    BY <2>1, IdleEngine DEF Init, PushInv
<1>4. FinalInv
  BY DEF Init, FinalInv
<1> QED
  BY <1>1, <1>2, <1>3, <1>4 DEF Inv

LEMMA EveryStep ==
    ASSUME Inv, [Next]_vars
    PROVE  Inv' /\ WholeAndLater
<1>1. CASE Truncate \/ WritePart \/ Write \/ RemoveSource
  BY <1>1, SourceStep
<1>2. CASE \/ ReloadBegins \/ (\E m \in Mappings : ReloadEnds(m))
           \/ HandleRaw \/ Emit \/ vars' = vars
           \/ \E a \in Agents : RegisterAgent(a) \/ UnregisterAgent(a)
  <2>1. UNCHANGED <<disk, engine, agents>>
    BY <1>2 DEF ReloadBegins, ReloadEnds, HandleRaw, Emit, RegisterAgent, UnregisterAgent, vars
  <2>2. targets' \subseteq Agents
    BY <1>2 DEF ReloadBegins, ReloadEnds, HandleRaw, Emit, RegisterAgent, UnregisterAgent, vars,
                Inv, TypeInv
  <2> QED
    BY <2>1, <2>2, QuietStep
<1>3. CASE HandleEvent
  BY <1>3, HandleStep
<1>4. CASE ComputeFileInfo
  BY <1>4, ComputeStep
<1>5. ASSUME NEW a \in Agents, PushBegins(a)
      PROVE  Inv' /\ WholeAndLater
  BY <1>5, BeginStep
<1>6. ASSUME NEW a \in Agents, PushSecond(a)
      PROVE  Inv' /\ WholeAndLater
  BY <1>6, SecondStep
<1>7. ASSUME NEW a \in Agents, Verify(a)
      PROVE  Inv' /\ WholeAndLater
  BY <1>7, VerifyStep
<1>8. ASSUME NEW a \in Agents, PushBreaks(a)
      PROVE  Inv' /\ WholeAndLater
  BY <1>8, BreakStep
<1>9. ASSUME NEW a \in Agents, OrphanWrites(a) \/ OrphanEnds(a)
      PROVE  Inv' /\ WholeAndLater
  BY <1>9, OrphanSteps
<1>10. ASSUME NEW m \in Mappings, MasterRestart(m)
       PROVE  Inv' /\ WholeAndLater
  BY <1>10, RestartStep
<1> QED
  BY <1>1, <1>2, <1>3, <1>4, <1>5, <1>6, <1>7, <1>8, <1>9, <1>10 DEF Next, EngineStep, OrphanStep

\* The file of an agent is only ever replaced by one version of the source, a later one
\* or the rest of one that was pushed while it was being saved, for any number of agents
\* and whatever happens to the pushes, as long as none meets a handler that was given up
\* (FilePusher.PushFile, Handler.PushFile).
THEOREM NeverTorn == Spec => NeverTornNorOlder
<1>1. Init => Inv
  BY Starts
<1>2. Inv /\ [Next]_vars => Inv'
  BY EveryStep
<1>3. Inv /\ [Next]_vars => [WholeAndLater]_vars
  BY EveryStep
<1> QED
  BY <1>1, <1>2, <1>3, PTL DEF Spec, NeverTornNorOlder, WholeAndLater

-----------------------------------------------------------------------------
(* The sync page and its jobs.                                             *)

Mapping == [on : BOOLEAN, enabled : BOOLEAN, agent : BOOLEAN]
Job == [pc : {"idle", "pull", "save", "walk", "read", "write"}, todo : SUBSET Targets, got : Int]

JobsTypes ==
    /\ row \in Mapping /\ (~row.on => ~row.enabled)
    /\ target \in [Targets -> {"none", "on", "off"}]
    /\ request \in [Handlers -> [pc : {"idle", "list", "load"}, seen : BOOLEAN]]
    /\ loaded \in BOOLEAN /\ startup \in BOOLEAN /\ raced \in BOOLEAN /\ calm \in BOOLEAN
    /\ cache \in Int /\ origin \in Int /\ inst \in [Targets -> Int]
    /\ saver \in [pc : {"idle", "write", "trigger"}, val : Int]
    /\ job \in [Jobs -> Job]
    /\ ops \in Nat

\* What a handler has listed is what the table says, as long as nothing has come
\* in between; and the watcher has it once no handler is at work.
WatchInv ==
    /\ startup => loaded
    /\ ~raced => \A h \in Handlers :
                    request[h].pc = "load" => request[h].seen = (row.enabled /\ ~row.agent)
    /\ WatchFollowsRows

\* Since a save that nothing has come in between: at most one job is under way, and
\* none until the save has started it; the file is there; and the targets the
\* job has not served yet are all that may lack it.
SaveInv ==
    calm =>
       /\ cache # Missing
       /\ saver.pc # "idle" => Running = {}
       /\ saver.pc # "idle" => saver.val # Missing
       /\ \A j, k \in Running : j = k
       /\ \A j \in Running :
             /\ job[j].pc = "save" => job[j].got # Missing
             /\ job[j].pc \in {"pull", "save", "walk"} => job[j].todo = ListEnabledSyncTargets
             /\ job[j].pc \in {"read", "write"} =>
                   \A t \in ListEnabledSyncTargets \ job[j].todo : inst[t] = cache
             /\ job[j].pc = "write" => job[j].got = cache /\ job[j].todo # {}
       /\ saver.pc = "idle" /\ Running = {} => \A t \in ListEnabledSyncTargets : inst[t] = cache

JobsInv == JobsTypes /\ WatchInv /\ SaveInv

LEMMA JobsStart == JobsInit => JobsInv
<1> SUFFICES ASSUME JobsInit PROVE JobsInv
  OBVIOUS
<1>1. row \in Mapping /\ (~row.on => ~row.enabled)
  <2>1. CASE row = NoRow
    BY <2>1 DEF NoRow, Mapping
  <2>2. CASE row \in [on : {TRUE}, enabled : {TRUE}, agent : BOOLEAN]
    BY <2>2 DEF Mapping
  <2> QED
    BY <2>1, <2>2 DEF JobsInit
<1>2. JobsTypes
  <2>1. target \in [Targets -> {"none", "on", "off"}]
    BY DEF JobsInit
  <2>2. job \in [Jobs -> Job]
    BY DEF JobsInit, NoJob, Job, Missing
  <2>3. /\ request \in [Handlers -> [pc : {"idle", "list", "load"}, seen : BOOLEAN]]
        /\ saver \in [pc : {"idle", "write", "trigger"}, val : Int]
        /\ cache \in Int /\ origin \in Int /\ inst \in [Targets -> Int] /\ ops \in Nat
    BY DEF JobsInit, NoRequest, Missing, EmptyFile
  <2>4. loaded \in BOOLEAN /\ startup \in BOOLEAN /\ raced \in BOOLEAN /\ calm \in BOOLEAN
    BY <1>1 DEF JobsInit, Mapping
  <2> QED
    BY <1>1, <2>1, <2>2, <2>3, <2>4 DEF JobsTypes
<1>3. WatchInv
  BY <1>1 DEF JobsInit, WatchInv, WatchFollowsRows, NoRequest, Mapping
<1>4. SaveInv
  BY DEF JobsInit, SaveInv
<1> QED
  BY <1>2, <1>3, <1>4 DEF JobsInv

\* A handler that changes the mapping outdates the lists of the others.
LEMMA ChangeStep ==
    ASSUME JobsTypes, WatchInv, NEW h \in Handlers, NEW pc \in {"idle", "list"}, Changed(h, pc),
           row' \in Mapping, ~row'.on => ~row'.enabled,
           target' \in [Targets -> {"none", "on", "off"}],
           pc = "idle" => ~row.on /\ row'.agent
    PROVE  JobsInv'
<1>1. /\ request[h].pc = "idle" /\ request' = [request EXCEPT ![h].pc = pc]
      /\ raced' = (raced \/ \E g \in Handlers \ {h} : request[g].pc = "load")
      /\ calm' = FALSE /\ ops' = ops + 1
      /\ UNCHANGED <<loaded, startup, cache, origin, inst, saver, job>>
  BY DEF Changed, Op, files
<1>2. /\ request' \in [Handlers -> [pc : {"idle", "list", "load"}, seen : BOOLEAN]]
      /\ request'[h].pc = pc
      /\ \A g \in Handlers \ {h} : request'[g] = request[g]
  BY <1>1 DEF JobsTypes
<1>3. JobsTypes'
  <2>0. ops' = ops + 1 /\ ops \in Nat
    BY <1>1 DEF JobsTypes
  <2>1. ops' \in Nat
    BY <2>0
  <2>3. raced' \in BOOLEAN /\ calm' \in BOOLEAN
    BY <1>1, Zenon DEF JobsTypes
  <2> QED
    BY <1>1, <1>2, <2>1, <2>3 DEF JobsTypes
<1>4. WatchInv'
  <2>1. (startup => loaded)'
    BY <1>1 DEF WatchInv
  <2>2. ASSUME ~raced', NEW g \in Handlers PROVE request'[g].pc # "load"
    BY <1>1, <1>2, <2>2
  <2>3. WatchFollowsRows'
    <3> SUFFICES ASSUME ~raced', \A g \in Handlers : request'[g].pc = "idle"
                 PROVE  loaded' <=> row'.enabled /\ (startup' \/ ~row'.agent)
      BY DEF WatchFollowsRows
    <3>1. pc = "idle" /\ \A g \in Handlers : request[g].pc = "idle"
      BY <1>1, <1>2
    <3>2. ~raced /\ ~row.enabled /\ row'.agent
      BY <1>1, <3>1 DEF JobsTypes
    <3>3. ~loaded /\ ~startup
      BY <3>1, <3>2 DEF WatchInv, WatchFollowsRows
    <3> QED
      BY <1>1, <3>2, <3>3
  <2> QED
    BY <2>1, <2>2, <2>3 DEF WatchInv
<1>5. SaveInv'
  BY <1>1 DEF SaveInv
<1> QED
  BY <1>3, <1>4, <1>5 DEF JobsInv

\* What leaves the mapping and the watcher alone keeps WatchInv.
LEMMA ConfigStays ==
    ASSUME WatchInv, UNCHANGED <<row, request, loaded, startup, raced>>
    PROVE  WatchInv'
  BY DEF WatchInv, WatchFollowsRows

LEMMA MappingSteps ==
    ASSUME JobsInv, NEW h \in Handlers
    PROVE  /\ \A r \in Rows : apiCreateSyncMapping(h, r) \/ apiUpdateSyncMapping(h, r) => JobsInv'
           /\ apiDeleteSyncMapping(h) => JobsInv'
<1> USE DEF JobsInv
<1>1. ASSUME NEW r \in Rows PROVE r \in Mapping /\ r.on
  BY DEF Rows, Mapping
<1>2. ASSUME NEW r \in Rows, apiCreateSyncMapping(h, r) PROVE JobsInv'
  <2>1. ~row.on /\ row' = r /\ target' = target /\ Changed(h, IF r.agent THEN "idle" ELSE "list")
    BY <1>2 DEF apiCreateSyncMapping, CreateSyncMapping
  <2>2. CASE r.agent
    <3>1. Changed(h, "idle")
      BY <2>1, <2>2
    <3> QED
      BY <1>1, <2>1, <2>2, <3>1, ChangeStep DEF JobsTypes
  <2>3. CASE ~r.agent
    <3>1. Changed(h, "list")
      BY <2>1, <2>3
    <3> QED
      BY <1>1, <2>1, <2>3, <3>1, ChangeStep DEF JobsTypes
  <2> QED
    BY <2>2, <2>3
<1>3. ASSUME NEW r \in Rows, apiUpdateSyncMapping(h, r) PROVE JobsInv'
  <2>1. row' \in {r, row} /\ target' = target /\ Changed(h, "list")
    BY <1>3 DEF apiUpdateSyncMapping, UpdateSyncMapping
  <2> QED
    BY <1>1, <2>1, ChangeStep DEF JobsTypes
<1>4. ASSUME apiDeleteSyncMapping(h) PROVE JobsInv'
  <2>1. row' = NoRow /\ target' = [t \in Targets |-> "none"] /\ Changed(h, "list")
    BY <1>4 DEF apiDeleteSyncMapping, DeleteSyncMapping
  <2>2. row' \in Mapping /\ ~row'.enabled /\ target' \in [Targets -> {"none", "on", "off"}]
    BY <2>1 DEF NoRow, Mapping
  <2> QED
    BY <2>1, <2>2, ChangeStep
<1> QED
  BY <1>2, <1>3, <1>4

\* The reload of the watcher's mappings.
LEMMA ReloadSteps ==
    ASSUME JobsInv, NEW h \in Handlers, ListMappings(h) \/ LoadMappings(h)
    PROVE  JobsInv'
<1> USE DEF JobsInv
<1>1. CASE ListMappings(h)
  <2>1. /\ request[h].pc = "list"
        /\ request' = [request EXCEPT ![h] = [pc |-> "load", seen |-> \E r \in ListEnabledSyncMappings : ~r.agent]]
        /\ raced' = (raced /\ \E g \in Handlers \ {h} : request[g].pc = "load")
        /\ UNCHANGED <<row, target, loaded, startup, cache, origin, inst, saver, job, record, ops, calm>>
    BY <1>1 DEF ListMappings, files
  <2>2. (\E r \in ListEnabledSyncMappings : ~r.agent) <=> row.enabled /\ ~row.agent
    BY DEF ListEnabledSyncMappings
  <2> DEFINE s == \E r \in ListEnabledSyncMappings : ~r.agent
  <2>3. s \in BOOLEAN
    OBVIOUS
  <2>4. request' = [request EXCEPT ![h] = [pc |-> "load", seen |-> s]]
    BY <2>1
  <2>5. s = (row.enabled /\ ~row.agent)
    BY <2>2, <2>3 DEF JobsTypes, Mapping
  <2> HIDE DEF s
  <2>6. /\ request' \in [Handlers -> [pc : {"idle", "list", "load"}, seen : BOOLEAN]]
        /\ request'[h].pc = "load" /\ request'[h].seen = s
        /\ \A g \in Handlers \ {h} : request'[g] = request[g]
    BY <2>3, <2>4 DEF JobsTypes
  <2>7. JobsTypes'
    BY <2>1, <2>6 DEF JobsTypes
  <2>8. WatchInv'
    <3>1. (startup => loaded)'
      BY <2>1 DEF WatchInv
    <3>2. ASSUME ~raced', NEW g \in Handlers, request'[g].pc = "load"
          PROVE  request'[g].seen = (row'.enabled /\ ~row'.agent)
      <4>1. CASE g = h
        BY <2>1, <2>5, <2>6, <4>1
      <4>2. CASE g # h
        <5>1. request[g].pc = "load" /\ ~raced
          BY <2>1, <2>6, <3>2, <4>2
        <5> QED
          BY <2>1, <2>6, <4>2, <5>1 DEF WatchInv
      <4> QED
        BY <4>1, <4>2
    <3>3. WatchFollowsRows'
      BY <2>6 DEF WatchFollowsRows
    <3> QED
      BY <3>1, <3>2, <3>3 DEF WatchInv
  <2>9. SaveInv'
    BY <2>1 DEF SaveInv, Running, ListEnabledSyncTargets
  <2> QED
    BY <2>7, <2>8, <2>9
<1>2. CASE LoadMappings(h)
  <2>1. /\ request[h].pc = "load" /\ loaded' = request[h].seen /\ startup' = FALSE
        /\ request' = [request EXCEPT ![h] = NoRequest]
        /\ UNCHANGED <<row, target, cache, origin, inst, saver, job, record, ops, raced, calm>>
    BY <1>2 DEF LoadMappings, files
  <2>2. NoRequest \in [pc : {"idle", "list", "load"}, seen : BOOLEAN] /\ NoRequest.pc = "idle"
    BY DEF NoRequest
  <2>3. /\ request' \in [Handlers -> [pc : {"idle", "list", "load"}, seen : BOOLEAN]]
        /\ request'[h].pc = "idle"
        /\ \A g \in Handlers \ {h} : request'[g] = request[g]
    BY <2>1, <2>2 DEF JobsTypes
  <2>4. JobsTypes'
    BY <2>1, <2>3 DEF JobsTypes
  <2>5. WatchInv'
    <3>1. ASSUME ~raced PROVE loaded' = (row.enabled /\ ~row.agent)
      BY <2>1, <3>1 DEF WatchInv
    <3>2. WatchFollowsRows'
      BY <2>1, <3>1 DEF WatchFollowsRows, JobsTypes, Mapping
    <3>3. ASSUME ~raced', NEW g \in Handlers, request'[g].pc = "load"
          PROVE  request'[g].seen = (row'.enabled /\ ~row'.agent)
      BY <2>1, <2>3, <3>3 DEF WatchInv
    <3> QED
      BY <2>1, <3>2, <3>3 DEF WatchInv
  <2>6. SaveInv'
    BY <2>1 DEF SaveInv, Running, ListEnabledSyncTargets
  <2> QED
    BY <2>4, <2>5, <2>6
<1> QED
  BY <1>1, <1>2

LEMMA MasterStep ==
    ASSUME JobsInv, MasterStarts
    PROVE  JobsInv'
<1> USE DEF JobsInv
<1>1. /\ ops' = ops + 1 /\ loaded' = (ListEnabledSyncMappings # {}) /\ startup' = loaded'
      /\ raced' = FALSE /\ request' = [h \in Handlers |-> NoRequest]
      /\ saver' = [pc |-> "idle", val |-> Missing] /\ job' = [j \in Jobs |-> NoJob]
      /\ calm' = FALSE /\ UNCHANGED <<row, target, cache, origin, inst>>
  BY DEF MasterStarts, Op, files
<1>2. loaded' = row.enabled
  BY <1>1 DEF ListEnabledSyncMappings, JobsTypes, Mapping
<1>3. /\ saver' \in [pc : {"idle", "write", "trigger"}, val : Int]
      /\ job' \in [Jobs -> Job]
      /\ request' \in [Handlers -> [pc : {"idle", "list", "load"}, seen : BOOLEAN]]
      /\ \A h \in Handlers : request'[h].pc = "idle"
  BY <1>1 DEF NoRequest, NoJob, Job, Missing
<1>4. JobsTypes'
  <2>0. ops' = ops + 1 /\ ops \in Nat
    BY <1>1 DEF JobsTypes
  <2>1. ops' \in Nat
    BY <2>0
  <2>3. raced' \in BOOLEAN /\ calm' \in BOOLEAN
    BY <1>1, Zenon DEF JobsTypes
  <2>2. loaded' \in BOOLEAN /\ startup' \in BOOLEAN
    BY <1>1, <1>2 DEF JobsTypes, Mapping
  <2> QED
    BY <1>1, <1>3, <2>1, <2>2, <2>3 DEF JobsTypes
<1>5. WatchInv'
  BY <1>1, <1>2, <1>3 DEF WatchInv, WatchFollowsRows, JobsTypes, Mapping
<1> QED
  BY <1>1, <1>4, <1>5 DEF SaveInv

\* Edits of the targets end the calm.
LEMMA TargetSteps ==
    ASSUME JobsInv, TargetsEdited, target' \in [Targets -> {"none", "on", "off"}]
    PROVE  JobsInv'
<1> USE DEF JobsInv
<1>1. /\ ops' = ops + 1 /\ calm' = FALSE
      /\ UNCHANGED <<row, request, loaded, startup, raced, cache, origin, inst, saver, job, record>>
  BY DEF TargetsEdited, Op, files
<1>2. JobsTypes'
  <2>1. ops' = ops + 1 /\ ops \in Nat
    BY <1>1 DEF JobsTypes
  <2>2. ops' \in Nat
    BY <2>1
  <2>3. calm' \in BOOLEAN
    BY <1>1, Zenon
  <2> QED
    BY <1>1, <2>2, <2>3 DEF JobsTypes
<1>3. WatchInv'
  BY <1>1, ConfigStays
<1> QED
  BY <1>1, <1>2, <1>3 DEF SaveInv

LEMMA FileSteps ==
    ASSUME JobsInv, SaveBegins \/ SaveEnds \/ apiDeleteSyncFile \/ OriginChanges
    PROVE  JobsInv'
<1> USE DEF JobsInv
<1>1. UNCHANGED <<row, target, request, loaded, startup, raced, inst, job>>
  BY DEF SaveBegins, SaveEnds, apiDeleteSyncFile, OriginChanges, config
<1>2. WatchInv'
  BY <1>1, ConfigStays
<1>3. CASE SaveBegins
  <2>1. /\ saver' = [pc |-> "write", val |-> ops + 1] /\ cache' = 0 /\ calm' = (Running = {})
        /\ ops' = ops + 1 /\ UNCHANGED origin
    BY <1>3 DEF SaveBegins, Op, EmptyFile
  <2> DEFINE v == ops + 1
  <2>2. v \in Int /\ v # Missing /\ v \in Nat /\ saver' = [pc |-> "write", val |-> v]
    BY <2>1 DEF JobsTypes, Missing
  <2> HIDE DEF v
  <2>3. saver' \in [pc : {"idle", "write", "trigger"}, val : Int] /\ saver'.pc = "write" /\ saver'.val # Missing
    BY <2>2
  <2>4. JobsTypes'
    BY <1>1, <2>1, <2>3 DEF JobsTypes
  <2>5. SaveInv'
    <3>1. cache' # Missing
      BY <2>1 DEF Missing
    <3>2. calm' => Running' = {}
      BY <1>1, <2>1, Zenon DEF Running
    <3> QED
      BY <2>3, <3>1, <3>2 DEF SaveInv
  <2> QED
    BY <1>2, <2>4, <2>5
<1>4. CASE SaveEnds
  <2>1. /\ saver.pc = "write" /\ cache' = saver.val /\ saver' = [saver EXCEPT !.pc = "trigger"]
        /\ UNCHANGED <<origin, ops, calm>>
    BY <1>4 DEF SaveEnds
  <2>2. /\ saver' \in [pc : {"idle", "write", "trigger"}, val : Int] /\ saver'.pc = "trigger"
        /\ saver'.val = saver.val
    BY <2>1 DEF JobsTypes
  <2>3. JobsTypes'
    BY <1>1, <2>1, <2>2 DEF JobsTypes
  <2>4. SaveInv'
    BY <1>1, <2>1, <2>2 DEF SaveInv, Running
  <2> QED
    BY <1>2, <2>3, <2>4
<1>5. CASE apiDeleteSyncFile \/ OriginChanges
  <2>1. /\ ops' = ops + 1 /\ calm' = FALSE /\ saver' = saver
        /\ cache' \in {cache, Missing} /\ origin' \in {origin, ops + 1}
    BY <1>5 DEF apiDeleteSyncFile, OriginChanges, Op
  <2>2. JobsTypes'
    <3>1. ops' = ops + 1 /\ ops \in Nat /\ cache \in Int /\ origin \in Int
          /\ cache' \in {cache, Missing} /\ origin' \in {origin, ops + 1}
      BY <2>1 DEF JobsTypes
    <3>2. ops' \in Nat /\ cache' \in Int /\ origin' \in Int
      BY <3>1 DEF Missing
    <3>3. calm' \in BOOLEAN
      BY <2>1, Zenon
    <3> QED
      BY <1>1, <2>1, <3>2, <3>3 DEF JobsTypes
  <2> QED
    BY <1>2, <2>1, <2>2 DEF SaveInv
<1> QED
  BY <1>3, <1>4, <1>5

\* A job of which the step says what becomes of it.
LEMMA JobStarts ==
    ASSUME JobsTypes, NEW j \in Jobs, Start(j)
    PROVE  /\ job' \in [Jobs -> Job]
           /\ job[j].pc = "idle" /\ job'[j].pc \in {"pull", "walk"}
           /\ job'[j].todo = ListEnabledSyncTargets
           /\ \A k \in Jobs \ {j} : job'[k] = job[k]
<1> DEFINE pc == IF row.agent THEN "pull" ELSE "walk"
           todo == ListEnabledSyncTargets
<1>1. pc \in {"pull", "walk"} /\ todo \in SUBSET Targets
  BY DEF ListEnabledSyncTargets
<1>2. Missing \in Int
  BY DEF Missing
<1>3. job[j].pc = "idle" /\ job' = [job EXCEPT ![j] = [pc |-> pc, todo |-> todo, got |-> Missing]]
  BY DEF Start
<1> HIDE DEF pc, todo
<1>4. /\ job' \in [Jobs -> Job] /\ job'[j].pc = pc /\ job'[j].todo = todo
      /\ \A k \in Jobs \ {j} : job'[k] = job[k]
  BY <1>1, <1>2, <1>3 DEF JobsTypes, Job
<1> QED
  BY <1>1, <1>3, <1>4 DEF todo

LEMMA StartSteps ==
    ASSUME JobsInv, NEW j \in Jobs, apiExecuteSync(j) \/ triggerAutoSync(j)
    PROVE  JobsInv'
<1> USE DEF JobsInv
<1>1. UNCHANGED <<row, target, request, loaded, startup, raced, cache, origin, inst>>
  BY DEF apiExecuteSync, triggerAutoSync, config, files
<1>2. WatchInv'
  BY <1>1, ConfigStays
<1>a. ListEnabledSyncTargets' = ListEnabledSyncTargets
  BY <1>1 DEF ListEnabledSyncTargets
<1>3. ASSUME Start(j), saver'.pc = "idle", saver' \in [pc : {"idle", "write", "trigger"}, val : Int],
             calm' \in BOOLEAN, calm' => calm /\ Running = {}, ops' \in Nat
      PROVE  JobsInv'
  <2>1. /\ job' \in [Jobs -> Job]
        /\ job[j].pc = "idle" /\ job'[j].pc \in {"pull", "walk"}
        /\ job'[j].todo = ListEnabledSyncTargets
        /\ \A k \in Jobs \ {j} : job'[k] = job[k]
    BY <1>3, JobStarts
  <2>2. JobsTypes'
    BY <1>1, <1>3, <2>1 DEF JobsTypes
  <2>3. ASSUME calm' PROVE Running' = {j}
    BY <1>3, <2>1, <2>3 DEF Running
  <2>4. SaveInv'
    BY <1>1, <1>a, <1>3, <2>1, <2>3 DEF SaveInv
  <2> QED
    BY <1>2, <2>2, <2>4
<1>4. CASE apiExecuteSync(j)
  <2>1. /\ Start(j) /\ ops' = ops + 1 /\ saver' = saver
        /\ calm' = (calm /\ Running = {} /\ saver.pc = "idle")
    BY <1>4 DEF apiExecuteSync, Op
  <2>2. CASE calm'
    <3>1. ops' = ops + 1 /\ ops \in Nat
      BY <2>1 DEF JobsTypes
    <3>2. ops' \in Nat
      BY <3>1
    <3>3. /\ saver'.pc = "idle" /\ saver' \in [pc : {"idle", "write", "trigger"}, val : Int]
          /\ calm' \in BOOLEAN /\ calm /\ Running = {}
      BY <2>1, <2>2, Zenon DEF JobsTypes
    <3> QED
      BY <1>3, <2>1, <3>2, <3>3
  <2>3. CASE ~calm'
    <3>1. job' \in [Jobs -> Job]
      BY <2>1, JobStarts
    <3>2. JobsTypes'
      BY <1>1, <2>1, <3>1 DEF JobsTypes
    <3> QED
      BY <1>2, <2>3, <3>2 DEF SaveInv
  <2> QED
    BY <2>2, <2>3
<1>5. CASE triggerAutoSync(j)
  <2>1. /\ saver.pc = "trigger" /\ saver' = [pc |-> "idle", val |-> Missing]
        /\ calm' = (calm /\ Running = {} /\ row.enabled) /\ UNCHANGED ops
    BY <1>5 DEF triggerAutoSync
  <2>2. saver' \in [pc : {"idle", "write", "trigger"}, val : Int] /\ saver'.pc = "idle"
    BY <2>1 DEF Missing
  <2>3. CASE row.enabled /\ ListEnabledSyncTargets # {}
    <3>1. Start(j)
      BY <1>5, <2>3 DEF triggerAutoSync
    <3> QED
      BY <1>3, <2>1, <2>2, <3>1 DEF JobsTypes
  <2>4. CASE ~(row.enabled /\ ListEnabledSyncTargets # {})
    <3>1. UNCHANGED job
      BY <1>5, <2>4 DEF triggerAutoSync
    <3>2. JobsTypes'
      BY <1>1, <2>1, <2>2, <3>1 DEF JobsTypes
    <3>3. SaveInv'
      BY <1>1, <1>a, <2>1, <2>2, <2>4, <3>1 DEF SaveInv, Running
    <3> QED
      BY <1>2, <3>2, <3>3
  <2> QED
    BY <2>3, <2>4
<1> QED
  BY <1>4, <1>5

\* A step of a job: what it may change, and what becomes of the job.
LEMMA JobSteps ==
    ASSUME JobsInv, NEW j \in Jobs, JobStep(j)
    PROVE  JobsInv'
<1> USE DEF JobsInv
<1>1. UNCHANGED <<row, target, request, loaded, startup, raced, origin, saver, ops>>
  BY DEF JobStep, Pull, CachePulled, PullFails, Walk, ReadFor, JobEnds, WriteTo, WriteFails, config, files
<1>2. WatchInv'
  BY <1>1, ConfigStays
<1>3. ListEnabledSyncTargets' = ListEnabledSyncTargets
  BY <1>1 DEF ListEnabledSyncTargets
<1>4. j \in Running /\ job[j] \in Job
  BY DEF JobStep, Pull, CachePulled, PullFails, Walk, ReadFor, JobEnds, WriteTo, WriteFails, Running, JobsTypes
<1>5. NoJob \in Job /\ NoJob.pc = "idle"
  BY DEF NoJob, Job, Missing
\* The types, from the ones of what changes.
<1>6. ASSUME job' \in [Jobs -> Job], cache' \in Int, inst' \in [Targets -> Int], calm' \in BOOLEAN
      PROVE  JobsTypes'
  BY <1>1, <1>6 DEF JobsTypes
\* In a calm the job is the only one.
<1>7. ASSUME calm PROVE Running = {j} /\ saver.pc = "idle" /\ cache # Missing
  BY <1>4, <1>7 DEF SaveInv
<1>8. ASSUME calm, \A k \in Jobs \ {j} : job'[k] = job[k], job'[j].pc # "idle"
      PROVE  Running' = {j}
  BY <1>7, <1>8 DEF Running
<1>9. ASSUME calm, \A k \in Jobs \ {j} : job'[k] = job[k], job'[j].pc = "idle"
      PROVE  Running' = {}
  BY <1>7, <1>9 DEF Running
<1>10. CASE Pull(j)
  <2>1. /\ job[j].pc = "pull" /\ origin # Missing /\ cache' = EmptyFile
        /\ job' = [job EXCEPT ![j].pc = "save", ![j].got = origin]
        /\ UNCHANGED <<inst, calm>>
    BY <1>10 DEF Pull, ListDirectory, ReadFile
  <2>2. /\ job' \in [Jobs -> Job] /\ job'[j].pc = "save" /\ job'[j].got = origin
        /\ job'[j].todo = job[j].todo /\ \A k \in Jobs \ {j} : job'[k] = job[k]
    BY <2>1 DEF JobsTypes, Job
  <2>3. JobsTypes'
    BY <1>6, <2>1, <2>2 DEF JobsTypes, EmptyFile
  <2>4. SaveInv'
    <3> SUFFICES ASSUME calm' PROVE SaveInv'
      BY DEF SaveInv
    <3>1. Running' = {j} /\ cache' # Missing /\ saver'.pc = "idle"
      BY <1>1, <1>7, <1>8, <2>1, <2>2 DEF EmptyFile, Missing
    <3>2. job'[j].todo = ListEnabledSyncTargets'
      BY <1>3, <1>4, <2>1, <2>2 DEF SaveInv
    <3> QED
      BY <2>1, <2>2, <3>1, <3>2 DEF SaveInv
  <2> QED
    BY <1>2, <2>3, <2>4
<1>11. CASE CachePulled(j)
  <2>1. /\ job[j].pc = "save" /\ cache' = job[j].got
        /\ job' = [job EXCEPT ![j].pc = "walk"]
        /\ UNCHANGED <<inst, calm>>
    BY <1>11 DEF CachePulled, Goto
  <2>2. /\ job' \in [Jobs -> Job] /\ job'[j].pc = "walk"
        /\ job'[j].todo = job[j].todo /\ \A k \in Jobs \ {j} : job'[k] = job[k]
    BY <2>1 DEF JobsTypes, Job
  <2>3. JobsTypes'
    BY <1>4, <1>6, <2>1, <2>2 DEF JobsTypes, Job
  <2>4. SaveInv'
    <3> SUFFICES ASSUME calm' PROVE SaveInv'
      BY DEF SaveInv
    <3>1. Running' = {j} /\ saver'.pc = "idle"
      BY <1>1, <1>7, <1>8, <2>1, <2>2
    <3>2. job'[j].todo = ListEnabledSyncTargets' /\ cache' # Missing
      BY <1>3, <1>4, <2>1, <2>2 DEF SaveInv
    <3> QED
      BY <2>1, <2>2, <3>1, <3>2 DEF SaveInv
  <2> QED
    BY <1>2, <2>3, <2>4
<1>12. CASE PullFails(j)
  <2>1. job[j].pc = "pull" /\ UNCHANGED <<cache, inst>>
    BY <1>12 DEF PullFails, files
  <2>2. CASE job' = [job EXCEPT ![j].pc = "walk"] /\ UNCHANGED calm
    <3>1. /\ job' \in [Jobs -> Job] /\ job'[j].pc = "walk"
          /\ job'[j].todo = job[j].todo /\ \A k \in Jobs \ {j} : job'[k] = job[k]
      BY <2>2 DEF JobsTypes, Job
    <3>2. JobsTypes'
      BY <1>6, <2>1, <2>2, <3>1 DEF JobsTypes
    <3>3. SaveInv'
      <4> SUFFICES ASSUME calm' PROVE SaveInv'
        BY DEF SaveInv
      <4>1. Running' = {j} /\ saver'.pc = "idle" /\ cache' # Missing
        BY <1>1, <1>7, <1>8, <2>1, <2>2, <3>1
      <4>2. job'[j].todo = ListEnabledSyncTargets'
        BY <1>3, <1>4, <2>1, <2>2, <3>1 DEF SaveInv
      <4> QED
        BY <3>1, <4>1, <4>2 DEF SaveInv
    <3> QED
      BY <1>2, <3>2, <3>3
  <2>3. CASE job' = [job EXCEPT ![j] = NoJob] /\ calm' = FALSE
    <3>1. job' \in [Jobs -> Job] /\ calm' \in BOOLEAN
      BY <1>5, <2>3 DEF JobsTypes
    <3>2. JobsTypes'
      BY <1>6, <2>1, <3>1 DEF JobsTypes
    <3> QED
      BY <1>2, <2>3, <3>2 DEF SaveInv
  <2> QED
    BY <1>12, <2>2, <2>3 DEF PullFails, Goto
<1>13. CASE Walk(j)
  <2>1. /\ job[j].pc = "walk" /\ UNCHANGED <<cache, inst, calm>>
        /\ job' = [job EXCEPT ![j] = IF cache = Missing THEN NoJob ELSE [@ EXCEPT !.pc = "read"]]
    BY <1>13 DEF Walk, files
  <2>2. CASE cache = Missing
    <3>1. job' \in [Jobs -> Job]
      BY <1>5, <2>1, <2>2 DEF JobsTypes
    <3>2. JobsTypes'
      BY <1>6, <2>1, <3>1 DEF JobsTypes
    <3>3. ~calm'
      BY <1>7, <2>1, <2>2
    <3> QED
      BY <1>2, <3>2, <3>3 DEF SaveInv
  <2>3. CASE cache # Missing
    <3>1. /\ job' \in [Jobs -> Job] /\ job'[j].pc = "read"
          /\ job'[j].todo = job[j].todo /\ \A k \in Jobs \ {j} : job'[k] = job[k]
      BY <1>4, <2>1, <2>3 DEF JobsTypes, Job
    <3>2. JobsTypes'
      BY <1>6, <2>1, <3>1 DEF JobsTypes
    <3>3. SaveInv'
      <4> SUFFICES ASSUME calm' PROVE SaveInv'
        BY DEF SaveInv
      <4>1. Running' = {j} /\ saver'.pc = "idle" /\ cache' # Missing
        BY <1>1, <1>7, <1>8, <2>1, <3>1
      <4>2. job'[j].todo = ListEnabledSyncTargets'
        BY <1>3, <1>4, <2>1, <3>1 DEF SaveInv
      <4> QED
        BY <3>1, <4>1, <4>2 DEF SaveInv
    <3> QED
      BY <1>2, <3>2, <3>3
  <2> QED
    BY <2>2, <2>3
<1>14. CASE ReadFor(j)
  <2>1. /\ job[j].pc = "read" /\ job[j].todo # {} /\ UNCHANGED <<cache, inst, calm>>
        /\ job' = [job EXCEPT ![j].pc = "write", ![j].got = cache]
    BY <1>14 DEF ReadFor, files
  <2>2. /\ job' \in [Jobs -> Job] /\ job'[j].pc = "write" /\ job'[j].got = cache
        /\ job'[j].todo = job[j].todo /\ \A k \in Jobs \ {j} : job'[k] = job[k]
    BY <2>1 DEF JobsTypes, Job
  <2>3. JobsTypes'
    BY <1>6, <2>1, <2>2 DEF JobsTypes
  <2>4. SaveInv'
    <3> SUFFICES ASSUME calm' PROVE SaveInv'
      BY DEF SaveInv
    <3>1. Running' = {j} /\ saver'.pc = "idle" /\ cache' # Missing
      BY <1>1, <1>7, <1>8, <2>1, <2>2
    <3>2. \A t \in ListEnabledSyncTargets' \ job'[j].todo : inst'[t] = cache'
      BY <1>3, <1>4, <2>1, <2>2 DEF SaveInv
    <3> QED
      BY <2>1, <2>2, <3>1, <3>2 DEF SaveInv
  <2> QED
    BY <1>2, <2>3, <2>4
<1>15. CASE JobEnds(j)
  <2>1. /\ job[j].pc = "read" /\ job[j].todo = {} /\ UNCHANGED <<cache, inst, calm>>
        /\ job' = [job EXCEPT ![j] = NoJob]
    BY <1>15 DEF JobEnds, files
  <2>2. /\ job' \in [Jobs -> Job] /\ job'[j].pc = "idle"
        /\ \A k \in Jobs \ {j} : job'[k] = job[k]
    BY <1>5, <2>1 DEF JobsTypes
  <2>3. JobsTypes'
    BY <1>6, <2>1, <2>2 DEF JobsTypes
  <2>4. SaveInv'
    <3> SUFFICES ASSUME calm' PROVE SaveInv'
      BY DEF SaveInv
    <3>1. Running' = {} /\ saver'.pc = "idle" /\ cache' # Missing
      BY <1>1, <1>7, <1>9, <2>1, <2>2
    <3>2. \A t \in ListEnabledSyncTargets' : inst'[t] = cache'
      BY <1>3, <1>4, <2>1, <2>2 DEF SaveInv
    <3> QED
      BY <3>1, <3>2 DEF SaveInv
  <2> QED
    BY <1>2, <2>3, <2>4
<1>16. CASE WriteTo(j) \/ WriteFails(j)
  <2> DEFINE t == First(job[j].todo)
  <2>1. job[j].pc = "write" /\ job' = [job EXCEPT ![j].pc = "read", ![j].todo = @ \ {t}, ![j].got = Missing]
        /\ UNCHANGED cache
    BY <1>16 DEF WriteTo, WriteFails, Served, files
  <2>2. ASSUME job[j].todo # {} PROVE t \in job[j].todo
    BY <2>2 DEF First
  <2>3. WriteTo(j) => /\ UNCHANGED calm
                      /\ \/ inst' = inst /\ job[j].got = Missing
                         \/ inst' = [inst EXCEPT ![t] = job[j].got] /\ job[j].got # Missing
    BY DEF WriteTo
  <2>4. WriteFails(j) => calm' = FALSE /\ inst' = inst
    BY DEF WriteFails, files
  <2> DEFINE todo == job[j].todo \ {t}
  <2>5. todo \in SUBSET Targets /\ Missing \in Int
    BY <1>4 DEF Job, Missing
  <2> HIDE DEF t
  <2>6. job' = [job EXCEPT ![j].pc = "read", ![j].todo = todo, ![j].got = Missing]
    BY <2>1
  <2> HIDE DEF todo
  <2>7. /\ job' \in [Jobs -> Job] /\ job'[j].pc = "read" /\ job'[j].todo = todo
        /\ \A k \in Jobs \ {j} : job'[k] = job[k]
    BY <2>5, <2>6, ZenonT(60) DEF JobsTypes, Job
  <2>8. inst' \in [Targets -> Int] /\ calm' \in BOOLEAN
    BY <1>4, <1>16, <2>3, <2>4 DEF JobsTypes, Job
  <2>9. JobsTypes'
    BY <1>6, <2>1, <2>7, <2>8 DEF JobsTypes
  <2>10. SaveInv'
    <3> SUFFICES ASSUME calm' PROVE SaveInv'
      BY DEF SaveInv
    <3>1. WriteTo(j) /\ calm
      BY <1>16, <2>3, <2>4
    <3>2. Running' = {j} /\ saver'.pc = "idle" /\ cache' # Missing
      BY <1>1, <1>7, <1>8, <2>1, <2>7, <3>1
    <3>3. job[j].got = cache /\ job[j].todo # {}
      BY <1>4, <2>1, <3>1 DEF SaveInv
    <3>4. inst' = [inst EXCEPT ![t] = cache] /\ t \in Targets
      BY <1>4, <1>7, <2>2, <2>3, <3>1, <3>3 DEF Job
    <3>5. \A u \in ListEnabledSyncTargets \ job[j].todo : inst[u] = cache
      BY <1>4, <2>1, <3>1 DEF SaveInv
    <3>6. \A u \in ListEnabledSyncTargets \ todo : inst'[u] = cache
      BY <3>4, <3>5 DEF todo, ListEnabledSyncTargets, JobsTypes
    <3> QED
      BY <1>3, <2>1, <2>7, <3>2, <3>6 DEF SaveInv
  <2> QED
    BY <1>2, <2>9, <2>10
<1> QED
  BY <1>10, <1>11, <1>12, <1>13, <1>14, <1>15, <1>16 DEF JobStep

LEMMA JobsKeep == JobsInv /\ [JobsNext]_jobsVars => JobsInv'
<1> SUFFICES ASSUME JobsInv, [JobsNext]_jobsVars PROVE JobsInv'
  OBVIOUS
<1>1. ASSUME NEW h \in Handlers,
             \/ \E r \in Rows : apiCreateSyncMapping(h, r) \/ apiUpdateSyncMapping(h, r)
             \/ apiDeleteSyncMapping(h)
      PROVE  JobsInv'
  BY <1>1, MappingSteps
<1>2. ASSUME NEW h \in Handlers, ListMappings(h) \/ LoadMappings(h) PROVE JobsInv'
  BY <1>2, ReloadSteps
<1>3. CASE MasterStarts
  BY <1>3, MasterStep
<1>4. ASSUME NEW t \in Targets, NEW s \in {"on", "off"},
             apiCreateSyncTarget(t, s) \/ apiUpdateSyncTarget(t, s) \/ apiDeleteSyncTarget(t)
      PROVE  JobsInv'
  <2>1. TargetsEdited /\ target' \in [Targets -> {"none", "on", "off"}]
    BY <1>4 DEF apiCreateSyncTarget, apiUpdateSyncTarget, apiDeleteSyncTarget, CreateSyncTarget,
                UpdateSyncTarget, DeleteSyncTarget, JobsInv, JobsTypes
  <2> QED
    BY <2>1, TargetSteps
<1>5. ASSUME NEW f \in [Targets -> {"none", "on"}], apiBulkSetSyncTargets(f) PROVE JobsInv'
  BY <1>5, TargetSteps DEF apiBulkSetSyncTargets, BulkSetSyncTargets
<1>6. CASE SaveBegins \/ SaveEnds \/ apiDeleteSyncFile \/ OriginChanges
  BY <1>6, FileSteps
<1>7. ASSUME NEW j \in Jobs, apiExecuteSync(j) \/ triggerAutoSync(j) PROVE JobsInv'
  BY <1>7, StartSteps
<1>8. ASSUME NEW j \in Jobs, JobStep(j) PROVE JobsInv'
  BY <1>8, JobSteps
<1>9. CASE UNCHANGED jobsVars
  <2>1. UNCHANGED <<row, target, request, loaded, startup, raced, cache, origin, inst, saver, job, record, ops, calm>>
    BY <1>9 DEF jobsVars, config, files
  <2> QED
    BY <2>1, ConfigStays DEF JobsInv, JobsTypes, SaveInv, Running, ListEnabledSyncTargets
<1> QED
  BY <1>1, <1>2, <1>3, <1>4, <1>5, <1>6, <1>7, <1>8, <1>9 DEF JobsNext

\* Whatever the number of handlers and the order of their statements, the
\* watcher has the mapping the table has when none is at work, unless one changed
\* the table between another's list and its load (reloadWatcherMappings).
THEOREM WatchFollows == JobsSpec => []WatchFollowsRows
<1>1. JobsInv => WatchFollowsRows
  BY DEF JobsInv, WatchInv
<1> QED
  BY <1>1, JobsStart, JobsKeep, PTL DEF JobsSpec

\* For any number of targets, a save has reached all that are enabled when its job
\* is over, if nothing came in between (triggerAutoSync, executeSyncJob).
THEOREM SavesReach == JobsSpec => []SaveReachesTargets
<1>1. JobsInv => SaveReachesTargets
  BY DEF JobsInv, SaveInv, SaveReachesTargets, ListEnabledSyncTargets
<1> QED
  BY <1>1, JobsStart, JobsKeep, PTL DEF JobsSpec
=============================================================================
