------------------------------ MODULE FileSync ------------------------------
(***************************************************************************)
(* One file of a mapping with a local source, from the master's disk to    *)
(* the agents: the watcher (fsnotify, debouncing), the sync engine, the    *)
(* file pusher, and PushFile at the agents.                                *)
(*                                                                         *)
(* The file is written and read in two chunks, so that a reader may see    *)
(* two versions, or the beginning of one; a content is the pair of the     *)
(* versions of its halves, Empty for one that is not there.  The engine    *)
(* makes one push at a time, but a handler whose stream has broken or      *)
(* timed out goes on at the agent: it may still have a chunk to write, and *)
(* it removes the temporary file, whosever that is by then.                *)
(***************************************************************************)
EXTENDS Integers, Sequences

CONSTANTS
    Agents,
    Listings,    \* the target lists a mapping may get; each a set of agents
    MaxVersions, \* bound: times the file is saved
    MaxQueue,    \* bound: events that wait for the engine
    MaxBreaks    \* bound: reloads of the mappings, pushes that break off, agents
                 \* that time out, restarts of the master

ASSUME ListingsAssumption == Listings \subseteq SUBSET Agents
ASSUME BoundsAssumption == {MaxVersions, MaxQueue, MaxBreaks} \subseteq Nat

Gone == -1
Empty == 0
Versions == 1 .. MaxVersions
Content == (0 .. MaxVersions) \X (0 .. MaxVersions)
NoFile == <<>>
NoMapping == {"none"}
Events == [type : {"change", "remove"}, to : SUBSET Agents]
NoEvent == [type |-> "none", to |-> {}]
Linked == 0    \* the file the engine has open is the source, not one that was removed

VARIABLES
    src,       \* the source file: Gone, Empty, or its version
    ver,       \* the last version
    saving,    \* "no", or the file is truncated ("begun") or has its first half
    mapping,   \* the watcher's mapping: its target list, or NoMapping
    reloading, \* LoadMappings holds the lock, and there is no watch
    raw,       \* fsnotify events that have not been handled
    pending,   \* Watcher.pending of the file
    queue,     \* eventCh
    targets,   \* Engine.agents
    engine,    \* the engine's goroutine, and the push it is making
    tmp,       \* the temporary file at each agent
    final,     \* the file at each agent
    orphan,    \* a handler at each agent that the master has given up
    crossed,   \* history: agents where a push has met such a handler
    missed,    \* history: agents a change has passed by, and none since
    breaks     \* how often something has come in between

disk == <<src, ver, saving>>
watcher == <<mapping, reloading, raw, pending>>
agents == <<tmp, final, orphan, crossed>>
vars == <<disk, watcher, queue, targets, engine, agents, missed, breaks>>

Idle == [pc |-> "idle", hash |-> NoFile, todo |-> {}, to |-> {}, got |-> NoFile, fd |-> Linked]
NoOrphan == [on |-> FALSE, pos |-> 0, val |-> Empty, at |-> "none"]

Init ==
    /\ src = Gone /\ ver = 0 /\ saving = "no"
    /\ mapping \in Listings /\ reloading = FALSE
    /\ raw = <<>> /\ pending = NoEvent /\ queue = <<>>
    /\ targets = Agents
    /\ engine = Idle
    /\ tmp = [a \in Agents |-> NoFile] /\ final = [a \in Agents |-> NoFile]
    /\ orphan = [a \in Agents |-> NoOrphan]
    /\ crossed = {} /\ missed = {}
    /\ breaks = 0

-----------------------------------------------------------------------------
(* The file at the master, and the watch on its directory.                 *)

Watched == mapping # NoMapping /\ ~reloading

\* fsnotify reports a change, if there is a watch; equal events in a row are
\* one.  A file the engine has open stays readable when it is removed.
Notify(type) ==
    /\ raw' = IF ~Watched \/ (raw # <<>> /\ raw[Len(raw)] = type) THEN raw ELSE Append(raw, type)
    /\ missed' = IF type = "remove" THEN missed
                 ELSE IF Watched THEN missed \ targets ELSE Agents
    /\ UNCHANGED <<mapping, reloading, pending>>

\* os.WriteFile of a handler, or any other program, truncates the file ...
Truncate ==
    /\ ver < MaxVersions /\ saving = "no"
    /\ src' = Empty /\ ver' = ver + 1 /\ saving' = "begun"
    /\ Notify("change")
    /\ UNCHANGED <<queue, targets, engine, agents, breaks>>

\* ... may write a part of it ...
WritePart ==
    /\ saving = "begun"
    /\ src' = ver /\ saving' = "half"
    /\ Notify("change")
    /\ UNCHANGED <<ver, queue, targets, engine, agents, breaks>>

\* ... and writes the rest.
Write ==
    /\ saving # "no"
    /\ src' = ver /\ saving' = "no"
    /\ Notify("change")
    /\ UNCHANGED <<ver, queue, targets, engine, agents, breaks>>

\* Bound: only removals that a save can follow.
RemoveSource ==
    /\ src # Gone /\ saving = "no" /\ ver < MaxVersions
    /\ src' = Gone
    /\ engine' = [engine EXCEPT !.fd = IF engine.pc \in {"hash", "second"} /\ @ = Linked THEN src ELSE @]
    /\ Notify("remove")
    /\ UNCHANGED <<ver, saving, queue, targets, agents, breaks>>

\* LoadMappings releases the watches, and events that wait may go with them ...
ReloadBegins ==
    /\ ~reloading /\ breaks < MaxBreaks
    /\ reloading' = TRUE /\ breaks' = breaks + 1
    /\ \/ UNCHANGED <<raw, missed>>
       \/ raw # <<>> /\ raw' = <<>> /\ missed' = Agents
    /\ UNCHANGED <<disk, mapping, pending, queue, targets, engine, agents>>

\* ... and sets the ones of the mappings it was given.
ReloadEnds(m) ==
    /\ reloading
    /\ mapping' = m /\ reloading' = FALSE
    /\ UNCHANGED <<disk, raw, pending, queue, targets, engine, agents, missed, breaks>>

\* Faulty: a change of a file whose event is being debounced is dropped.
HandleRawOnce ==
    /\ raw # <<>> /\ ~reloading
    /\ raw' = Tail(raw)
    /\ pending' = IF mapping = NoMapping \/ queue # <<>> THEN pending ELSE [type |-> Head(raw), to |-> mapping]
    /\ missed' = IF Head(raw) = "remove" THEN missed
                 ELSE IF mapping = NoMapping THEN Agents ELSE missed \cup (Agents \ mapping)
    /\ UNCHANGED <<disk, mapping, reloading, queue, targets, engine, agents, breaks>>

\* handleEvent of the watcher: the event replaces the one that is pending,
\* with the target list of now.
HandleRaw ==
    /\ raw # <<>> /\ ~reloading
    /\ raw' = Tail(raw)
    /\ pending' = IF mapping = NoMapping THEN pending ELSE [type |-> Head(raw), to |-> mapping]
    /\ missed' = IF Head(raw) = "remove" THEN missed
                 ELSE IF mapping = NoMapping THEN Agents ELSE missed \cup (Agents \ mapping)
    /\ UNCHANGED <<disk, mapping, reloading, queue, targets, engine, agents, breaks>>

\* emit, when the debouncing timer fires.
Emit ==
    /\ pending # NoEvent /\ ~reloading /\ Len(queue) < MaxQueue
    /\ queue' = Append(queue, pending)
    /\ pending' = NoEvent
    /\ UNCHANGED <<disk, mapping, reloading, raw, targets, engine, agents, missed, breaks>>

-----------------------------------------------------------------------------
(* The engine.                                                             *)

RegisterAgent(a) ==
    /\ a \notin targets
    /\ targets' = targets \cup {a}
    /\ missed' = missed \cup {a}
    /\ UNCHANGED <<disk, watcher, queue, engine, agents, breaks>>

UnregisterAgent(a) ==
    /\ a \in targets /\ breaks < MaxBreaks
    /\ targets' = targets \ {a}
    /\ missed' = missed \cup {a}
    /\ breaks' = breaks + 1
    /\ UNCHANGED <<disk, watcher, queue, engine, agents>>

\* The agents a target list selects ("*", identifiers or names).
matchTarget(to) == targets \cap to

\* A read of a half of the file: the version, Empty at the end of the file.
ReadFirst == IF src = Gone THEN Empty ELSE src
ReadSecond(first) ==
    IF first = Empty \/ (engine.fd = Linked /\ saving = "half") THEN Empty
    ELSE IF engine.fd = Linked THEN ReadFirst ELSE engine.fd

\* handleEvent of the engine.  Deletions are only logged by PushToAgents, and
\* a file that has gone ends the matter.
HandleEvent ==
    /\ engine.pc = "idle" /\ queue # <<>>
    /\ queue' = Tail(queue)
    /\ engine' = IF Head(queue).type = "remove" \/ matchTarget(Head(queue).to) = {} \/ src = Gone
                 THEN Idle
                 ELSE [Idle EXCEPT !.pc = "hash", !.todo = matchTarget(Head(queue).to),
                                   !.got = <<ReadFirst>>]
    /\ UNCHANGED <<disk, watcher, targets, agents, missed, breaks>>

\* computeFileInfo reads the second half; the hash stands for the content.
ComputeFileInfo ==
    /\ engine.pc = "hash"
    /\ engine' = [engine EXCEPT !.pc = "next", !.fd = Linked, !.got = NoFile,
                                !.hash = <<engine.got[1], ReadSecond(engine.got[1])>>]
    /\ UNCHANGED <<disk, watcher, queue, targets, agents, missed, breaks>>

-----------------------------------------------------------------------------
(* The file pusher, and PushFile at the agent it is connected to.          *)

\* The agents that are left are next, if there are any.
Remaining(todo) ==
    IF todo = {} THEN Idle ELSE [Idle EXCEPT !.pc = "next", !.todo = todo, !.hash = engine.hash]

\* The stream is at an end, with an answer of either kind or without one.
PushDone == Remaining(engine.todo)

\* An orphan that has the temporary file open has it open under the name it
\* gets, or under none.
MoveOrphan(a, from, to) ==
    orphan' = [orphan EXCEPT ![a].at = IF orphan[a].on /\ @ = from THEN to ELSE @]

\* The handler creates, or truncates, the temporary file at the first chunk
\* and writes the chunk to it.
ReceiveFirst(a, first) ==
    /\ tmp' = [tmp EXCEPT ![a] = <<first, Empty>>]
    /\ crossed' = IF orphan[a].on THEN crossed \cup {a} ELSE crossed
    /\ UNCHANGED <<final, orphan>>

\* The file is opened and its first half sent with the metadata.  An empty
\* file has no chunk, so that the agent gets no metadata and refuses.
PushBegins(a) ==
    /\ engine.pc = "next" /\ a \in engine.todo
    /\ \/ /\ ReadFirst = Empty
          /\ engine' = Remaining(engine.todo \ {a})
          /\ UNCHANGED agents
       \/ /\ ReadFirst # Empty
          /\ engine' = [engine EXCEPT !.pc = "second", !.todo = @ \ {a}, !.to = {a}, !.got = <<ReadFirst>>]
          /\ ReceiveFirst(a, ReadFirst)
    /\ UNCHANGED <<disk, watcher, queue, targets, missed, breaks>>

\* The second half, written to the file the handler has open.
PushSecond(a) ==
    /\ engine.pc = "second" /\ a \in engine.to
    /\ LET second == ReadSecond(engine.got[1])
       IN /\ engine' = [engine EXCEPT !.pc = "verify", !.got = <<engine.got[1], second>>]
          /\ tmp' = [tmp EXCEPT ![a] = IF @ = NoFile THEN NoFile ELSE [@ EXCEPT ![2] = second]]
    /\ UNCHANGED <<disk, watcher, queue, targets, final, orphan, crossed, missed, breaks>>

\* Faulty: the hash is not compared.
VerifyBlindly(a) ==
    /\ engine.pc = "verify" /\ a \in engine.to
    /\ engine' = PushDone
    /\ tmp' = [tmp EXCEPT ![a] = NoFile]
    /\ \/ /\ tmp[a] # NoFile
          /\ final' = [final EXCEPT ![a] = tmp[a]]
          /\ MoveOrphan(a, "tmp", "final")
       \/ /\ tmp[a] = NoFile
          /\ MoveOrphan(a, "tmp", "none")
          /\ UNCHANGED final
    /\ UNCHANGED <<disk, watcher, queue, targets, crossed, missed, breaks>>

\* The agent compares the hash of the stream with the one sent, and renames
\* the temporary file, or removes it.
Verify(a) ==
    /\ engine.pc = "verify" /\ a \in engine.to
    /\ engine' = PushDone
    /\ tmp' = [tmp EXCEPT ![a] = NoFile]
    /\ \/ /\ engine.got = engine.hash /\ tmp[a] # NoFile
          /\ final' = [final EXCEPT ![a] = tmp[a]]
          /\ MoveOrphan(a, "tmp", "final")
       \/ /\ engine.got # engine.hash \/ tmp[a] = NoFile
          /\ MoveOrphan(a, "tmp", "none")
          /\ UNCHANGED final
    /\ UNCHANGED <<disk, watcher, queue, targets, crossed, missed, breaks>>

\* What becomes of the handler when its stream breaks: its last chunk may not
\* be written yet.
Orphaned(a) ==
    \E pos \in {0, Len(engine.got)} :
       orphan' = [orphan EXCEPT ![a] = [on |-> TRUE, pos |-> pos, at |-> IF tmp[a] = NoFile THEN "none" ELSE "tmp",
                                        val |-> IF pos = 0 THEN Empty ELSE engine.got[pos]]]

\* A push to an agent that cannot be reached, or that breaks or lasts more
\* than five minutes.  Nothing tries again.
PushBreaks(a) ==
    /\ breaks < MaxBreaks
    /\ \/ /\ engine.pc = "next" /\ a \in engine.todo
          /\ engine' = Remaining(engine.todo \ {a})
          /\ UNCHANGED orphan
       \/ /\ engine.pc \in {"second", "verify"} /\ a \in engine.to /\ ~orphan[a].on
          /\ engine' = PushDone
          /\ Orphaned(a)
    /\ missed' = missed \cup {a}
    /\ breaks' = breaks + 1
    /\ UNCHANGED <<disk, watcher, queue, targets, tmp, final, crossed>>

\* The orphan writes its chunk to the file it has open, which may have
\* another's content, or be in place.
OrphanWrites(a) ==
    /\ orphan[a].on /\ orphan[a].pos > 0
    /\ LET put(f) == IF f = NoFile THEN f ELSE [f EXCEPT ![orphan[a].pos] = orphan[a].val]
       IN /\ tmp' = IF orphan[a].at = "tmp" THEN [tmp EXCEPT ![a] = put(@)] ELSE tmp
          /\ final' = IF orphan[a].at = "final" THEN [final EXCEPT ![a] = put(@)] ELSE final
    /\ orphan' = [orphan EXCEPT ![a].pos = 0, ![a].val = Empty]
    /\ UNCHANGED <<disk, watcher, queue, targets, engine, crossed, missed, breaks>>

\* It ends, and removes what has the temporary name.
OrphanEnds(a) ==
    /\ orphan[a].on /\ orphan[a].pos = 0
    /\ tmp' = [tmp EXCEPT ![a] = NoFile]
    /\ orphan' = [orphan EXCEPT ![a] = NoOrphan]
    /\ UNCHANGED <<disk, watcher, queue, targets, engine, final, crossed, missed, breaks>>

\* The master restarts with the mappings of the database: what was on its way
\* is forgotten, and agents have to register again.
MasterRestart(m) ==
    /\ breaks < MaxBreaks
    /\ breaks' = breaks + 1
    /\ mapping' = m /\ reloading' = FALSE /\ raw' = <<>> /\ pending' = NoEvent
    /\ queue' = <<>> /\ targets' = {} /\ engine' = Idle
    /\ missed' = Agents
    /\ IF engine.to = {} THEN UNCHANGED orphan
       ELSE \A a \in engine.to : ~orphan[a].on /\ Orphaned(a)
    /\ UNCHANGED <<disk, tmp, final, crossed>>

EngineStep ==
    \/ HandleEvent \/ ComputeFileInfo
    \/ \E a \in Agents : PushBegins(a) \/ PushSecond(a) \/ Verify(a)

OrphanStep == \E a \in Agents : OrphanWrites(a) \/ OrphanEnds(a)

Mappings == Listings \cup {NoMapping}

Next ==
    \/ Truncate \/ WritePart \/ Write \/ RemoveSource
    \/ ReloadBegins \/ (\E m \in Mappings : ReloadEnds(m))
    \/ HandleRaw \/ Emit
    \/ (\E a \in Agents : RegisterAgent(a) \/ UnregisterAgent(a) \/ PushBreaks(a))
    \/ EngineStep \/ OrphanStep
    \/ (\E m \in Mappings : MasterRestart(m))

\* The goroutines of the master go on, and timers fire.
Fairness ==
    /\ WF_vars(Write) /\ WF_vars(\E m \in Mappings : ReloadEnds(m))
    /\ WF_vars(HandleRaw) /\ WF_vars(Emit) /\ WF_vars(EngineStep)

Spec == Init /\ [][Next]_vars /\ Fairness

-----------------------------------------------------------------------------
(* Properties.                                                             *)

Pcs == {"idle", "hash", "next", "second", "verify"}
Halves == {NoFile} \cup {<<v>> : v \in 0 .. MaxVersions} \cup Content

TypeOK ==
    /\ src \in {Gone, Empty} \cup Versions /\ ver \in 0 .. MaxVersions
    /\ saving \in {"no", "begun", "half"} /\ reloading \in BOOLEAN
    /\ mapping \in Mappings
    /\ \A i \in DOMAIN raw : raw[i] \in {"change", "remove"}
    /\ pending \in Events \cup {NoEvent}
    /\ \A i \in DOMAIN queue : queue[i] \in Events
    /\ {targets, crossed, missed} \subseteq SUBSET Agents
    /\ engine \in [pc : Pcs, hash : {NoFile} \cup Content, todo : SUBSET Agents,
                   to : SUBSET Agents, got : Halves, fd : {Linked} \cup Versions]
    /\ {tmp, final} \subseteq [Agents -> {NoFile} \cup Content]
    /\ orphan \in [Agents -> [on : BOOLEAN, pos : 0 .. 2, val : 0 .. MaxVersions,
                              at : {"none", "tmp", "final"}]]
    /\ breaks \in 0 .. MaxBreaks

\* The file of an agent is only ever replaced by one version of the source, never
\* by parts of two, and by a later one, or by the rest of one that was pushed while it
\* was being saved; though the hash is computed before the file is read again, and
\* whatever breaks, as long as no push meets a handler that was given up.
NeverTornNorOlder ==
    [][\A a \in Agents \ crossed' : final'[a] # final[a] =>
          /\ final'[a][2] \in {final'[a][1], Empty}
          /\ final[a] # NoFile =>
                \/ final[a][1] < final'[a][1]
                \/ final[a][1] = final'[a][1] /\ final[a][2] = Empty]_vars

\* An agent that no change has passed by (it was registered and on the list,
\* the watch was there, its pushes did not break, the master stayed up)
\* gets to have the content the source ends with, unless that is empty.
Converges ==
    \A a \in Agents :
       <>[](a \notin missed \cup crossed /\ src \in Versions) => <>[](final[a] = <<src, src>>)
=============================================================================
