----------------------- MODULE InstanceLifecycleProofs -----------------------
(***************************************************************************)
(* The safety properties of InstanceLifecycle in every world, and with any *)
(* number of heartbeat replies waiting.                                    *)
(***************************************************************************)
EXTENDS InstanceLifecycle, TLAPS

USE WorldsAssumption, MaxRepliesAssumption DEF master, docker, maps, calls, syncing

\* No heartbeat reply comes during a deletion, and no deletion during a creation.
Lone == world.overlap \subseteq {"create"}

\* ... and deletions reach the agent and do there what they should.
Smooth == Lone /\ ~world.lost /\ "rm" \notin world.fails /\ ~world.restarts

\* Nothing leaves a part of the server's file behind, or is there to see it.
Orderly == world.overlap = {} /\ "copy" \notin world.fails /\ ~world.restarts

\* Who is at work: a deletion has the instance for itself, and creations and
\* synchronisations find the row.
Separate ==
    /\ Lone => (Deleting => ~Creating /\ ~Syncing)
    /\ Lone => (Creating \/ Syncing => row)
    /\ world.overlap = {} => ~(Creating /\ Syncing)

\* What the two ways to register an instance have established at each line:
\* the container before the entry, and the definition right after it.
Whole ==
    Lone =>
    /\ crpc \in {"add", "def"} => container
    /\ sync \in {"add", "def", "start"} => container
    /\ entry => container \/ drpc = "forget"
    /\ entry => def # "none" \/ crpc = "def" \/ sync = "def"

\* What a deletion has undone at each line.
Undone ==
    Smooth =>
    /\ container => entry \/ crpc = "add" \/ sync = "add"
    /\ drpc \in {"forget", "data"} => ~container
    /\ drpc = "data" => ~entry
    /\ dreq = "wait" <=> drpc # "idle"
    /\ dreq = "row" => ~entry /\ ~container
    /\ ~row => ~entry /\ ~container

\* Where the upload is, and what is in the work directory then.
Placed ==
    /\ creq = "start" => urpc = "idle"
    /\ Lone => (urpc = "copy" => data = "partial")
    /\ Lone => (urpc = "detect" \/ creq = "start" => data = "jar")
    /\ Orderly => (data = "partial" => urpc = "copy")

Inv == Separate /\ Whole /\ Undone /\ Placed

-----------------------------------------------------------------------------
\* Every step keeps the types; only what exists runs.
LEMMA TypeStep ==
    ASSUME TypeOK, [Next]_vars PROVE TypeOK'
<1> DEFINE Flags == /\ row \in BOOLEAN /\ container \in BOOLEAN /\ up \in BOOLEAN
                    /\ entry \in BOOLEAN /\ wipe \in BOOLEAN
<1> USE DEF TypeOK
<1>1. ASSUME CreateRow PROVE TypeOK'
  BY <1>1 DEF CreateRow, InsertInstance
<1>2. ASSUME CreateTimeout PROVE TypeOK'
  BY <1>2 DEF CreateTimeout
<1>3. ASSUME CreateCall PROVE TypeOK'
  BY <1>3 DEF CreateCall, CreateInstance
<1>4. ASSUME streamUploadServerData PROVE TypeOK'
  BY <1>4 DEF streamUploadServerData
<1>5. ASSUME StartAfterUpload PROVE TypeOK'
  BY <1>5 DEF StartAfterUpload
<1>6. ASSUME CreateLookup PROVE TypeOK'
  BY <1>6 DEF CreateLookup, Answer
<1>7. ASSUME CreateEnsure PROVE TypeOK'
  BY <1>7 DEF CreateEnsure, ContainerExists
<1>8. ASSUME CreateMake PROVE TypeOK'
  <2>1. Flags'
    BY <1>8, Zenon DEF CreateMake, DockerCreate, DockerCreateFails, Answer
  <2> QED
    BY <1>8, <2>1 DEF CreateMake, DockerCreate, DockerCreateFails, Answer
<1>9. ASSUME CreateAdd PROVE TypeOK'
  BY <1>9 DEF CreateAdd, Answer
<1>10. ASSUME CreateDef PROVE TypeOK'
  BY <1>10 DEF CreateDef, Answer
<1>11. ASSUME UploadServerData PROVE TypeOK'
  BY <1>11 DEF UploadServerData, UploadAnswer
<1>12. ASSUME UploadFails PROVE TypeOK'
  BY <1>12 DEF UploadFails, UploadAnswer
<1>13. ASSUME CopyJar PROVE TypeOK'
  BY <1>13 DEF CopyJar, UploadAnswer
<1>14. ASSUME extractServerZip PROVE TypeOK'
  BY <1>14 DEF extractServerZip
<1>15. ASSUME DetectJar PROVE TypeOK'
  BY <1>15 DEF DetectJar, UploadAnswer
<1>16. ASSUME DeleteRequest PROVE TypeOK'
  BY <1>16 DEF DeleteRequest
<1>17. ASSUME DeleteTimeout PROVE TypeOK'
  BY <1>17 DEF DeleteTimeout
<1>18. ASSUME DeleteCall PROVE TypeOK'
  <2>1. wipe' \in BOOLEAN
    <3>1. CASE DeleteInstance
      <4>1. wipe' = FALSE \/ wipe' = (def # "none")
        BY <3>1, Zenon DEF DeleteInstance
      <4> QED
        BY <4>1, Zenon
    <3>2. CASE UNCHANGED wipe
      BY <3>2, Zenon
    <3> QED
      BY <1>18, <3>1, <3>2 DEF DeleteCall
  <2>2. drpc' = "stop" \/ drpc' = drpc
    BY <1>18 DEF DeleteCall, DeleteInstance
  <2> QED
    BY <1>18, <2>1, <2>2 DEF DeleteCall
<1>19. ASSUME DeleteRow PROVE TypeOK'
  <2>1. Flags'
    BY <1>19, Zenon DEF DeleteRow
  <2> QED
    BY <1>19, <2>1 DEF DeleteRow
<1>20. ASSUME RemoveStop PROVE TypeOK'
  <2>1. Flags'
    BY <1>20, Zenon DEF RemoveStop
  <2> QED
    BY <1>20, <2>1 DEF RemoveStop
<1>21. ASSUME RemoveContainer PROVE TypeOK'
  <2>1. Flags'
    BY <1>21, Zenon DEF RemoveContainer, DockerRemove, ContainerExists
  <2> QED
    BY <1>21, <2>1 DEF RemoveContainer, DockerRemove, ContainerExists
<1>22. ASSUME RemoveEntry PROVE TypeOK'
  <2>1. Flags'
    BY <1>22, Zenon DEF RemoveEntry
  <2> QED
    BY <1>22, <2>1 DEF RemoveEntry
<1>23. ASSUME RemoveData PROVE TypeOK'
  BY <1>23 DEF RemoveData
<1>24. ASSUME Reply PROVE TypeOK'
  BY <1>24 DEF Reply
<1>25. ASSUME SyncBegin PROVE TypeOK'
  BY <1>25 DEF SyncBegin
<1>26. ASSUME SyncLookup PROVE TypeOK'
  BY <1>26 DEF SyncLookup
<1>27. ASSUME SyncEnsure PROVE TypeOK'
  BY <1>27 DEF SyncEnsure, ContainerExists
<1>28. ASSUME SyncMake PROVE TypeOK'
  <2>1. Flags'
    BY <1>28, Zenon DEF SyncMake, DockerCreate, DockerCreateFails
  <2> QED
    BY <1>28, <2>1 DEF SyncMake, DockerCreate, DockerCreateFails
<1>29. ASSUME SyncAdd PROVE TypeOK'
  BY <1>29 DEF SyncAdd
<1>30. ASSUME SyncDef PROVE TypeOK'
  BY <1>30 DEF SyncDef
<1>31. ASSUME SyncStart PROVE TypeOK'
  BY <1>31 DEF SyncStart, HasJar
<1>32. ASSUME AgentRestart PROVE TypeOK'
  <2>1. Flags'
    BY <1>32, Zenon DEF AgentRestart
  <2> QED
    BY <1>32, <2>1 DEF AgentRestart
<1>33. ASSUME UNCHANGED vars PROVE TypeOK'
  BY <1>33 DEF vars
<1> QED
  BY <1>1, <1>2, <1>3, <1>4, <1>5, <1>6, <1>7, <1>8, <1>9, <1>10, <1>11,
     <1>12, <1>13, <1>14, <1>15, <1>16, <1>17, <1>18, <1>19, <1>20, <1>21,
     <1>22, <1>23, <1>24, <1>25, <1>26, <1>27, <1>28, <1>29, <1>30, <1>31,
     <1>32, <1>33 DEF Next, CreateStep, CreateRpcStep, UploadStep, DeleteStep,
     RemoveStep, SyncStep

\* The state stays in range, and no container runs that does not exist.
THEOREM TypeCorrect == Spec => []TypeOK
<1>1. Init => TypeOK
  <2> SUFFICES ASSUME Init PROVE TypeOK
    OBVIOUS
  <2>1. /\ row \in BOOLEAN /\ container \in BOOLEAN /\ up \in BOOLEAN
        /\ entry \in BOOLEAN /\ wipe \in BOOLEAN
    BY Zenon DEF Init
  <2> QED
    BY <2>1 DEF Init, TypeOK
<1> QED
  BY <1>1, TypeStep, PTL DEF Spec

\* Every step keeps the invariant, in every world.
LEMMA InvStep ==
    ASSUME TypeOK, Inv, [Next]_vars PROVE Inv'
<1> USE DEF TypeOK, Inv, Lone, Smooth, Orderly, Separate, Whole, Undone, Placed,
            Creating, Deleting, Syncing
<1>1. ASSUME CreateRow PROVE Inv'
  BY <1>1 DEF CreateRow, InsertInstance
<1>2. ASSUME CreateTimeout PROVE Inv'
  BY <1>2 DEF CreateTimeout
<1>3. ASSUME CreateCall PROVE Inv'
  BY <1>3 DEF CreateCall, CreateInstance
<1>4. ASSUME streamUploadServerData PROVE Inv'
  BY <1>4 DEF streamUploadServerData
<1>5. ASSUME StartAfterUpload PROVE Inv'
  BY <1>5 DEF StartAfterUpload
<1>6. ASSUME CreateLookup PROVE Inv'
  BY <1>6 DEF CreateLookup, Answer
<1>7. ASSUME CreateEnsure PROVE Inv'
  BY <1>7 DEF CreateEnsure, ContainerExists
<1>8. ASSUME CreateMake PROVE Inv'
  BY <1>8 DEF CreateMake, DockerCreate, DockerCreateFails, Answer
<1>9. ASSUME CreateAdd PROVE Inv'
  BY <1>9 DEF CreateAdd, Answer
<1>10. ASSUME CreateDef PROVE Inv'
  BY <1>10 DEF CreateDef, Answer
<1>11. ASSUME UploadServerData PROVE Inv'
  BY <1>11 DEF UploadServerData, UploadAnswer
<1>12. ASSUME UploadFails PROVE Inv'
  BY <1>12 DEF UploadFails, UploadAnswer
<1>13. ASSUME CopyJar PROVE Inv'
  BY <1>13 DEF CopyJar, UploadAnswer
<1>14. ASSUME extractServerZip PROVE Inv'
  BY <1>14 DEF extractServerZip
<1>15. ASSUME DetectJar PROVE Inv'
  BY <1>15 DEF DetectJar, UploadAnswer
<1>16. ASSUME DeleteRequest PROVE Inv'
  BY <1>16 DEF DeleteRequest
<1>17. ASSUME DeleteTimeout PROVE Inv'
  BY <1>17 DEF DeleteTimeout
<1>18. ASSUME DeleteCall PROVE Inv'
  BY <1>18 DEF DeleteCall, DeleteInstance
<1>19. ASSUME DeleteRow PROVE Inv'
  BY <1>19 DEF DeleteRow
<1>20. ASSUME RemoveStop PROVE Inv'
  BY <1>20 DEF RemoveStop
<1>21. ASSUME RemoveContainer PROVE Inv'
  BY <1>21 DEF RemoveContainer, DockerRemove, ContainerExists
<1>22. ASSUME RemoveEntry PROVE Inv'
  BY <1>22 DEF RemoveEntry
<1>23. ASSUME RemoveData PROVE Inv'
  BY <1>23 DEF RemoveData
<1>24. ASSUME Reply PROVE Inv'
  BY <1>24 DEF Reply
<1>25. ASSUME SyncBegin PROVE Inv'
  BY <1>25 DEF SyncBegin
<1>26. ASSUME SyncLookup PROVE Inv'
  BY <1>26 DEF SyncLookup
<1>27. ASSUME SyncEnsure PROVE Inv'
  BY <1>27 DEF SyncEnsure, ContainerExists
<1>28. ASSUME SyncMake PROVE Inv'
  BY <1>28 DEF SyncMake, DockerCreate, DockerCreateFails
<1>29. ASSUME SyncAdd PROVE Inv'
  BY <1>29 DEF SyncAdd
<1>30. ASSUME SyncDef PROVE Inv'
  BY <1>30 DEF SyncDef
<1>31. ASSUME SyncStart PROVE Inv'
  BY <1>31 DEF SyncStart, HasJar
<1>32. ASSUME AgentRestart PROVE Inv'
  BY <1>32 DEF AgentRestart
<1>33. ASSUME UNCHANGED vars PROVE Inv'
  BY <1>33 DEF vars
<1> QED
  BY <1>1, <1>2, <1>3, <1>4, <1>5, <1>6, <1>7, <1>8, <1>9, <1>10, <1>11,
     <1>12, <1>13, <1>14, <1>15, <1>16, <1>17, <1>18, <1>19, <1>20, <1>21,
     <1>22, <1>23, <1>24, <1>25, <1>26, <1>27, <1>28, <1>29, <1>30, <1>31,
     <1>32, <1>33 DEF Next, CreateStep, CreateRpcStep, UploadStep, DeleteStep,
     RemoveStep, SyncStep

\* Inv holds in every reachable state.
THEOREM Invariance == Spec => []Inv
<1>1. Init => Inv
  BY DEF Init, Inv, Lone, Smooth, Orderly, Separate, Whole, Undone, Placed,
         Creating, Deleting, Syncing
<1> QED
  BY <1>1, InvStep, TypeCorrect, PTL DEF Spec

\* Whatever fails, gets lost or restarts, and however replies and creations
\* race: what the agent reports when nothing is under way has its container
\* and its definition, as long as deletions have the instance for themselves.
THEOREM EntriesAreWhole == Spec => []EntryIsWhole
<1>1. TypeOK /\ Inv => EntryIsWhole
  BY DEF TypeOK, Inv, Whole, Lone, EntryIsWhole, Quiet, Creating, Deleting, Syncing
<1> QED
  BY <1>1, TypeCorrect, Invariance, PTL

\* A deletion that nothing overlaps, that reaches the agent and whose docker rm
\* works leaves neither entry nor container, whichever of the creation call and
\* the replies has made them.
THEOREM LoneDeletions == Spec => []LoneDeletionIsComplete
<1>1. TypeOK /\ Inv => LoneDeletionIsComplete
  BY DEF TypeOK, Inv, Undone, Smooth, Lone, LoneDeletionIsComplete, DeletedIsGone
<1> QED
  BY <1>1, TypeCorrect, Invariance, PTL

\* A server is started in two places, after the upload and by syncInstances,
\* and in both only with its file in place, which is whole unless a part of one
\* was left behind or a reply came during the upload.
THEOREM StartsHaveJar == Spec => StartsWithJar
<1> DEFINE Start == ~up /\ up' /\ Lone => data \in {"partial", "jar"} /\ (Orderly => data = "jar")
<1>1. ASSUME TypeOK, Inv, [Next]_vars PROVE Start
  <2> USE DEF TypeOK, Inv, Lone, Orderly, Separate, Placed, Creating, Deleting, Syncing
  <2>1. ASSUME StartAfterUpload PROVE Start
    BY <1>1, <2>1 DEF StartAfterUpload
  <2>2. ASSUME SyncStart PROVE Start
    BY <1>1, <2>2 DEF SyncStart, HasJar
  <2>3. ASSUME ~StartAfterUpload, ~SyncStart PROVE up' => up
    <3>1. CASE UNCHANGED up
      BY <3>1
    <3>2. CASE RemoveStop \/ RemoveContainer
      BY <3>2 DEF RemoveStop, RemoveContainer, DockerRemove
    <3>3. UNCHANGED up \/ RemoveStop \/ RemoveContainer
      BY <1>1, <2>3 DEF Next, vars, CreateStep, CreateRpcStep, UploadStep, DeleteStep, RemoveStep,
         SyncStep, CreateRow, CreateTimeout, CreateCall, streamUploadServerData, CreateLookup,
         CreateEnsure, CreateMake, CreateAdd, CreateDef, UploadServerData, UploadFails, CopyJar,
         extractServerZip, DetectJar, DeleteRequest, DeleteTimeout, DeleteCall, DeleteRow,
         RemoveEntry, RemoveData, Reply, SyncBegin, SyncLookup, SyncEnsure, SyncMake, SyncAdd,
         SyncDef, AgentRestart
    <3> QED
      BY <3>1, <3>2, <3>3
  <2> QED
    BY <2>1, <2>2, <2>3
<1>2. [Next]_vars /\ TypeOK /\ Inv
      => [~up /\ up' /\ world.overlap \subseteq {"create"} =>
            /\ data \in {"partial", "jar"}
            /\ world.overlap = {} /\ "copy" \notin world.fails /\ ~world.restarts
               => data = "jar"]_vars
  BY <1>1 DEF Lone, Orderly
<1> QED
  BY <1>2, TypeCorrect, Invariance, PTL DEF Spec, StartsWithJar
=============================================================================
