------------------------------- MODULE MCSync -------------------------------
(* The two parts of the file synchronisation, for one run: a behaviour is  *)
(* of the watcher and its pushes, or of the sync page and its jobs.        *)
EXTENDS FileSync, SyncJobs

VARIABLE part

all == <<vars, jobsVars, part>>

\* The sync page with nothing to do, and the watcher with nothing to do.
PageAtRest == row = NoRow /\ origin = Missing

MCInit ==
    /\ Init /\ JobsInit
    /\ part \in {"watcher", "page"}
    /\ part = "watcher" => PageAtRest

WatcherStep == part = "watcher" /\ Next /\ UNCHANGED <<jobsVars, part>>
PageStep == part = "page" /\ JobsNext /\ UNCHANGED <<vars, part>>

MCNext == WatcherStep \/ PageStep

MCSpec == MCInit /\ [][MCNext]_all /\ Fairness
=============================================================================
