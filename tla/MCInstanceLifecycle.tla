------------------------- MODULE MCInstanceLifecycle -------------------------
(* Worlds for InstanceLifecycle.                                           *)
EXTENDS InstanceLifecycle

\* One request at a time and nothing that fails but docker create; one
\* request at a time, every docker failure and lost calls; replies during
\* creations, with lost calls and agent restarts; and everything at once.
AllWorlds ==
    { [overlap |-> {"create"}, lost |-> FALSE, fails |-> {"create"}, restarts |-> FALSE,
       zip |-> FALSE],
      [overlap |-> {}, lost |-> TRUE, fails |-> {"create", "rm"}, restarts |-> FALSE,
       zip |-> FALSE],
      [overlap |-> {"create"}, lost |-> TRUE, fails |-> {}, restarts |-> TRUE,
       zip |-> TRUE],
      [overlap |-> {"create", "delete", "requests"}, lost |-> TRUE,
       fails |-> {"create", "rm", "copy"}, restarts |-> TRUE, zip |-> TRUE] }

\* Nothing fails, and heartbeats go on while an instance is deleted.
HeartbeatsDuringDeletion ==
    { [overlap |-> {"delete"}, lost |-> FALSE, fails |-> {}, restarts |-> FALSE,
       zip |-> FALSE] }
=============================================================================
