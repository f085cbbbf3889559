------------------------------ MODULE Settings ------------------------------
(***************************************************************************)
(* The settings of an instance and the audit log.  An edit reads the row,  *)
(* changes the fields it was given and writes all of them back; what it    *)
(* changed is then added to the audit log, field by field, from where an   *)
(* administrator can roll it back, which is an edit of the same kind.      *)
(* Control commands are audited once the agent has answered.  Requests     *)
(* interleave between the statements, every statement may fail, and the    *)
(* master may crash between two of them.  The agent takes the settings     *)
(* when it registers the instance and does not look at them again, so that *)
(* side has no state here.                                                 *)
(***************************************************************************)
EXTENDS Integers, Sequences

CONSTANTS
    Audited,    \* settings whose changes are audited
    Unaudited,  \* the others: the name
    Values,     \* values of a setting; 0 is the one of a new instance
    Requests,   \* requests under way at the same time, numbers
    MaxRequests \* bound: requests

Fields == Audited \cup Unaudited

VARIABLES
    exists,   \* the instance has a row
    row,      \* its settings
    audit,    \* the audit log entries of fields
    web,      \* the requests
    requests, \* requests so far
    done,     \* control commands the agent has carried out, by number
    noted,    \* control commands in the audit log
    rolled,   \* history: how often each entry was rolled back
    doubt,    \* history: settings whose last change may be missing in the log
    slipped   \* history: entries that may be rolled back without their mark

settingsVars == <<exists, row, audit, web, requests, done, noted, rolled, doubt, slipped>>
controls == <<done, noted>>
log == <<audit, rolled>>
slips == <<doubt, slipped>>

NoEdit == [pc |-> "idle", snap |-> [f \in Fields |-> 0], change |-> {}, value |-> 0, entry |-> 0, number |-> 0]

SettingsInit ==
    /\ exists = TRUE
    /\ row = [f \in Fields |-> 0]
    /\ audit = <<>>
    /\ web = [h \in Requests |-> NoEdit]
    /\ requests = 0
    /\ done = {} /\ noted = {}
    /\ rolled = <<>> /\ doubt = {} /\ slipped = {}

\* A new request; the row is read with its first statement.
Begin(h, r) ==
    /\ web[h].pc = "idle" /\ \A g \in Requests : g < h => web[g].pc # "idle"
    /\ requests < MaxRequests /\ requests' = requests + 1
    /\ web' = [web EXCEPT ![h] = r]

EditAt(h, pc) == web' = [web EXCEPT ![h].pc = pc]
Finish(h) == web' = [web EXCEPT ![h] = NoEdit]

GetInstance == row

\* The settings an edit changes, for which auditFieldChange adds an entry; a
\* rollback always adds one.
Logged(r) == IF r.entry = 0 THEN {f \in r.change \cap Audited : r.snap[f] # r.value} ELSE r.change

\* The settings that a request has written and that still get their entry.
Pending(r) == IF r.pc \in {"audit", "mark", "note"} THEN Logged(r) ELSE {}

\* The row UpdateInstance writes: every field, from what was read.
Edited(r) == [f \in Fields |-> IF f \in r.change THEN r.value ELSE r.snap[f]]

\* A change gets an entry, and the only question is whether another entry of the
\* same setting is still to come; a value that was read and is written back over
\* another one gets none.
UpdateInstance(h) ==
    /\ row' = IF exists THEN Edited(web[h]) ELSE row
    /\ doubt' = {f \in Audited :
                    IF f \in Logged(web[h])
                    THEN \E g \in Requests \ {h} : f \in Pending(web[g])
                    ELSE f \in doubt \/ row'[f] # row[f]}

\* An entry of the audit log, and the statements that read and write it.  One that
\* cannot be stored is logged and forgotten.
Entry(f, old, new) == [field |-> f, old |-> old, new |-> new, back |-> FALSE]
GetAuditLog(e) == audit[e]
CreateAuditLog(entry) ==
    \/ /\ audit' = Append(audit, entry) /\ rolled' = Append(rolled, 0)
       /\ UNCHANGED doubt
    \/ /\ doubt' = doubt \cup {entry.field}
       /\ UNCHANGED log

-----------------------------------------------------------------------------
(* Edits.                                                                  *)

\* apiUpdateInstance with a value for some of the fields; one that is not
\* valid for its field is refused before anything is written.
apiUpdateInstance(h, F, v) ==
    /\ exists
    /\ Begin(h, [NoEdit EXCEPT !.pc = "update", !.snap = GetInstance, !.change = F, !.value = v])
    /\ UNCHANGED <<exists, row, log, controls, slips>>

EditUpdate(h) ==
    /\ web[h].pc = "update"
    /\ UpdateInstance(h)
    /\ EditAt(h, "audit")
    /\ UNCHANGED <<exists, log, requests, controls, slipped>>

\* The statement of an edit or of a rollback fails, and the request with it.
UpdateFails(h) ==
    /\ web[h].pc \in {"update", "rewrite"}
    /\ Finish(h)
    /\ UNCHANGED <<exists, row, log, requests, controls, slips>>

\* Faulty: the value that was read is taken for the new one.
SwappedEntry(r, f) == Entry(f, r.value, r.snap[f])

\* The entry auditFieldChange adds for a field that has changed.
auditFieldChange(r, f) == Entry(f, r.snap[f], r.value)

\* One field after the other, and then the answer.
AuditEdit(h) ==
    /\ web[h].pc = "audit"
    /\ \/ \E f \in Logged(web[h]) :
             /\ CreateAuditLog(auditFieldChange(web[h], f))
             /\ web' = [web EXCEPT ![h].change = @ \ {f}]
       \/ Logged(web[h]) = {} /\ Finish(h) /\ UNCHANGED <<log, doubt>>
    /\ UNCHANGED <<exists, row, requests, controls, slipped>>

\* apiDeleteInstance deletes the row; the audit log stays.
DeleteInstance ==
    /\ exists /\ exists' = FALSE
    /\ requests < MaxRequests /\ requests' = requests + 1
    /\ UNCHANGED <<row, log, web, controls, slips>>

-----------------------------------------------------------------------------
(* Rollbacks.                                                              *)

\* The entry is not marked; another request may be about to mark it.
apiRollbackAuditLog(h, e) ==
    /\ ~GetAuditLog(e).back /\ exists
    /\ Begin(h, [NoEdit EXCEPT !.pc = "rewrite", !.snap = GetInstance, !.entry = e,
                             !.change = {GetAuditLog(e).field}, !.value = GetAuditLog(e).old])
    /\ slipped' = slipped \cup {e : g \in {x \in Requests : web[x].pc \in {"rewrite", "mark"} /\ web[x].entry = e}}
    /\ UNCHANGED <<exists, row, log, controls, doubt>>

RollbackUpdate(h) ==
    /\ web[h].pc = "rewrite"
    /\ UpdateInstance(h)
    /\ rolled' = [rolled EXCEPT ![web[h].entry] = @ + 1]
    /\ EditAt(h, "mark")
    /\ UNCHANGED <<exists, audit, requests, controls, slipped>>

MarkAuditLogRolledBack(entry) == [entry EXCEPT !.back = TRUE]

\* A mark that cannot be stored is logged, and the rollback goes on.
RollbackMark(h) ==
    /\ web[h].pc = "mark"
    /\ \/ /\ audit' = [audit EXCEPT ![web[h].entry] = MarkAuditLogRolledBack(@)]
          /\ UNCHANGED slipped
       \/ slipped' = slipped \cup {web[h].entry} /\ UNCHANGED audit
    /\ EditAt(h, "note")
    /\ UNCHANGED <<exists, row, requests, controls, rolled, doubt>>

\* The rollback is an entry of its own, from the new value of the entry that
\* is rolled back, whatever the value was by now, to its old one.
RollbackAudit(h) ==
    LET e == audit[web[h].entry] IN
    /\ web[h].pc = "note"
    /\ CreateAuditLog(Entry(e.field, e.new, e.old))
    /\ Finish(h)
    /\ UNCHANGED <<exists, row, requests, controls, slipped>>

-----------------------------------------------------------------------------
(* Control commands.                                                       *)

\* The owner of the instance is known and its agent is online.
apiControlInstance(h) ==
    /\ Begin(h, [NoEdit EXCEPT !.pc = "control", !.number = requests + 1])
    /\ UNCHANGED <<exists, row, log, controls, slips>>

\* The agent carries the command out, or cannot.
ControlInstance(h) ==
    /\ web[h].pc = "control"
    /\ \/ done' = done \cup {web[h].number} /\ EditAt(h, "answer")
       \/ done' = done /\ EditAt(h, "refused")
    /\ UNCHANGED <<exists, row, log, requests, noted, slips>>

\* The entry of the command may fail as any other.
ControlAnswered(h) ==
    /\ \/ web[h].pc = "answer" /\ noted' = noted \cup {web[h].number}
       \/ web[h].pc \in {"answer", "refused"} /\ UNCHANGED noted
    /\ Finish(h)
    /\ UNCHANGED <<exists, row, log, requests, done, slips>>

\* The answer does not come in time; the command may have been carried out.
ControlTimeout(h) ==
    /\ web[h].pc \in {"control", "answer"}
    /\ Finish(h)
    /\ UNCHANGED <<exists, row, log, requests, controls, slips>>

-----------------------------------------------------------------------------
\* The master crashes and starts again: the requests are gone, with the marks and
\* entries they had still to write.
Crash ==
    /\ \E h \in Requests : web[h].pc # "idle"
    /\ web' = [h \in Requests |-> NoEdit]
    /\ doubt' = doubt \cup UNION {Pending(web[h]) : h \in Requests}
    /\ slipped' = slipped \cup {web[h].entry : h \in {g \in Requests : web[g].pc = "mark"}}
    /\ UNCHANGED <<exists, row, log, requests, controls>>

SettingsNext ==
    \/ DeleteInstance \/ Crash
    \/ \E h \in Requests :
          \/ EditUpdate(h) \/ UpdateFails(h) \/ AuditEdit(h)
          \/ RollbackUpdate(h) \/ RollbackMark(h) \/ RollbackAudit(h)
          \/ apiControlInstance(h) \/ ControlInstance(h) \/ ControlAnswered(h) \/ ControlTimeout(h)
          \/ \E F \in SUBSET Fields, v \in Values : apiUpdateInstance(h, F, v)
          \/ \E e \in DOMAIN audit : apiRollbackAuditLog(h, e)

SettingsSpec == SettingsInit /\ [][SettingsNext]_settingsVars

-----------------------------------------------------------------------------
(* Properties.                                                             *)

SettingsTypeOK ==
    /\ row \in [Fields -> Values] /\ exists \in BOOLEAN
    /\ \A e \in DOMAIN audit : audit[e] \in [field : Audited, old : Values, new : Values, back : BOOLEAN]
    /\ Len(rolled) = Len(audit)

\* The audit log says that the value of a setting is v: by its last entry, or
\* because there is none.
Tells(f, v) ==
    \/ v = 0 /\ \A e \in DOMAIN audit : audit[e].field # f
    \/ \E e \in DOMAIN audit :
          /\ audit[e].field = f /\ audit[e].new = v
          /\ \A d \in DOMAIN audit : d > e => audit[d].field # f

\* The audit log tells the value of every audited setting, edits and rollbacks in
\* any order, overlaps, failures and crashes included, with three exceptions, which
\* last until the setting is changed again: a request wrote back an older value it
\* had read, the entry of its last change was not stored, or it was changed twice
\* before the first change had its entry.  A control command in the log was carried
\* out.  An entry is rolled back once, unless its mark was not stored or a second
\* rollback began before it was.
AuditTellsTruth ==
    /\ exists => \A f \in Audited \ doubt :
                    (\A h \in Requests : f \notin Pending(web[h])) => Tells(f, row[f])
    /\ noted \subseteq done
    /\ \A e \in DOMAIN rolled \ slipped : rolled[e] <= 1
=============================================================================
