-------------------------- MODULE RuntimeSettings ---------------------------
(***************************************************************************)
(* application/services/runtime_settings_service.py with the table of       *)
(* infrastructure/persistence/runtime_settings_models.py and the settings   *)
(* routes: numbered revisions, of which one is active.  A request reads the *)
(* active row FOR UPDATE and writes at its commit; two requests overlap in  *)
(* between.  What READ COMMITTED does to the reader that had to wait is     *)
(* part of the model: it sees the row it waited for no longer match, and    *)
(* finds no active revision at all.  Step-up is recent, values are valid.   *)
(***************************************************************************)
EXTENDS Naturals

CONSTANTS MaxRevisions,    \* bound on the rows
          Editors,         \* requests under way at once
          NoEditor

ASSUME SettingsAssumption == MaxRevisions \in Nat /\ NoEditor \notin Editors

VARIABLES rows,      \* rows[n]: the revision numbered n
          locked,    \* who holds the lock of the active row
          edit       \* edit[e]: the request's step and what it has read

settingsVars == <<rows, locked, edit>>

Revisions == 1 .. MaxRevisions
Unused == [state |-> "unused", base |-> 0]
Rest == [pc |-> "idle", op |-> "none", expected |-> 0, target |-> 0, active |-> 0]

SettingsInit == /\ rows = [n \in Revisions |-> Unused]
                /\ locked = NoEditor
                /\ edit = [e \in Editors |-> Rest]

ActiveRows == {n \in Revisions : rows[n].state = "active"}
\* Revision 0 stands for the built-in defaults while no row is active.
Active == IF ActiveRows = {} THEN 0 ELSE CHOOSE n \in ActiveRows : TRUE
Used == {n \in Revisions : rows[n].state # "unused"}
Maximum == IF Used = {} THEN 0 ELSE CHOOSE n \in Used : \A k \in Used : k <= n

\* A request arrives: op, the revision its sender takes to be active, and the
\* draft or the revision it names.
Ask(e, op, expected, target) ==
  /\ edit[e].pc = "idle"
  /\ expected <= Maximum /\ target \in IF op = "draft" THEN {0} ELSE Used
  /\ edit' = [edit EXCEPT ![e] = [pc |-> "asked", op |-> op, expected |-> expected,
                                  target |-> target, active |-> 0]]
  /\ UNCHANGED <<rows, locked>>

create_runtime_settings_draft(e, expected) == Ask(e, "draft", expected, 0)
activate_runtime_settings_draft(e, expected, draft) == Ask(e, "activate", expected, draft)
rollback_runtime_settings(e, expected, revision) == Ask(e, "rollback", expected, revision)

\* active(for_update=True) takes the lock, waits for it, or finds no row.
ReadActive(e) ==
  /\ edit[e].pc = "asked"
  /\ IF Active = 0
     THEN edit' = [edit EXCEPT ![e].pc = "read"] /\ UNCHANGED locked
     ELSE IF locked = NoEditor
     THEN locked' = e /\ edit' = [edit EXCEPT ![e].pc = "read", ![e].active = Active]
     ELSE edit' = [edit EXCEPT ![e].pc = "waiting", ![e].active = Active] /\ UNCHANGED locked
  /\ UNCHANGED rows

\* The holder is gone: the row is still active, or the reader has nothing.
Wake(e) ==
  /\ edit[e].pc = "waiting" /\ locked = NoEditor
  /\ IF rows[edit[e].active].state = "active"
     THEN locked' = e /\ edit' = [edit EXCEPT ![e].pc = "read"]
     ELSE edit' = [edit EXCEPT ![e].pc = "read", ![e].active = 0] /\ UNCHANGED locked
  /\ UNCHANGED rows

Finished(e) == /\ edit' = [edit EXCEPT ![e] = Rest]
               /\ locked' = IF locked = e THEN NoEditor ELSE locked

\* A conflict, a failed preflight, an integrity error: all is rolled back.
Reject(e) == edit[e].pc = "read" /\ Finished(e) /\ UNCHANGED rows

ActiveTaken_NoIndex(old) == FALSE

\* Another revision is active: the partial unique index refuses a second one.
ActiveTaken(old) == Active \notin {0, old}

CreateDraft(e) ==
  LET r == edit[e] IN
  /\ r.pc = "read" /\ r.op = "draft" /\ r.expected = r.active
  /\ Maximum < MaxRevisions
  /\ rows' = [rows EXCEPT ![Maximum + 1] = [state |-> "draft", base |-> r.expected]]
  /\ Finished(e)

Supersede(old) == IF old = 0 THEN rows ELSE [rows EXCEPT ![old].state = "superseded"]

Activate(e) ==
  LET r == edit[e] IN
  /\ r.pc = "read" /\ r.op = "activate" /\ r.expected = r.active
  /\ rows[r.target].state = "draft" /\ rows[r.target].base = r.active
  /\ ~ActiveTaken(r.active)
  /\ rows' = [Supersede(r.active) EXCEPT ![r.target].state = "active"]
  /\ Finished(e)

\* The restored values become a revision of their own; the defaults cannot be
\* rolled back from.
Rollback(e) ==
  LET r == edit[e] IN
  /\ r.pc = "read" /\ r.op = "rollback" /\ r.expected = r.active
  /\ rows[r.target].state = "superseded" /\ r.active # 0
  /\ Maximum < MaxRevisions /\ ~ActiveTaken(r.active)
  /\ rows' = [Supersede(r.active) EXCEPT ![Maximum + 1] = [state |-> "active", base |-> r.active]]
  /\ Finished(e)

SettingsNext ==
  \E e \in Editors :
    \/ \E x \in 0 .. MaxRevisions :
         \/ create_runtime_settings_draft(e, x)
         \/ \E n \in Revisions : \/ activate_runtime_settings_draft(e, x, n)
                                \/ rollback_runtime_settings(e, x, n)
    \/ ReadActive(e) \/ Wake(e) \/ Reject(e)
    \/ CreateDraft(e) \/ Activate(e) \/ Rollback(e)

SettingsSpec == SettingsInit /\ [][SettingsNext]_settingsVars

-----------------------------------------------------------------------------
\* No change of the settings is lost: whatever becomes active was written
\* against exactly the revision it replaces, also when two administrators
\* activate or roll back at once, the first time included.
NoLostUpdate ==
  [][Active' # Active => rows'[Active'].base = Active]_settingsVars
=============================================================================
