------------------------ MODULE IdempotentCommands --------------------------
(***************************************************************************)
(* application/services/idempotency_service.py and the way the management   *)
(* routes use it (_reserve, the command, complete, and one commit), for one *)
(* actor, operation and key.  The unique index makes a second request wait  *)
(* for the first to commit or to roll back; answers may be lost, and the    *)
(* client sends the same request again.  What the command does is the       *)
(* payload it was given.  Most commands write in the session of the request;*)
(* those of the git connector write through sessions of their own.          *)
(***************************************************************************)
EXTENDS Naturals, Sequences

CONSTANTS Submissions,     \* requests under way at once
          Payloads,        \* request bodies sent with the key
          NoPayload

VARIABLES record,      \* the committed row
          applied,     \* the payloads applied since the row was reserved
          pending,     \* submissions holding the row, inserted or locked
          submit,      \* submit[r]: the request's step, payload and answer
          outside      \* the command writes through a session of its own

commandVars == <<record, applied, pending, submit, outside>>

NoRecord == [status |-> "absent", hash |-> NoPayload, expired |-> FALSE]
NotSent == [pc |-> "idle", payload |-> NoPayload]

CommandInit == /\ record = NoRecord /\ applied = <<>> /\ pending = {}
               /\ submit = [r \in Submissions |-> NotSent]
               /\ outside \in BOOLEAN

Submit(r, p) == /\ submit[r].pc \in {"idle", "done", "refused"}
                /\ submit' = [submit EXCEPT ![r] = [pc |-> "sent", payload |-> p]]
                /\ UNCHANGED <<record, applied, pending, outside>>

\* reserve: the insert succeeds, or the row is read under its lock.  Either
\* waits for a transaction that holds the row.
Fresh == record.status = "absent" \/ record.expired

Reserves_AnyBody(r) == Fresh \/ record.hash # submit[r].payload

\* Does the request get the row for itself?
Reserves(r) == Fresh

Reserve(r) ==
  /\ submit[r].pc = "sent" /\ pending = {} /\ Reserves(r)
  /\ pending' = {r}
  /\ submit' = [submit EXCEPT ![r].pc = "reserved"]
  /\ UNCHANGED <<record, applied, outside>>

\* REPLAY, or a conflict: another body, or a reservation without an answer.
Replay(r) ==
  /\ submit[r].pc = "sent" /\ pending = {} /\ ~Reserves(r)
  /\ submit' = [submit EXCEPT ![r].pc =
       IF record.hash = submit[r].payload /\ record.status = "completed" THEN "done" ELSE "refused"]
  /\ UNCHANGED <<record, applied, pending, outside>>

Applied(r) == Append(IF record.expired THEN <<>> ELSE applied, submit[r].payload)

\* The command, complete and the commit of the request's session: all or
\* nothing; an expired row is reused and what it stood for is forgotten.
Commit(r) ==
  /\ submit[r].pc = IF outside THEN "applied" ELSE "reserved"
  /\ record' = [status |-> "completed", hash |-> submit[r].payload, expired |-> FALSE]
  /\ applied' = IF outside THEN applied ELSE Applied(r)
  /\ pending' = {}
  /\ submit' = [submit EXCEPT ![r].pc = "done"]
  /\ UNCHANGED outside

\* What a connector command does is committed before its record is; the number
\* of times is bounded here by two.
CommitOutside(r) ==
  /\ outside /\ submit[r].pc = "reserved" /\ Len(applied) < 2
  /\ applied' = Applied(r)
  /\ submit' = [submit EXCEPT ![r].pc = "applied"]
  /\ UNCHANGED <<record, pending, outside>>

\* The command raises, or the process stops: the session is rolled back.
RollBack(r) ==
  /\ submit[r].pc \in {"reserved", "applied"}
  /\ pending' = {}
  /\ submit' = [submit EXCEPT ![r].pc = "refused"]
  /\ UNCHANGED <<record, applied, outside>>

\* The retention of 24 hours is over; no answer of that time is still out.
RecordExpires ==
  /\ record.status = "completed" /\ ~record.expired /\ pending = {}
  /\ record' = [record EXCEPT !.expired = TRUE]
  /\ submit' = [r \in Submissions |-> IF submit[r].pc = "done" THEN NotSent ELSE submit[r]]
  /\ UNCHANGED <<applied, pending, outside>>

CommandNext ==
  \/ \E r \in Submissions : \/ \E p \in Payloads : Submit(r, p)
                            \/ Reserve(r) \/ Replay(r) \/ Commit(r)
                            \/ CommitOutside(r) \/ RollBack(r)
  \/ RecordExpires

CommandSpec == CommandInit /\ [][CommandNext]_commandVars

-----------------------------------------------------------------------------
\* Who is told that the command is done had exactly this request applied, and
\* a command of the request's session is applied once however often it is sent,
\* lost, refused and sent again, as long as its record is kept.
AppliedOnce ==
  /\ \A r \in Submissions : submit[r].pc = "done" =>
       \E i \in 1 .. Len(applied) : applied[i] = submit[r].payload
  /\ ~outside => Len(applied) <= 1
=============================================================================
