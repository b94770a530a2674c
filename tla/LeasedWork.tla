----------------------------- MODULE LeasedWork -----------------------------
(***************************************************************************)
(* What a leased work queue promises to the rest of the gateway, with the  *)
(* leases, attempts, retries and cancellation left out.  A task is granted *)
(* to one actor at a time under a fencing token; a later grant supersedes  *)
(* every earlier one; only the actor that holds the newest grant may        *)
(* declare the task done, and done is for ever.                             *)
(*                                                                         *)
(* JobQueue (ingestion_jobs) and JobOutbox (job_outbox) are both checked   *)
(* against this specification.                                             *)
(***************************************************************************)
EXTENDS Naturals

CONSTANTS Tasks,    \* rows of the queue table
          Actors,   \* worker processes
          NoTask    \* an actor that holds nothing

VARIABLES status,   \* status[t]: "none", "open", "done" or "dead"
          holder,   \* holder[t]: the token that may write t, 0 when nobody may
          last,     \* last[t]: the newest token ever granted for t
          grant     \* grant[a]: the task and token actor a believes it holds

vars == <<status, holder, last, grant>>

NoGrant == [task |-> NoTask, token |-> 0]

Init == /\ status = [t \in Tasks |-> "none"]
        /\ holder = [t \in Tasks |-> 0]
        /\ last = [t \in Tasks |-> 0]
        /\ grant = [a \in Actors |-> NoGrant]

Holds(a, t) == /\ grant[a].task = t
               /\ holder[t] # 0
               /\ grant[a].token = holder[t]

\* A task enters the queue.
Submit(t) == /\ status[t] = "none"
             /\ status' = [status EXCEPT ![t] = "open"]
             /\ UNCHANGED <<holder, last, grant>>

\* An open task is granted to an idle actor; whoever held it before no longer does.
Grant(a, t) == /\ status[t] = "open"
               /\ grant[a] = NoGrant
               /\ last' = [last EXCEPT ![t] = @ + 1]
               /\ holder' = [holder EXCEPT ![t] = last[t] + 1]
               /\ grant' = [grant EXCEPT ![a] = [task |-> t, token |-> last[t] + 1]]
               /\ UNCHANGED status

\* The holder declares the task done.
Finish(a, t) == /\ Holds(a, t)
                /\ status[t] = "open"
                /\ status' = [status EXCEPT ![t] = "done"]
                /\ holder' = [holder EXCEPT ![t] = 0]
                /\ grant' = [grant EXCEPT ![a] = NoGrant]
                /\ UNCHANGED last

\* The holder hands the task back, to be granted again or given up.
Yield(a, t) == /\ Holds(a, t)
               /\ status[t] = "open"
               /\ status' \in {[status EXCEPT ![t] = s] : s \in {"open", "dead"}}
               /\ holder' = [holder EXCEPT ![t] = 0]
               /\ grant' = [grant EXCEPT ![a] = NoGrant]
               /\ UNCHANGED last

\* The queue itself withdraws grants, gives tasks up and revives tasks it gave
\* up.  It never touches a task that is done, and it grants nothing.
Administer == /\ status' \in [Tasks -> {"none", "open", "done", "dead"}]
              /\ \A t \in Tasks :
                   /\ (status[t] = "done") <=> (status'[t] = "done")
                   /\ (status[t] = "none") <=> (status'[t] = "none")
                   /\ holder'[t] \in {holder[t], 0}
                   /\ status'[t] = "dead" => holder'[t] = 0
              /\ holder' \in [Tasks -> Nat]
              /\ UNCHANGED <<last, grant>>

\* An actor dies or learns that its grant is gone.
Drop(a) == /\ grant' = [grant EXCEPT ![a] = NoGrant]
           /\ UNCHANGED <<status, holder, last>>

Next == \/ \E t \in Tasks : Submit(t)
        \/ Administer
        \/ \E a \in Actors : Drop(a)
        \/ \E a \in Actors, t \in Tasks : Grant(a, t) \/ Finish(a, t) \/ Yield(a, t)

Spec == Init /\ [][Next]_vars
=============================================================================
