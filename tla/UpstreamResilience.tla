------------------------- MODULE UpstreamResilience -------------------------
(***************************************************************************)
(* Calls to the language model.  Every model has a guard with a bulkhead    *)
(* and a circuit breaker (infrastructure/adapters/upstream_resilience.py);  *)
(* the client tries the default model, then its fallbacks, plainly or as a  *)
(* stream (infrastructure/adapters/http_llm_client.py).                     *)
(* Models are numbered in the order in which they are tried.  Coroutines    *)
(* interleave only where they await something that is not ready.            *)
(***************************************************************************)
EXTENDS Naturals, FiniteSets

CONSTANTS Calls,             \* calls of generate and generate_stream at once
          Models,            \* number of candidates, fallbacks included
          MaxAttempts,       \* retry_attempts
          MaxConcurrency,    \* slots of a bulkhead
          Threshold          \* circuit_failure_threshold

ASSUME ResilienceAssumption ==
  /\ IsFiniteSet(Calls)
  /\ {Models, MaxAttempts, MaxConcurrency, Threshold} \subseteq Nat \ {0}

VARIABLES guard,    \* guard[m]: the UpstreamResilience of model m
          call      \* call[c]

upstreamVars == <<guard, call>>

\* failures counts up to Threshold: beyond that the code compares no further.
Guard == [failures : 0..Threshold, circuit : {"closed", "open", "elapsed"},
          probe : BOOLEAN, free : 0..MaxConcurrency]

Call == [pc : {"idle", "enter", "queue", "send", "stream", "overdue"},
         streaming : BOOLEAN, at : 1..Models, probe : BOOLEAN,
         attempt : 1..MaxAttempts, emitted : BOOLEAN]

UpstreamTypeOK == guard \in [1..Models -> Guard] /\ call \in [Calls -> Call]

NoCall == [pc |-> "idle", streaming |-> FALSE, at |-> 1, probe |-> FALSE,
           attempt |-> 1, emitted |-> FALSE]

UpstreamInit ==
  /\ guard = [m \in 1..Models |-> [failures |-> 0, circuit |-> "closed", probe |-> FALSE,
                                   free |-> MaxConcurrency]]
  /\ call = [c \in Calls |-> NoCall]

-----------------------------------------------------------------------------
(* The guard.                                                               *)

Success(g) == [g EXCEPT !.failures = 0, !.circuit = "closed", !.probe = FALSE]

Failure(g, probe) ==
  LET n == IF g.failures < Threshold THEN g.failures + 1 ELSE Threshold IN
  [g EXCEPT !.failures = n, !.probe = FALSE,
            !.circuit = IF probe \/ n >= Threshold THEN "open" ELSE @]

\* _release_probe, for a lease that ends without an opinion
Neutral(g, probe) == [g EXCEPT !.probe = IF probe THEN FALSE ELSE @]

Released(g) == [g EXCEPT !.free = @ + 1]

SetGuard(m, g) == guard' = [guard EXCEPT ![m] = g]

-----------------------------------------------------------------------------
(* What becomes of the call.                                                *)

End(c) == call' = [call EXCEPT ![c] = NoCall]

\* Seeded fault: a stream that was cut off is started again elsewhere.
MayFallBack_Always(r) == r.at < Models

\* The errors below are fallbackable, unless part of an answer went out.
MayFallBack(r) == r.at < Models /\ ~r.emitted

NextCandidate(c) ==
  call' = [call EXCEPT ![c] = IF MayFallBack(@)
                              THEN [NoCall EXCEPT !.pc = "enter", !.at = call[c].at + 1,
                                                  !.streaming = call[c].streaming]
                              ELSE NoCall]

-----------------------------------------------------------------------------
(* generate and generate_stream.                                            *)

\* The default model has fallbacks; a model asked for by name, here the last, has none.
Start(c, m, streaming) ==
  /\ call[c].pc = "idle" /\ m \in {1, Models}
  /\ call' = [call EXCEPT ![c] = [NoCall EXCEPT !.pc = "enter", !.at = m, !.streaming = streaming]]
  /\ UNCHANGED guard

\* _before_call, CircuitOpenError, and a slot if there is one
BeforeCall(c) ==
  LET m == call[c].at
      g == guard[m]
      half == g.circuit = "elapsed"
      slot == g.free > 0 IN
  /\ call[c].pc = "enter"
  /\ IF g.circuit = "open" \/ (half /\ g.probe)
     THEN NextCandidate(c) /\ UNCHANGED guard
     ELSE /\ call' = [call EXCEPT ![c].pc = IF slot THEN "send" ELSE "queue", ![c].probe = half]
          /\ SetGuard(m, [g EXCEPT !.probe = @ \/ half, !.free = IF slot THEN @ - 1 ELSE @])

AcquireSlot(c) ==
  LET m == call[c].at IN
  /\ call[c].pc = "queue" /\ guard[m].free > 0
  /\ SetGuard(m, [guard[m] EXCEPT !.free = @ - 1])
  /\ call' = [call EXCEPT ![c].pc = "send"]

\* BulkheadRejectedError, which is not fallbackable
BulkheadReject(c) ==
  LET m == call[c].at IN
  /\ call[c].pc = "queue" /\ guard[m].free = 0
  /\ SetGuard(m, Neutral(guard[m], call[c].probe))
  /\ End(c)

\* An answer (one that reports a client error counts), or, without a stream, an error
\* no retry mends.
Answered(c) ==
  LET m == call[c].at IN
  /\ call[c].pc = "send"
  /\ SetGuard(m, Released(Success(guard[m])))
  /\ End(c)

\* RequestError, 408, 429, 5xx
AttemptFails(c) ==
  LET m == call[c].at IN
  /\ call[c].pc = "send"
  /\ IF call[c].attempt < MaxAttempts
     THEN call' = [call EXCEPT ![c].attempt = @ + 1] /\ UNCHANGED guard
     ELSE NextCandidate(c) /\ SetGuard(m, Released(Failure(guard[m], call[c].probe)))

OpenStream(c) ==
  /\ call[c].pc = "send" /\ call[c].streaming
  /\ call' = [call EXCEPT ![c].pc = "stream"]
  /\ UNCHANGED guard

Emit(c) ==
  /\ call[c].pc = "stream"
  /\ call' = [call EXCEPT ![c].emitted = TRUE]
  /\ UNCHANGED guard

StreamEnds(c) ==
  LET m == call[c].at IN
  /\ call[c].pc = "stream"
  /\ SetGuard(m, Released(Success(guard[m])))
  /\ End(c)

StreamBreaks(c) ==
  LET m == call[c].at IN
  /\ call[c].pc = "stream"
  /\ SetGuard(m, Released(Failure(guard[m], call[c].probe)))
  /\ NextCandidate(c)

\* Seeded fault: a call that waits gives back the slot it does not have.
Left_Always(m, r) == Released(Neutral(guard[m], r.probe))

\* What the guard is left with when a call is cancelled from outside: lease gives
\* slot and probe back, but a call still in the queue has no lease yet.
Left(m, r) == IF r.pc = "queue" THEN guard[m] ELSE Released(Neutral(guard[m], r.probe))

\* Seeded fault: the deadline ends when the stream opens.
Overruns_Connecting(r) == r.pc \in {"queue", "send"}

Overruns(r) == r.pc \in {"queue", "send", "stream"}

\* The total deadline.  call() cancels its task and then records a failure.
Deadline(c) ==
  LET r == call[c] IN
  /\ Overruns(r)
  /\ SetGuard(r.at, Left(r.at, r))
  /\ IF r.streaming THEN NextCandidate(c) ELSE call' = [call EXCEPT ![c].pc = "overdue"]

RecordOverdue(c) ==
  LET m == call[c].at IN
  /\ call[c].pc = "overdue"
  /\ SetGuard(m, Failure(guard[m], FALSE))
  /\ NextCandidate(c)

\* The client goes away, the orchestrator's wall clock runs out, or the body of a
\* stream raises something else than a connection error.
Cancel(c) ==
  LET r == call[c] IN
  /\ r.pc \in {"queue", "send", "stream"}
  /\ SetGuard(r.at, Left(r.at, r))
  /\ End(c)

\* circuit_recovery_seconds pass
Elapse(m) ==
  /\ guard[m].circuit = "open"
  /\ SetGuard(m, [guard[m] EXCEPT !.circuit = "elapsed"])
  /\ UNCHANGED call

Waiting(c) == BeforeCall(c) \/ AcquireSlot(c) \/ BulkheadReject(c) \/ RecordOverdue(c)

Working(c) ==
  \/ Answered(c) \/ AttemptFails(c) \/ OpenStream(c) \/ Emit(c)
  \/ StreamEnds(c) \/ StreamBreaks(c) \/ Deadline(c) \/ Cancel(c)

UpstreamNext ==
  \/ \E c \in Calls : \/ Waiting(c) \/ Working(c)
                      \/ \E m \in 1..Models, s \in BOOLEAN : Start(c, m, s)
  \/ \E m \in 1..Models : Elapse(m)

UpstreamSpec == UpstreamInit /\ [][UpstreamNext]_upstreamVars

-----------------------------------------------------------------------------
(* Properties.                                                              *)

Holding(m) == {c \in Calls : call[c].at = m /\ call[c].pc \in {"send", "stream"}}

\* No slot of a bulkhead is lost or given twice, wherever a call is cancelled,
\* times out, or moves on to another model.
SlotsKept ==
  /\ UpstreamTypeOK
  /\ \A m \in 1..Models : guard[m].free + Cardinality(Holding(m)) = MaxConcurrency

\* "never retries after emitting data": a stream of which a part has reached the
\* client goes on as it is or ends; no other attempt or model continues it.
NeverRestarted ==
  [][\A c \in Calls : call[c].emitted /\ call'[c] # call[c] => call'[c] = NoCall]_upstreamVars

\* Every call comes to an end, whatever the upstream does and however many
\* models, attempts and queues it goes through.
EveryCallEnds == \A c \in Calls : call[c].pc # "idle" ~> call[c].pc = "idle"

\* "probes recovery after a cool-down": a guard that waits for its probe does not
\* do so for ever.
ProbeComesBack == \A m \in 1..Models : guard[m].probe ~> ~guard[m].probe
=============================================================================
