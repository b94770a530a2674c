---------------------------- MODULE AnswersProofs ----------------------------
(***************************************************************************)
(* Theorems about what an answer is made of: the calls to the language     *)
(* model, the loop of a chat request and the events it becomes, for any    *)
(* number of models, calls, attempts and slots, any budgets and any chunks. *)
(***************************************************************************)
EXTENDS UpstreamResilience, ChatOrchestrator, ProtocolStreams,
        FiniteSetTheorems, SequenceTheorems, WellFoundedInduction, TLAPS

-----------------------------------------------------------------------------
(* Slots of the bulkheads.                                                  *)

LEMMA UpstreamBounds ==
  /\ Models \in Nat /\ MaxAttempts \in Nat /\ MaxConcurrency \in Nat /\ Threshold \in Nat
  /\ 1 \in 1 .. Models /\ 1 \in 1 .. MaxAttempts /\ 0 \in 0 .. Threshold /\ Threshold \in 0 .. Threshold
  /\ NoCall \in Call
<1>1. /\ Models \in Nat \ {0} /\ MaxAttempts \in Nat \ {0}
      /\ MaxConcurrency \in Nat \ {0} /\ Threshold \in Nat \ {0}
  BY ResilienceAssumption
<1>2. 1 \in 1 .. Models /\ 1 \in 1 .. MaxAttempts
  BY <1>1
<1>3. NoCall \in Call
  BY <1>2 DEF NoCall, Call
<1> QED BY <1>1, <1>2, <1>3

LEMMA HoldingCounted ==
  \A m : IsFiniteSet(Holding(m)) /\ Cardinality(Holding(m)) \in Nat
<1> TAKE m
<1>1. Holding(m) \in SUBSET Calls
  BY DEF Holding
<1>2. IsFiniteSet(Holding(m))
  BY <1>1, FS_Subset, ResilienceAssumption
<1> QED BY <1>2, FS_CardinalityType

\* The record of a failure, a success or a probe given back says nothing of slots.
LEMMA GuardFree ==
  ASSUME NEW g \in Guard, NEW probe \in BOOLEAN
  PROVE  /\ Success(g) \in Guard /\ Success(g).free = g.free
         /\ Failure(g, probe) \in Guard /\ Failure(g, probe).free = g.free
         /\ Neutral(g, probe) \in Guard /\ Neutral(g, probe).free = g.free
<1>1. Success(g) \in Guard /\ Success(g).free = g.free
  BY UpstreamBounds DEF Success, Guard
<1>2. Neutral(g, probe) \in Guard /\ Neutral(g, probe).free = g.free
  <2>1. CASE probe
    BY <2>1 DEF Neutral, Guard
  <2>2. CASE ~probe
    BY <2>2 DEF Neutral, Guard
  <2> QED BY <2>1, <2>2
<1>3. Failure(g, probe) \in Guard /\ Failure(g, probe).free = g.free
  <2> DEFINE n == IF g.failures < Threshold THEN g.failures + 1 ELSE Threshold
             s == IF probe \/ n >= Threshold THEN "open" ELSE g.circuit
  <2>1. n \in 0 .. Threshold
    BY UpstreamBounds DEF Guard
  <2>2. s \in {"closed", "open", "elapsed"}
    BY DEF Guard
  <2>3. Failure(g, probe) = [g EXCEPT !.failures = n, !.probe = FALSE, !.circuit = s]
    BY DEF Failure, Guard
  <2> HIDE DEF n, s
  <2> QED BY <2>1, <2>2, <2>3 DEF Guard
<1> QED BY <1>1, <1>2, <1>3

LEMMA ReleasedFree ==
  ASSUME NEW g \in Guard, g.free < MaxConcurrency
  PROVE  Released(g) \in Guard /\ Released(g).free = g.free + 1
<1> DEFINE n == g.free + 1
<1>1. n \in 0 .. MaxConcurrency
  BY UpstreamBounds DEF Guard
<1>2. Released(g) = [g EXCEPT !.free = n]
  BY DEF Released, Guard
<1> HIDE DEF n
<1>3. Released(g) \in Guard /\ Released(g).free = n
  BY <1>1, <1>2 DEF Guard
<1> QED BY <1>3 DEF n

LEMMA SlotsFacts ==
  ASSUME SlotsKept
  PROVE  /\ guard \in [1 .. Models -> Guard] /\ call \in [Calls -> Call]
         /\ \A k \in 1 .. Models : /\ guard[k] \in Guard /\ guard[k].free \in 0 .. MaxConcurrency
                                   /\ guard[k].free \in Nat
                                   /\ guard[k].free + Cardinality(Holding(k)) = MaxConcurrency
BY UpstreamBounds DEF SlotsKept, UpstreamTypeOK, Guard

\* What an action leaves of the slots of the model m, with g as its new guard.
LEMMA SlotsOfOne ==
  ASSUME SlotsKept, NEW m \in 1 .. Models, NEW g \in Guard,
         guard' = [guard EXCEPT ![m] = g], call' \in [Calls -> Call],
         g.free + Cardinality(Holding(m)') = MaxConcurrency,
         \A k \in 1 .. Models \ {m} : Holding(k)' = Holding(k)
  PROVE  SlotsKept'
<1>1. guard' \in [1 .. Models -> Guard]
  BY SlotsFacts
<1>2. guard'[m] = g /\ \A k \in 1 .. Models \ {m} : guard'[k] = guard[k]
  BY SlotsFacts
<1>3. \A k \in 1 .. Models : guard'[k].free + Cardinality(Holding(k)') = MaxConcurrency
  BY <1>2, SlotsFacts
<1> QED BY <1>1, <1>3 DEF SlotsKept, UpstreamTypeOK

Served(r) == r.pc \in {"send", "stream"}

LEMMA SlotTaken ==
  ASSUME SlotsKept, NEW c \in Calls, NEW m \in 1 .. Models, NEW g \in Guard,
         guard' = [guard EXCEPT ![m] = g], call' \in [Calls -> Call],
         \A d \in Calls \ {c} : call'[d] = call[d],
         ~Served(call[c]), Served(call'[c]), call'[c].at = m,
         guard[m].free > 0, g.free = guard[m].free - 1
  PROVE  SlotsKept'
<1>1. Holding(m)' = Holding(m) \cup {c} /\ c \notin Holding(m)
  BY DEF Holding, Served
<1>2. \A k \in 1 .. Models \ {m} : Holding(k)' = Holding(k)
  BY DEF Holding, Served
<1>3. Cardinality(Holding(m) \cup {c}) = Cardinality(Holding(m)) + 1
  BY <1>1, HoldingCounted, FS_AddElement
<1>4. g.free + Cardinality(Holding(m)') = MaxConcurrency
  BY <1>1, <1>3, HoldingCounted, SlotsFacts, UpstreamBounds
<1> QED BY <1>2, <1>4, SlotsOfOne

LEMMA SlotGiven ==
  ASSUME SlotsKept, NEW c \in Calls, NEW m \in 1 .. Models, NEW g \in Guard,
         guard' = [guard EXCEPT ![m] = g], call' \in [Calls -> Call],
         \A d \in Calls \ {c} : call'[d] = call[d],
         Served(call[c]), call[c].at = m, ~Served(call'[c]),
         g.free = guard[m].free + 1
  PROVE  SlotsKept'
<1>1. Holding(m)' = Holding(m) \ {c} /\ c \in Holding(m)
  BY DEF Holding, Served
<1>2. \A k \in 1 .. Models \ {m} : Holding(k)' = Holding(k)
  BY DEF Holding, Served
<1>3. Cardinality(Holding(m) \ {c}) = Cardinality(Holding(m)) - 1
  BY <1>1, HoldingCounted, FS_RemoveElement
<1>4. g.free + Cardinality(Holding(m)') = MaxConcurrency
  BY <1>1, <1>3, HoldingCounted, SlotsFacts, UpstreamBounds
<1> QED BY <1>2, <1>4, SlotsOfOne

\* A call that holds a slot leaves one that may be given back.
LEMMA SlotToGive ==
  ASSUME SlotsKept, NEW c \in Calls, Served(call[c])
  PROVE  call[c].at \in 1 .. Models /\ guard[call[c].at].free < MaxConcurrency
<1> DEFINE m == call[c].at
<1>1. m \in 1 .. Models
  BY SlotsFacts DEF Call
<1>2. Cardinality(Holding(m)) # 0
  <2>1. c \in Holding(m)
    BY DEF Holding, Served
  <2> QED BY <2>1, HoldingCounted, FS_EmptySet
<1> HIDE DEF m
<1>3. guard[m].free < MaxConcurrency
  BY <1>1, <1>2, HoldingCounted, SlotsFacts, UpstreamBounds
<1> QED BY <1>1, <1>3 DEF m

LEMMA SlotsUntouched ==
  ASSUME SlotsKept, NEW c \in Calls, NEW m \in 1 .. Models, NEW g \in Guard,
         guard' = [guard EXCEPT ![m] = g] \/ guard' = guard, call' \in [Calls -> Call],
         \A d \in Calls \ {c} : call'[d] = call[d],
         \/ ~Served(call[c]) /\ ~Served(call'[c])
         \/ Served(call[c]) /\ Served(call'[c]) /\ call'[c].at = call[c].at,
         g.free = guard[m].free
  PROVE  SlotsKept'
<1>1. \A k : Holding(k)' = Holding(k)
  BY DEF Holding, Served
<1>2. CASE guard' = guard
  BY <1>1, <1>2, SlotsFacts DEF SlotsKept, UpstreamTypeOK
<1>3. CASE guard' = [guard EXCEPT ![m] = g]
  <2>1. g.free + Cardinality(Holding(m)') = MaxConcurrency
    BY <1>1, SlotsFacts
  <2> QED BY <1>1, <1>3, <2>1, SlotsOfOne
<1> QED BY <1>2, <1>3

\* The call moves on to the next model or is over; it holds nothing.
LEMMA MovesOn ==
  ASSUME SlotsKept, NEW c \in Calls,
         NextCandidate(c) \/ End(c)
  PROVE  /\ call' \in [Calls -> Call] /\ ~Served(call'[c])
         /\ \A d \in Calls \ {c} : call'[d] = call[d]
<1> DEFINE r == [NoCall EXCEPT !.pc = "enter", !.at = call[c].at + 1, !.streaming = call[c].streaming]
<1>1. call[c] \in Call /\ call \in [Calls -> Call]
  BY SlotsFacts
<1>2. CASE call' = [call EXCEPT ![c] = NoCall]
  BY <1>1, <1>2, UpstreamBounds DEF Served, NoCall
<1>3. CASE call' = [call EXCEPT ![c] = r] /\ call[c].at < Models
  <2>1. NoCall \in Call /\ call[c].streaming \in BOOLEAN
    BY <1>1, UpstreamBounds DEF Call
  <2>2. call[c].at + 1 \in 1 .. Models
    BY <1>1, <1>3, UpstreamBounds DEF Call
  <2>3. r \in Call /\ r.pc = "enter"
    BY <2>1, <2>2 DEF Call
  <2> HIDE DEF r
  <2> QED BY <1>1, <1>3, <2>3 DEF Served
<1>4. CASE NextCandidate(c)
  BY <1>1, <1>2, <1>3, <1>4 DEF NextCandidate, MayFallBack
<1> QED BY <1>2, <1>4 DEF End

LEMMA UpstreamStart == UpstreamInit => SlotsKept
<1> SUFFICES ASSUME UpstreamInit PROVE SlotsKept
  OBVIOUS
<1> DEFINE g == [failures |-> 0, circuit |-> "closed", probe |-> FALSE, free |-> MaxConcurrency]
<1>1. g \in Guard /\ g.free = MaxConcurrency
  BY UpstreamBounds DEF Guard
<1>2. guard = [m \in 1 .. Models |-> g] /\ call = [c \in Calls |-> NoCall]
  BY DEF UpstreamInit
<1> HIDE DEF g
<1>3. UpstreamTypeOK
  BY <1>1, <1>2, UpstreamBounds DEF UpstreamTypeOK
<1>4. \A m : Holding(m) = {}
  BY <1>2 DEF Holding, NoCall
<1>5. \A m \in 1 .. Models : guard[m].free = MaxConcurrency /\ Cardinality(Holding(m)) = 0
  BY <1>1, <1>2, <1>4, FS_EmptySet
<1> QED BY <1>3, <1>5, UpstreamBounds DEF SlotsKept

\* A call that ends or moves on while it waits, or is being recorded, has no slot.
LEMMA WaitingEnds ==
  ASSUME SlotsKept, NEW c \in Calls, ~Served(call[c]),
         NextCandidate(c) \/ End(c) \/ (call' \in [Calls -> Call] /\ ~Served(call'[c])
                                        /\ \A d \in Calls \ {c} : call'[d] = call[d]),
         NEW g \in Guard, NEW m \in 1 .. Models, SetGuard(m, g), g.free = guard[m].free
  PROVE  SlotsKept'
<1>1. /\ call' \in [Calls -> Call] /\ ~Served(call'[c])
      /\ \A d \in Calls \ {c} : call'[d] = call[d]
  BY MovesOn
<1> QED BY <1>1, SlotsUntouched DEF SetGuard

\* A call that has a slot gives it back whatever happens to the circuit.
LEMMA ServedEnds ==
  ASSUME SlotsKept, NEW c \in Calls, Served(call[c]),
         NextCandidate(c) \/ End(c) \/ (call' \in [Calls -> Call] /\ ~Served(call'[c])
                                        /\ \A d \in Calls \ {c} : call'[d] = call[d]),
         NEW g \in Guard, g.free = guard[call[c].at].free, SetGuard(call[c].at, Released(g))
  PROVE  SlotsKept'
<1> DEFINE m == call[c].at
<1>1. /\ call' \in [Calls -> Call] /\ ~Served(call'[c])
      /\ \A d \in Calls \ {c} : call'[d] = call[d]
  BY MovesOn
<1>2. m \in 1 .. Models /\ guard[m].free < MaxConcurrency
  BY SlotToGive
<1>3. Released(g) \in Guard /\ Released(g).free = guard[m].free + 1
  BY <1>2, ReleasedFree
<1>4. guard' = [guard EXCEPT ![m] = Released(g)] /\ call[c].at = m
  BY DEF SetGuard
<1> HIDE DEF m
<1> QED BY <1>1, <1>2, <1>3, <1>4, SlotGiven

LEMMA UpstreamStep == SlotsKept /\ [UpstreamNext]_upstreamVars => SlotsKept'
<1> SUFFICES ASSUME SlotsKept, [UpstreamNext]_upstreamVars PROVE SlotsKept'
  OBVIOUS
<1> USE SlotsFacts
<1>1. \A c \in Calls : call[c] \in Call /\ call[c].at \in 1 .. Models /\ call[c].probe \in BOOLEAN
  BY DEF Call
<1>2. ASSUME NEW c \in Calls, NEW m \in {1, Models}, NEW s \in BOOLEAN, Start(c, m, s) PROVE SlotsKept'
  <2> DEFINE r == [NoCall EXCEPT !.pc = "enter", !.at = m, !.streaming = s]
  <2>1. m \in 1 .. Models /\ NoCall \in Call
    BY UpstreamBounds
  <2>2. r \in Call /\ r.pc = "enter"
    BY <2>1 DEF Call
  <2>3. call' = [call EXCEPT ![c] = r] /\ guard' = guard /\ call[c].pc = "idle"
    BY <1>2 DEF Start
  <2> HIDE DEF r
  <2>4. /\ call' \in [Calls -> Call] /\ ~Served(call'[c]) /\ ~Served(call[c])
        /\ \A d \in Calls \ {c} : call'[d] = call[d]
    BY <2>2, <2>3 DEF Served
  <2>5. guard[m] \in Guard
    BY <2>1
  <2> QED BY <2>1, <2>3, <2>4, <2>5, SlotsUntouched
<1>3. ASSUME NEW c \in Calls, BeforeCall(c) PROVE SlotsKept'
  <2> DEFINE m == call[c].at
             half == guard[m].circuit = "elapsed"
  <2>1. m \in 1 .. Models /\ guard[m] \in Guard /\ call[c] \in Call
    BY <1>1
  <2>2. call[c].pc = "enter" /\ ~Served(call[c])
    BY <1>3 DEF BeforeCall, Served
  <2>3. CASE NextCandidate(c) /\ UNCHANGED guard
    BY <2>1, <2>2, <2>3, MovesOn, SlotsUntouched
  <2>4. CASE /\ guard[m].free > 0
             /\ call' = [call EXCEPT ![c].pc = "send", ![c].probe = half]
             /\ SetGuard(m, [guard[m] EXCEPT !.probe = @ \/ half, !.free = @ - 1])
    <3> DEFINE p == guard[m].probe \/ half
               n == guard[m].free - 1
               g == [guard[m] EXCEPT !.probe = p, !.free = n]
    <3>1. p \in BOOLEAN
      BY <2>1 DEF Guard
    <3>2. n \in 0 .. MaxConcurrency /\ n = guard[m].free - 1
      BY <2>1, <2>4, UpstreamBounds
    <3>3. guard' = [guard EXCEPT ![m] = g]
      BY <2>4 DEF SetGuard
    <3> HIDE DEF p, n
    <3>4. g \in Guard /\ g.free = n
      BY <2>1, <3>1, <3>2 DEF Guard
    <3>5. /\ call' \in [Calls -> Call] /\ Served(call'[c]) /\ call'[c].at = m
          /\ \A d \in Calls \ {c} : call'[d] = call[d]
      <4> HIDE DEF m, g
      <4>1. half \in BOOLEAN
        OBVIOUS
      <4> HIDE DEF half
      <4> DEFINE r == [call[c] EXCEPT !.pc = "send", !.probe = half]
      <4>2. r \in Call /\ r.pc = "send" /\ r.at = call[c].at
        BY <2>1, <4>1 DEF Call
      <4>3. call' = [call EXCEPT ![c] = r]
        BY <2>4
      <4> HIDE DEF r
      <4> QED BY <4>2, <4>3 DEF Served, m
    <3> HIDE DEF m, g, half
    <3> QED BY <2>1, <2>2, <2>4, <3>2, <3>3, <3>4, <3>5, SlotTaken
  <2>5. CASE /\ ~(guard[m].free > 0)
             /\ call' = [call EXCEPT ![c].pc = "queue", ![c].probe = half]
             /\ SetGuard(m, [guard[m] EXCEPT !.probe = @ \/ half, !.free = @])
    <3> DEFINE p == guard[m].probe \/ half
               g == [guard[m] EXCEPT !.probe = p, !.free = @]
    <3>1. p \in BOOLEAN /\ half \in BOOLEAN
      BY <2>1 DEF Guard
    <3>2. guard' = [guard EXCEPT ![m] = g]
      BY <2>5 DEF SetGuard
    <3> HIDE DEF p, half
    <3>3. g \in Guard /\ g.free = guard[m].free
      BY <2>1, <3>1 DEF Guard
    <3> DEFINE r == [call[c] EXCEPT !.pc = "queue", !.probe = half]
    <3>4. r \in Call /\ r.pc = "queue"
      BY <2>1, <3>1 DEF Call
    <3>5. call' = [call EXCEPT ![c] = r]
      BY <2>5
    <3> HIDE DEF m, g, r
    <3>6. /\ call' \in [Calls -> Call] /\ ~Served(call'[c])
          /\ \A d \in Calls \ {c} : call'[d] = call[d]
      BY <3>4, <3>5 DEF Served
    <3> QED BY <2>1, <2>2, <3>2, <3>3, <3>6, SlotsUntouched
  <2>6. CASE guard[m].free > 0
    BY <1>3, <2>3, <2>4, <2>6 DEF BeforeCall
  <2>7. CASE ~(guard[m].free > 0)
    BY <1>3, <2>3, <2>5, <2>7 DEF BeforeCall
  <2> QED BY <2>6, <2>7
<1>4. ASSUME NEW c \in Calls, AcquireSlot(c) PROVE SlotsKept'
  <2> DEFINE m == call[c].at
             n == guard[m].free - 1
             g == [guard[m] EXCEPT !.free = n]
             r == [call[c] EXCEPT !.pc = "send"]
  <2>1. m \in 1 .. Models /\ guard[m] \in Guard /\ call[c] \in Call
    BY <1>1
  <2>2. call[c].pc = "queue" /\ ~Served(call[c]) /\ guard[m].free > 0
    BY <1>4 DEF AcquireSlot, Served
  <2>3. n \in 0 .. MaxConcurrency
    BY <2>1, <2>2, UpstreamBounds
  <2>4. guard' = [guard EXCEPT ![m] = g] /\ call' = [call EXCEPT ![c] = r]
    BY <1>4 DEF AcquireSlot, SetGuard
  <2>5. n = guard[m].free - 1
    OBVIOUS
  <2> HIDE DEF n
  <2>6. g \in Guard /\ g.free = n
    BY <2>1, <2>3 DEF Guard
  <2>7. r \in Call /\ r.pc = "send" /\ r.at = m
    BY <2>1 DEF Call
  <2> HIDE DEF m, g, r
  <2>8. /\ call' \in [Calls -> Call] /\ Served(call'[c]) /\ call'[c].at = m
        /\ \A d \in Calls \ {c} : call'[d] = call[d]
    BY <2>4, <2>7 DEF Served
  <2> QED BY <2>1, <2>2, <2>4, <2>5, <2>6, <2>8, SlotTaken
<1>5. ASSUME NEW c \in Calls, BulkheadReject(c) PROVE SlotsKept'
  <2> DEFINE m == call[c].at
  <2>1. m \in 1 .. Models /\ Neutral(guard[m], call[c].probe) \in Guard
        /\ Neutral(guard[m], call[c].probe).free = guard[m].free
    BY <1>1, GuardFree
  <2>2. ~Served(call[c]) /\ End(c) /\ SetGuard(m, Neutral(guard[m], call[c].probe))
    BY <1>5 DEF BulkheadReject, Served
  <2> QED BY <2>1, <2>2, WaitingEnds
<1>6. ASSUME NEW c \in Calls, Answered(c) \/ StreamEnds(c) PROVE SlotsKept'
  <2>1. Success(guard[call[c].at]) \in Guard /\ Success(guard[call[c].at]).free = guard[call[c].at].free
    BY <1>1, GuardFree
  <2>2. Served(call[c]) /\ End(c) /\ SetGuard(call[c].at, Released(Success(guard[call[c].at])))
    BY <1>6 DEF Answered, StreamEnds, Served
  <2> QED BY <2>1, <2>2, ServedEnds
<1>7. ASSUME NEW c \in Calls, AttemptFails(c) \/ StreamBreaks(c) PROVE SlotsKept'
  <2> DEFINE g == Failure(guard[call[c].at], call[c].probe)
  <2>1. g \in Guard /\ g.free = guard[call[c].at].free
    BY <1>1, GuardFree
  <2>2. Served(call[c])
    BY <1>7 DEF AttemptFails, StreamBreaks, Served
  <2>3. CASE NextCandidate(c) /\ SetGuard(call[c].at, Released(g))
    BY <2>1, <2>2, <2>3, ServedEnds
  <2>4. CASE call[c].attempt < MaxAttempts /\ call' = [call EXCEPT ![c].attempt = @ + 1] /\ UNCHANGED guard
    <3> DEFINE n == call[c].attempt + 1
               r == [call[c] EXCEPT !.attempt = n]
    <3>1. n \in 1 .. MaxAttempts /\ call[c] \in Call
      BY <1>1, <2>4, UpstreamBounds DEF Call
    <3>2. call' = [call EXCEPT ![c] = r]
      BY <2>4
    <3> HIDE DEF n
    <3>3. r \in Call /\ r.pc = call[c].pc /\ r.at = call[c].at
      BY <3>1 DEF Call
    <3> HIDE DEF r
    <3>4. /\ call' \in [Calls -> Call] /\ Served(call'[c]) /\ call'[c].at = call[c].at
          /\ \A d \in Calls \ {c} : call'[d] = call[d]
      BY <2>2, <3>2, <3>3 DEF Served
    <3>5. guard[call[c].at] \in Guard /\ call[c].at \in 1 .. Models
      BY <1>1
    <3> QED BY <2>2, <2>4, <3>4, <3>5, SlotsUntouched
  <2> QED BY <1>7, <2>3, <2>4 DEF AttemptFails, StreamBreaks
<1>8. ASSUME NEW c \in Calls, OpenStream(c) \/ Emit(c) PROVE SlotsKept'
  <2> DEFINE r == IF OpenStream(c) THEN [call[c] EXCEPT !.pc = "stream"] ELSE [call[c] EXCEPT !.emitted = TRUE]
  <2>1. Served(call[c]) /\ call' = [call EXCEPT ![c] = r] /\ UNCHANGED guard
    BY <1>8 DEF OpenStream, Emit, Served
  <2>2. call[c] \in Call
    BY <1>1
  <2>3. r \in Call /\ Served(r) /\ r.at = call[c].at
    <3>1. CASE OpenStream(c)
      BY <2>2, <3>1 DEF Call, Served
    <3>2. CASE ~OpenStream(c)
      BY <2>1, <2>2, <3>2 DEF Call, Served
    <3> QED BY <3>1, <3>2
  <2> HIDE DEF r
  <2>4. /\ call' \in [Calls -> Call] /\ Served(call'[c]) /\ call'[c].at = call[c].at
        /\ \A d \in Calls \ {c} : call'[d] = call[d]
    BY <2>1, <2>3
  <2>5. guard[call[c].at] \in Guard /\ call[c].at \in 1 .. Models
    BY <1>1
  <2> QED BY <2>1, <2>4, <2>5, SlotsUntouched
<1>9. ASSUME NEW c \in Calls, Deadline(c) PROVE SlotsKept'
  <2> DEFINE g == Neutral(guard[call[c].at], call[c].probe)
             r == [call[c] EXCEPT !.pc = "overdue"]
  <2>1. call[c].at \in 1 .. Models /\ guard[call[c].at] \in Guard /\ call[c] \in Call
        /\ g \in Guard /\ g.free = guard[call[c].at].free
    BY <1>1, GuardFree
  <2>2. r \in Call /\ ~Served(r)
    BY <2>1 DEF Call, Served
  <2>3. NextCandidate(c) \/ call' = [call EXCEPT ![c] = r]
    BY <1>9 DEF Deadline
  <2> HIDE DEF r
  <2>4. /\ call' \in [Calls -> Call] /\ ~Served(call'[c])
        /\ \A d \in Calls \ {c} : call'[d] = call[d]
    BY <2>2, <2>3, MovesOn
  <2>5. CASE call[c].pc = "queue"
    <3>1. SetGuard(call[c].at, guard[call[c].at]) /\ ~Served(call[c])
      BY <1>9, <2>5 DEF Deadline, Left, Served
    <3> QED BY <2>1, <2>4, <3>1, WaitingEnds
  <2>6. CASE call[c].pc # "queue"
    <3>1. SetGuard(call[c].at, Released(g)) /\ Served(call[c])
      BY <1>9, <2>6 DEF Deadline, Overruns, Left, Served
    <3> HIDE DEF g
    <3> QED BY <2>1, <2>4, <3>1, ServedEnds
  <2> QED BY <2>5, <2>6
<1>10. ASSUME NEW c \in Calls, RecordOverdue(c) PROVE SlotsKept'
  <2>1. call[c].at \in 1 .. Models /\ Failure(guard[call[c].at], FALSE) \in Guard
        /\ Failure(guard[call[c].at], FALSE).free = guard[call[c].at].free
    BY <1>1, GuardFree
  <2>2. ~Served(call[c]) /\ NextCandidate(c) /\ SetGuard(call[c].at, Failure(guard[call[c].at], FALSE))
    BY <1>10 DEF RecordOverdue, Served
  <2> QED BY <2>1, <2>2, WaitingEnds
<1>11. ASSUME NEW c \in Calls, Cancel(c) PROVE SlotsKept'
  <2> DEFINE g == Neutral(guard[call[c].at], call[c].probe)
  <2>1. call[c].at \in 1 .. Models /\ guard[call[c].at] \in Guard
        /\ g \in Guard /\ g.free = guard[call[c].at].free
    BY <1>1, GuardFree
  <2>2. CASE call[c].pc = "queue"
    <3>1. SetGuard(call[c].at, guard[call[c].at]) /\ ~Served(call[c]) /\ End(c)
      BY <1>11, <2>2 DEF Cancel, Left, Served
    <3> QED BY <2>1, <3>1, WaitingEnds
  <2>3. CASE call[c].pc # "queue"
    <3>1. SetGuard(call[c].at, Released(g)) /\ Served(call[c]) /\ End(c)
      BY <1>11, <2>3 DEF Cancel, Left, Served
    <3> HIDE DEF g
    <3> QED BY <2>1, <3>1, ServedEnds
  <2> QED BY <2>2, <2>3
<1>12. ASSUME NEW m \in 1 .. Models, Elapse(m) PROVE SlotsKept'
  <2> DEFINE g == [guard[m] EXCEPT !.circuit = "elapsed"]
  <2>1. guard[m] \in Guard
    OBVIOUS
  <2>2. g \in Guard /\ g.free = guard[m].free
    BY <2>1 DEF Guard
  <2>3. guard' = [guard EXCEPT ![m] = g] /\ call' = call
    BY <1>12 DEF Elapse, SetGuard
  <2> HIDE DEF g
  <2>4. \A k : Holding(k)' = Holding(k)
    BY <2>3 DEF Holding
  <2> QED BY <2>2, <2>3, <2>4, SlotsOfOne
<1>13. CASE UNCHANGED upstreamVars
  <2>1. guard' = guard /\ \A k : Holding(k)' = Holding(k)
    BY <1>13 DEF upstreamVars, Holding
  <2> QED BY <1>13, <2>1 DEF SlotsKept, UpstreamTypeOK, upstreamVars
<1>14. ASSUME NEW c \in Calls, Waiting(c) \/ Working(c) PROVE SlotsKept'
  BY <1>3, <1>4, <1>5, <1>6, <1>7, <1>8, <1>9, <1>10, <1>11, <1>14 DEF Waiting, Working
<1>15. ASSUME NEW c \in Calls, NEW m \in 1 .. Models, NEW s \in BOOLEAN, Start(c, m, s) PROVE SlotsKept'
  BY <1>2, <1>15 DEF Start
<1> QED BY <1>12, <1>13, <1>14, <1>15 DEF UpstreamNext

\* For any number of models, calls and slots: wherever a call is cancelled, times
\* out, breaks or moves on to a fallback, its slot is given back once.
THEOREM UpstreamSlots == UpstreamSpec => []SlotsKept
<1> QED BY UpstreamStart, UpstreamStep, PTL DEF UpstreamSpec

-----------------------------------------------------------------------------
(* A stream is not started again.                                           *)

\* Why the record of a call tells what its client has seen: only a stream shows
\* a part of an answer, and it is left for good.
ShownIsStream == \A c \in Calls : /\ call[c].emitted => call[c].pc = "stream"
                                  /\ call[c].pc = "stream" => call[c].streaming

Stays == \A c \in Calls : call[c].emitted /\ call'[c] # call[c] => call'[c] = NoCall

\* What an action that changes the call c alone has to show.
LEMMA OneCall ==
  ASSUME SlotsKept, ShownIsStream, NEW c \in Calls,
         \A d \in Calls \ {c} : call'[d] = call[d],
         call'[c].emitted => call'[c].pc = "stream",
         call'[c].pc = "stream" => call'[c].streaming,
         call[c].emitted /\ call'[c] # call[c] => call'[c] = NoCall
  PROVE  ShownIsStream' /\ Stays
<1>1. \A d \in Calls : d = c \/ d \in Calls \ {c}
  OBVIOUS
<1>2. ShownIsStream'
  BY <1>1 DEF ShownIsStream
<1>3. Stays
  BY <1>1 DEF Stays
<1> QED BY <1>2, <1>3

LEMMA CandidateShown ==
  ASSUME SlotsKept, ShownIsStream, NEW c \in Calls, NextCandidate(c) \/ End(c)
  PROVE  ShownIsStream' /\ Stays
<1> DEFINE r == [NoCall EXCEPT !.pc = "enter", !.at = call[c].at + 1, !.streaming = call[c].streaming]
<1>1. \A d \in Calls \ {c} : call'[d] = call[d]
  BY MovesOn
<1>2. call \in [Calls -> Call]
  BY SlotsFacts
<1>3. CASE call' = [call EXCEPT ![c] = NoCall]
  <2>1. call'[c] = NoCall /\ ~NoCall.emitted /\ NoCall.pc = "idle"
    BY <1>2, <1>3 DEF NoCall
  <2> QED BY <1>1, <2>1, OneCall
<1>4. CASE call' = [call EXCEPT ![c] = r] /\ ~call[c].emitted
  <2>1. NoCall \in Call /\ ~NoCall.emitted
    BY UpstreamBounds DEF NoCall
  <2>2. ~r.emitted /\ r.pc = "enter"
    BY <2>1 DEF Call
  <2>3. call'[c] = r
    BY <1>2, <1>4
  <2> HIDE DEF r
  <2> QED BY <1>1, <1>4, <2>2, <2>3, OneCall
<1>5. CASE NextCandidate(c)
  BY <1>3, <1>4, <1>5 DEF NextCandidate, MayFallBack
<1>6. CASE End(c)
  BY <1>3, <1>6 DEF End
<1> QED BY <1>5, <1>6

LEMMA ShownStep == SlotsKept /\ ShownIsStream /\ [UpstreamNext]_upstreamVars => ShownIsStream' /\ Stays
<1> SUFFICES ASSUME SlotsKept, ShownIsStream, [UpstreamNext]_upstreamVars
             PROVE  ShownIsStream' /\ Stays
  OBVIOUS
<1>1. call \in [Calls -> Call]
  BY SlotsFacts
<1>2. ASSUME NEW c \in Calls, NEW r, call' = [call EXCEPT ![c] = r], call[c].pc # "stream",
             ~r.emitted, r.pc = "stream" => r.streaming
      PROVE  ShownIsStream' /\ Stays
  <2>1. call'[c] = r /\ \A d \in Calls \ {c} : call'[d] = call[d]
    BY <1>1, <1>2
  <2>2. ~call[c].emitted
    BY <1>2 DEF ShownIsStream
  <2> QED BY <1>2, <2>1, <2>2, OneCall
<1>3. \A c \in Calls : call[c].pc # "stream" => ~call[c].emitted
  BY DEF ShownIsStream
<1>4. ASSUME NEW c \in Calls, NEW m \in 1 .. Models, NEW s \in BOOLEAN, Start(c, m, s)
      PROVE  ShownIsStream' /\ Stays
  <2> DEFINE r == [NoCall EXCEPT !.pc = "enter", !.at = m, !.streaming = s]
  <2>1. NoCall \in Call /\ ~NoCall.emitted
    BY UpstreamBounds DEF NoCall
  <2>2. ~r.emitted /\ r.pc = "enter"
    BY <2>1 DEF Call
  <2>3. call' = [call EXCEPT ![c] = r] /\ call[c].pc # "stream"
    BY <1>4 DEF Start
  <2> HIDE DEF r
  <2> QED BY <1>2, <2>2, <2>3
<1>5. ASSUME NEW c \in Calls, BeforeCall(c) PROVE ShownIsStream' /\ Stays
  <2>1. call[c].pc # "stream" /\ ~call[c].emitted /\ call[c] \in Call
    BY <1>1, <1>3, <1>5 DEF BeforeCall
  <2>2. ASSUME NEW p \in {"send", "queue"}, NEW h, call' = [call EXCEPT ![c].pc = p, ![c].probe = h]
        PROVE  ShownIsStream' /\ Stays
    <3> DEFINE r == [call[c] EXCEPT !.pc = p, !.probe = h]
    <3>1. call' = [call EXCEPT ![c] = r]
      BY <2>2
    <3>2. ~r.emitted /\ r.pc = p
      BY <2>1 DEF Call
    <3> HIDE DEF r
    <3> QED BY <1>2, <2>1, <2>2, <3>1, <3>2
  <2> QED BY <1>5, <2>2, CandidateShown DEF BeforeCall
<1>6. ASSUME NEW c \in Calls, AcquireSlot(c) PROVE ShownIsStream' /\ Stays
  <2> DEFINE r == [call[c] EXCEPT !.pc = "send"]
  <2>1. call[c].pc # "stream" /\ ~call[c].emitted /\ call[c] \in Call /\ call' = [call EXCEPT ![c] = r]
    BY <1>1, <1>3, <1>6 DEF AcquireSlot
  <2>2. ~r.emitted /\ r.pc = "send"
    BY <2>1 DEF Call
  <2> HIDE DEF r
  <2> QED BY <1>2, <2>1, <2>2
<1>7. ASSUME NEW c \in Calls, AttemptFails(c) PROVE ShownIsStream' /\ Stays
  <2> DEFINE r == [call[c] EXCEPT !.attempt = @ + 1]
  <2>1. call[c].pc # "stream" /\ ~call[c].emitted /\ call[c] \in Call
    BY <1>1, <1>3, <1>7 DEF AttemptFails
  <2>2. ~r.emitted /\ r.pc = call[c].pc
    BY <2>1 DEF Call
  <2>3. NextCandidate(c) \/ call' = [call EXCEPT ![c] = r]
    BY <1>7 DEF AttemptFails
  <2> HIDE DEF r
  <2> QED BY <1>2, <2>1, <2>2, <2>3, CandidateShown
<1>8. ASSUME NEW c \in Calls, OpenStream(c) PROVE ShownIsStream' /\ Stays
  <2> DEFINE r == [call[c] EXCEPT !.pc = "stream"]
  <2>1. ~call[c].emitted /\ call[c] \in Call /\ call' = [call EXCEPT ![c] = r]
    BY <1>1, <1>3, <1>8 DEF OpenStream
  <2>2. ~r.emitted /\ r.streaming
    BY <1>8, <2>1 DEF Call, OpenStream
  <2>3. call[c].pc # "stream"
    BY <1>8 DEF OpenStream
  <2> HIDE DEF r
  <2> QED BY <1>2, <2>1, <2>2, <2>3
<1>9. ASSUME NEW c \in Calls, Emit(c) PROVE ShownIsStream' /\ Stays
  <2> DEFINE r == [call[c] EXCEPT !.emitted = TRUE]
  <2>1. call[c] \in Call /\ call' = [call EXCEPT ![c] = r] /\ call[c].pc = "stream"
    BY <1>1, <1>9 DEF Emit
  <2>5. call[c].streaming
    BY <2>1 DEF ShownIsStream
  <2>2. r.pc = "stream" /\ r.streaming = call[c].streaming
    BY <2>1 DEF Call
  <2>3. call[c].emitted => r = call[c]
    BY <2>1 DEF Call
  <2> HIDE DEF r
  <2>4. call'[c] = r /\ \A d \in Calls \ {c} : call'[d] = call[d]
    BY <1>1, <2>1
  <2> QED BY <2>2, <2>3, <2>4, <2>5, OneCall
<1>10. ASSUME NEW c \in Calls, Deadline(c) PROVE ShownIsStream' /\ Stays
  <2> DEFINE r == [call[c] EXCEPT !.pc = "overdue"]
  <2>1. CASE call[c].streaming
    BY <1>10, <2>1, CandidateShown DEF Deadline
  <2>2. CASE ~call[c].streaming
    <3>1. ~call[c].emitted /\ call[c] \in Call /\ call' = [call EXCEPT ![c] = r]
      BY <1>1, <1>10, <2>2 DEF Deadline, ShownIsStream
    <3>2. ~r.emitted /\ r.pc = "overdue"
      BY <3>1 DEF Call
    <3> HIDE DEF r
    <3>3. call'[c] = r /\ \A d \in Calls \ {c} : call'[d] = call[d]
      BY <1>1, <3>1
    <3> QED BY <3>1, <3>2, <3>3, OneCall
  <2> QED BY <2>1, <2>2
<1>11. ASSUME UNCHANGED call PROVE ShownIsStream' /\ Stays
  BY <1>11 DEF ShownIsStream, Stays
<1>12. ASSUME NEW c \in Calls, Waiting(c) \/ Working(c) PROVE ShownIsStream' /\ Stays
  <2>1. CASE BulkheadReject(c) \/ RecordOverdue(c) \/ Answered(c) \/ StreamEnds(c) \/ StreamBreaks(c) \/ Cancel(c)
    <3>1. NextCandidate(c) \/ End(c)
      BY <2>1 DEF BulkheadReject, RecordOverdue, Answered, StreamEnds, StreamBreaks, Cancel
    <3> QED BY <3>1, CandidateShown
  <2> QED BY <1>5, <1>6, <1>7, <1>8, <1>9, <1>10, <1>12, <2>1 DEF Waiting, Working
<1>13. ASSUME NEW c \in Calls, NEW m \in 1 .. Models, NEW s \in BOOLEAN, Start(c, m, s)
       PROVE  ShownIsStream' /\ Stays
  BY <1>4, <1>13
<1>14. CASE \E m \in 1 .. Models : Elapse(m)
  BY <1>11, <1>14 DEF Elapse
<1>15. CASE UNCHANGED upstreamVars
  BY <1>11, <1>15 DEF upstreamVars
<1> QED BY <1>12, <1>13, <1>14, <1>15 DEF UpstreamNext

\* What has reached the client is not said again by another attempt or model.
THEOREM UpstreamNeverRestarts == UpstreamSpec => NeverRestarted
<1>1. UpstreamInit => ShownIsStream
  BY DEF UpstreamInit, ShownIsStream, NoCall
<1>2. SlotsKept /\ ShownIsStream /\ [UpstreamNext]_upstreamVars
        => ShownIsStream' /\ (\A c \in Calls : call[c].emitted /\ call'[c] # call[c] => call'[c] = NoCall)
  BY ShownStep DEF Stays
<1> QED BY <1>1, <1>2, UpstreamStart, UpstreamStep, PTL DEF UpstreamSpec, NeverRestarted

-----------------------------------------------------------------------------
(* The budgets of a chat request.                                           *)

\* The calls of the turn that are started or will never be.
Begun == IF chat.pc = "tool" THEN chat.done
         ELSE IF chat.pc = "running" THEN chat.done + 1 ELSE Len(chat.turn)
Places(turn, s, from) == {i \in from .. Len(turn) : turn[i] = s}
Ahead(s) == Places(chat.turn, s, Begun + 1)

\* A turn is charged as a whole before its first call: what was started and what
\* waits is within what was charged, in all and for each signature.
Charged ==
  /\ started + (Len(chat.turn) - Begun) <= chat.calls
  /\ \A s \in Internal : ran[s] + Cardinality(Ahead(s)) <= chat.counts[s]

BudgetsInvariant ==
  /\ chat \in Chat
  /\ asked = chat.iteration /\ started \in Nat /\ ran \in [Internal -> Nat]
  /\ chat.pc \in {"model", "buffer", "turn"} => chat.done = 0
  /\ chat.pc \in {"tool", "running"} => \A i \in 1 .. Len(chat.turn) : chat.turn[i] \in Internal
  /\ Begun <= Len(chat.turn)
  /\ Charged

LEMMA TurnLength ==
  ASSUME NEW turn \in Turns
  PROVE  Len(turn) \in 0 .. MaxTurn /\ DOMAIN turn = 1 .. Len(turn) /\ turn \in Seq(Signatures)
<1>1. PICK m \in 0 .. MaxTurn : turn \in [1 .. m -> Signatures]
  BY DEF Turns, SeqOf
<1>2. turn \in Seq(Signatures)
  BY <1>1, SeqDef
<1>3. DOMAIN turn = 1 .. m
  BY <1>1
<1>4. DOMAIN turn = 1 .. Len(turn) /\ Len(turn) \in Nat
  BY <1>2, LenProperties
<1>5. Len(turn) = m
  BY <1>1, <1>3, <1>4
<1> QED BY <1>1, <1>2, <1>4, <1>5

LEMMA EmptyTurn == <<>> \in Turns
<1>1. MaxTurn \in Nat \ {0}
  BY OrchestratorAssumption
<1>2. 0 \in 0 .. MaxTurn /\ <<>> \in [1 .. 0 -> Signatures]
  BY <1>1
<1> QED BY <1>2 DEF Turns, SeqOf

\* Calls of a turn can be counted.
LEMMA PlacesCounted ==
  ASSUME NEW turn, NEW s, NEW from \in Nat, Len(turn) \in Nat
  PROVE  IsFiniteSet(Places(turn, s, from)) /\ Cardinality(Places(turn, s, from)) \in Nat
<1>1. IsFiniteSet(from .. Len(turn)) /\ Places(turn, s, from) \subseteq from .. Len(turn)
  BY FS_Interval DEF Places
<1>2. IsFiniteSet(Places(turn, s, from))
  BY <1>1, FS_Subset
<1> QED BY <1>2, FS_CardinalityType

LEMMA OccursCounted ==
  ASSUME DOMAIN chat.turn = 1 .. Len(chat.turn), Len(chat.turn) \in Nat, NEW s
  PROVE  Occurs(s) = Cardinality(Places(chat.turn, s, 1)) /\ Occurs(s) \in Nat
<1>1. {i \in DOMAIN chat.turn : chat.turn[i] = s} = Places(chat.turn, s, 1)
  BY DEF Places
<1>2. Occurs(s) = Cardinality(Places(chat.turn, s, 1))
  BY <1>1 DEF Occurs
<1> QED BY <1>2, PlacesCounted

\* What waits after the next call.
LEMMA OneFewer ==
  ASSUME NEW turn, Len(turn) \in Nat, NEW k \in Nat, k < Len(turn), NEW s
  PROVE  Cardinality(Places(turn, s, k + 2))
           = Cardinality(Places(turn, s, k + 1)) - (IF turn[k + 1] = s THEN 1 ELSE 0)
<1>1. /\ IsFiniteSet(Places(turn, s, k + 1)) /\ Cardinality(Places(turn, s, k + 1)) \in Nat
      /\ Cardinality(Places(turn, s, k + 2)) \in Nat
  BY PlacesCounted
<1>2. CASE turn[k + 1] = s
  <2>1. Places(turn, s, k + 2) = Places(turn, s, k + 1) \ {k + 1} /\ k + 1 \in Places(turn, s, k + 1)
    BY <1>2 DEF Places
  <2>2. Cardinality(Places(turn, s, k + 2)) = Cardinality(Places(turn, s, k + 1)) - 1
    BY <1>1, <2>1, FS_RemoveElement
  <2> QED BY <1>2, <2>2
<1>3. CASE turn[k + 1] # s
  <2>1. Places(turn, s, k + 2) = Places(turn, s, k + 1)
    BY <1>3 DEF Places
  <2> QED BY <1>1, <1>3, <2>1
<1> QED BY <1>2, <1>3

LEMMA BudgetFacts ==
  ASSUME BudgetsInvariant
  PROVE  /\ Len(chat.turn) \in 0 .. MaxTurn /\ DOMAIN chat.turn = 1 .. Len(chat.turn)
         /\ Begun \in Nat /\ chat.done \in Nat /\ chat.calls \in Nat /\ chat.turn \in Turns
         /\ \A s : Cardinality(Ahead(s)) \in Nat
         /\ MaxTurn \in Nat /\ MaxToolCalls \in Nat /\ MaxRepeated \in Nat /\ MaxIterations \in Nat
<1>1. MaxTurn \in Nat /\ MaxToolCalls \in Nat /\ MaxRepeated \in Nat /\ MaxIterations \in Nat
  BY OrchestratorAssumption
<1>2. chat.turn \in Turns /\ chat.done \in Nat /\ chat.calls \in Nat
  BY <1>1 DEF BudgetsInvariant, Chat
<1>3. Len(chat.turn) \in 0 .. MaxTurn /\ DOMAIN chat.turn = 1 .. Len(chat.turn)
  BY <1>2, TurnLength
<1>4. Begun \in Nat
  BY <1>1, <1>2, <1>3 DEF Begun
<1>5. \A s : Cardinality(Ahead(s)) \in Nat
  BY <1>1, <1>3, <1>4, PlacesCounted DEF Ahead
<1> QED BY <1>1, <1>2, <1>3, <1>4, <1>5

\* To a place where nothing of the turn will be started any more.
LEMMA GoesBeyond ==
  ASSUME BudgetsInvariant, NEW p \in {"loop", "yield", "answered", "error", "buffer", "turn"},
         p \in {"buffer", "turn"} => chat.done = 0,
         Go(p), UNCHANGED <<asked, ran, started>>
  PROVE  BudgetsInvariant'
<1>1. /\ chat' \in Chat /\ chat'.pc = p /\ chat'.turn = chat.turn /\ chat'.done = chat.done
      /\ chat'.calls = chat.calls /\ chat'.counts = chat.counts /\ chat'.iteration = chat.iteration
  BY DEF Go, BudgetsInvariant, Chat
<1>2. Begun' = Len(chat.turn)
  BY <1>1 DEF Begun
<1>3. \A s : Ahead(s)' = {}
  BY <1>1, <1>2, BudgetFacts DEF Ahead, Places
<1>4. Charged'
  <2>1. started' + (Len(chat'.turn) - Begun') <= chat'.calls
    <3>1. started <= chat.calls
      BY BudgetFacts DEF BudgetsInvariant, Charged
    <3>2. Len(chat'.turn) - Begun' = 0 /\ started' = started /\ chat'.calls = chat.calls
      BY <1>1, <1>2, BudgetFacts
    <3>3. started' \in Nat
      BY <3>2 DEF BudgetsInvariant
    <3> QED BY <3>1, <3>2, <3>3
  <2>2. ASSUME NEW s \in Internal PROVE ran'[s] + Cardinality(Ahead(s)') <= chat'.counts[s]
    <3>1. ran[s] + Cardinality(Ahead(s)) <= chat.counts[s] /\ ran[s] \in Nat /\ chat.counts[s] \in Nat
      BY DEF BudgetsInvariant, Charged, Chat
    <3>2. Cardinality(Ahead(s)') = 0
      BY <1>3, FS_EmptySet
    <3> QED BY <1>1, <3>1, <3>2, BudgetFacts
  <2> QED BY <2>1, <2>2 DEF Charged
<1> QED BY <1>1, <1>2, <1>4, BudgetFacts DEF BudgetsInvariant

LEMMA TurnAnswered ==
  ASSUME BudgetsInvariant, NEW turn \in Turns, ModelAnswers(turn)
  PROVE  BudgetsInvariant'
<1>1. /\ chat' \in Chat /\ chat'.pc = "turn" /\ chat'.turn = turn /\ chat'.done = chat.done
      /\ chat'.calls = chat.calls /\ chat'.counts = chat.counts /\ chat'.iteration = chat.iteration
      /\ chat.done = 0 /\ UNCHANGED <<asked, ran, started>>
      /\ chat.pc \in {"model", "buffer"}
  BY DEF ModelAnswers, BudgetsInvariant, Chat
<1>2. Begun' = Len(turn) /\ Len(turn) \in Nat /\ MaxTurn \in Nat
  BY <1>1, TurnLength, BudgetFacts DEF Begun
<1>3. \A s : Ahead(s)' = {}
  BY <1>1, <1>2 DEF Ahead, Places
<1>4. Charged'
  <2>1. started <= chat.calls
    BY BudgetFacts DEF BudgetsInvariant, Charged
  <2>2. started' + (Len(chat'.turn) - Begun') <= chat'.calls
    BY <1>1, <1>2, <2>1, BudgetFacts DEF BudgetsInvariant
  <2>3. ASSUME NEW s \in Internal PROVE ran'[s] + Cardinality(Ahead(s)') <= chat'.counts[s]
    <3>1. ran[s] + Cardinality(Ahead(s)) <= chat.counts[s] /\ ran[s] \in Nat /\ chat.counts[s] \in Nat
      BY DEF BudgetsInvariant, Charged, Chat
    <3>2. Cardinality(Ahead(s)') = 0
      BY <1>3, FS_EmptySet
    <3> QED BY <1>1, <3>1, <3>2, BudgetFacts
  <2> QED BY <2>2, <2>3 DEF Charged
<1> QED BY <1>1, <1>2, <1>4 DEF BudgetsInvariant

LEMMA AskKeeps ==
  ASSUME BudgetsInvariant, Ask
  PROVE  BudgetsInvariant'
<1>1. CASE Go("error")
  <2>1. asked' = asked
    BY <1>1 DEF Ask, Go, MayIterate, BudgetsInvariant, Chat
  <2> QED BY <1>1, <2>1, GoesBeyond DEF Ask
<1>2. CASE /\ MayIterate /\ asked' = asked + 1
           /\ chat' = [chat EXCEPT !.pc = "model", !.iteration = @ + 1, !.turn = <<>>, !.done = 0]
  <2>1. chat.iteration + 1 \in 0 .. MaxIterations /\ 0 \in 0 .. MaxTurn /\ <<>> \in Turns
    BY <1>2, BudgetFacts, EmptyTurn DEF MayIterate, BudgetsInvariant, Chat
  <2>2. /\ chat' \in Chat /\ chat'.pc = "model" /\ chat'.turn = <<>> /\ chat'.done = 0
        /\ chat'.calls = chat.calls /\ chat'.counts = chat.counts
        /\ chat'.iteration = chat.iteration + 1 /\ UNCHANGED <<ran, started>>
    BY <1>2, <2>1 DEF Ask, BudgetsInvariant, Chat
  <2>3. Begun' = 0 /\ Len(chat'.turn) = 0
    BY <2>2 DEF Begun
  <2>4. \A s : Ahead(s)' = {}
    BY <2>2, <2>3 DEF Ahead, Places
  <2>5. Charged'
    <3>1. started <= chat.calls
      BY BudgetFacts DEF BudgetsInvariant, Charged
    <3>2. started' + (Len(chat'.turn) - Begun') <= chat'.calls
      BY <2>2, <2>3, <3>1, BudgetFacts DEF BudgetsInvariant
    <3>3. ASSUME NEW s \in Internal PROVE ran'[s] + Cardinality(Ahead(s)') <= chat'.counts[s]
      <4>1. ran[s] + Cardinality(Ahead(s)) <= chat.counts[s] /\ ran[s] \in Nat /\ chat.counts[s] \in Nat
        BY DEF BudgetsInvariant, Charged, Chat
      <4>2. Cardinality(Ahead(s)') = 0 /\ Cardinality(Ahead(s)) \in Nat
        BY <2>4, FS_EmptySet, BudgetFacts
      <4>3. ran'[s] = ran[s] /\ chat'.counts[s] = chat.counts[s]
        BY <2>2
      <4> QED BY <4>1, <4>2, <4>3
    <3> QED BY <3>2, <3>3 DEF Charged
  <2> QED BY <1>2, <2>2, <2>3, <2>5 DEF BudgetsInvariant
<1> QED BY <1>1, <1>2 DEF Ask

\* A turn with a call for the gateway that is not refused has no other calls.
LEMMA OnlyInternal ==
  ASSUME NEW turn \in Turns, chat.turn = turn, ~Refused, ~Final
  PROVE  \A i \in 1 .. Len(turn) : turn[i] \in Internal
<1>1. DOMAIN turn = 1 .. Len(turn) /\ Len(turn) \in Nat /\ turn \in Seq(Signatures)
  BY TurnLength, OrchestratorAssumption
<1>2. TAKE i \in 1 .. Len(turn)
<1>3. turn[i] \in Signatures
  BY <1>1, <1>2, ElementOfSeq
<1>4. ASSUME NEW s, turn[i] = s PROVE Occurs(s) > 0
  <2> DEFINE S == {j \in DOMAIN chat.turn : chat.turn[j] = s}
  <2>1. i \in S
    BY <1>1, <1>2, <1>4
  <2>2. IsFiniteSet(1 .. Len(turn))
    BY <1>1, FS_Interval
  <2>3. IsFiniteSet(S)
    BY <1>1, <2>2, FS_Subset
  <2>4. Cardinality(S) # 0 /\ Cardinality(S) \in Nat
    BY <2>1, <2>3, FS_EmptySet, FS_CardinalityType
  <2> QED BY <2>4 DEF Occurs
<1>5. turn[i] # "unsupported"
  BY <1>4 DEF Refused
<1>6. HasInternal
  BY DEF Final
<1>7. turn[i] # "external"
  BY <1>4, <1>6 DEF Refused, HasExternal
<1> QED BY <1>3, <1>5, <1>7 DEF Signatures

LEMMA DecideKeeps ==
  ASSUME BudgetsInvariant, Decide
  PROVE  BudgetsInvariant'
<1>1. chat.pc = "turn" /\ UNCHANGED <<asked, ran, started>>
  BY DEF Decide
<1>2. CASE \E p \in {"error", "yield", "answered"} : Go(p)
  BY <1>1, <1>2, GoesBeyond
<1> DEFINE calls == chat.calls + Len(chat.turn)
           counts == [s \in Internal |-> chat.counts[s] + Occurs(s)]
<1>3. CASE /\ ~Refused /\ ~Final /\ WithinBudgets
           /\ chat' = [chat EXCEPT !.pc = "tool", !.calls = calls, !.counts = counts]
  <2>1. /\ calls \in 0 .. MaxToolCalls /\ \A s : Occurs(s) \in Nat
        /\ \A s \in Internal : chat.counts[s] \in Nat /\ chat.counts[s] + Occurs(s) \in 0 .. MaxRepeated
    <3>1. \A s : Occurs(s) \in Nat
      BY BudgetFacts, OccursCounted
    <3>2. \A s \in Internal : chat.counts[s] \in Nat
      BY DEF BudgetsInvariant, Chat
    <3>3. calls \in 0 .. MaxToolCalls
      <4>1. chat.calls \in Nat /\ Len(chat.turn) \in Nat /\ MaxToolCalls \in Nat
        BY BudgetFacts
      <4>2. calls <= MaxToolCalls
        BY <1>3 DEF WithinBudgets
      <4> QED BY <4>1, <4>2
    <3>4. ASSUME NEW s \in Internal PROVE chat.counts[s] + Occurs(s) \in 0 .. MaxRepeated
      <4>1. chat.counts[s] + Occurs(s) <= MaxRepeated /\ MaxRepeated \in Nat
        BY <1>3, BudgetFacts DEF WithinBudgets
      <4> QED BY <3>1, <3>2, <4>1
    <3> QED BY <3>1, <3>2, <3>3, <3>4
  <2>2. counts \in [Internal -> 0 .. MaxRepeated]
    BY <2>1
  <2>3. \A s \in Internal : counts[s] = chat.counts[s] + Occurs(s)
    OBVIOUS
  <2> HIDE DEF counts
  <2>4. /\ chat' \in Chat /\ chat'.pc = "tool" /\ chat'.turn = chat.turn /\ chat'.done = 0
        /\ chat'.calls = calls /\ chat'.counts = counts /\ chat'.iteration = chat.iteration
    BY <1>1, <1>3, <2>1, <2>2 DEF BudgetsInvariant, Chat
  <2>5. Begun' = 0 /\ Begun = Len(chat.turn)
    BY <1>1, <2>4 DEF Begun
  <2>6. \A s : Cardinality(Ahead(s)') = Occurs(s)
    BY <2>4, <2>5, BudgetFacts, OccursCounted DEF Ahead
  <2>7. Charged'
    <3>1. started <= chat.calls
      BY <2>5, BudgetFacts DEF BudgetsInvariant, Charged
    <3>2. started' + (Len(chat'.turn) - Begun') <= chat'.calls
      BY <1>1, <2>4, <2>5, <3>1, BudgetFacts DEF BudgetsInvariant
    <3>3. ASSUME NEW s \in Internal PROVE ran'[s] + Cardinality(Ahead(s)') <= chat'.counts[s]
      <4>1. ran[s] + Cardinality(Ahead(s)) <= chat.counts[s] /\ ran[s] \in Nat
        BY DEF BudgetsInvariant, Charged
      <4>2. Cardinality(Ahead(s)) \in Nat
        BY BudgetFacts
      <4>3. ran[s] <= chat.counts[s]
        BY <2>1, <4>1, <4>2
      <4> QED BY <1>1, <2>1, <2>3, <2>4, <2>6, <4>1, <4>3
    <3> QED BY <3>2, <3>3 DEF Charged
  <2>8. \A i \in 1 .. Len(chat'.turn) : chat'.turn[i] \in Internal
    BY <1>3, <2>4, OnlyInternal, BudgetFacts
  <2>9. Begun' <= Len(chat'.turn)
    BY <2>4, <2>5, BudgetFacts
  <2> QED BY <1>1, <2>4, <2>7, <2>8, <2>9 DEF BudgetsInvariant
<1> QED BY <1>2, <1>3 DEF Decide

LEMMA StartKeeps ==
  ASSUME BudgetsInvariant, StartTool
  PROVE  BudgetsInvariant'
<1>1. chat.pc = "tool" /\ asked' = asked /\ Begun = chat.done
  BY DEF StartTool, Begun
<1>2. CASE \E p \in {"loop", "error"} : Go(p) /\ UNCHANGED <<ran, started>>
  BY <1>1, <1>2, GoesBeyond
<1> DEFINE next == chat.turn[chat.done + 1]
<1>3. CASE /\ chat.done # Len(chat.turn) /\ Go("running") /\ started' = started + 1
           /\ ran' = [ran EXCEPT ![next] = @ + 1]
  <2>1. /\ chat' \in Chat /\ chat'.pc = "running" /\ chat'.turn = chat.turn /\ chat'.done = chat.done
        /\ chat'.calls = chat.calls /\ chat'.counts = chat.counts /\ chat'.iteration = chat.iteration
    BY <1>1, <1>3 DEF Go, BudgetsInvariant, Chat
  <2>2. chat.done < Len(chat.turn) /\ Begun' = chat.done + 1
    BY <1>1, <1>3, <2>1, BudgetFacts DEF BudgetsInvariant, Begun
  <2>3. next \in Internal
    BY <1>1, <2>2, BudgetFacts DEF BudgetsInvariant
  <2>4. \A s : Cardinality(Ahead(s)') = Cardinality(Ahead(s)) - (IF next = s THEN 1 ELSE 0)
    <3> TAKE s
    <3>1. Cardinality(Places(chat.turn, s, chat.done + 2))
            = Cardinality(Places(chat.turn, s, chat.done + 1)) - (IF next = s THEN 1 ELSE 0)
      BY <2>2, BudgetFacts, OneFewer
    <3>2. Begun' + 1 = chat.done + 2
      BY <2>2, BudgetFacts
    <3> QED BY <1>1, <2>1, <3>1, <3>2 DEF Ahead
  <2>5. /\ ran' \in [Internal -> Nat] /\ started' \in Nat
        /\ \A s \in Internal : ran'[s] = ran[s] + (IF next = s THEN 1 ELSE 0)
    BY <1>3, <2>3 DEF BudgetsInvariant
  <2>6. Charged'
    <3>1. started + (Len(chat.turn) - chat.done) <= chat.calls /\ started \in Nat
      BY <1>1 DEF BudgetsInvariant, Charged
    <3>2. Len(chat.turn) \in Nat /\ chat.done \in Nat /\ chat.calls \in Nat
      BY BudgetFacts
    <3>3. (started + 1) + (Len(chat.turn) - (chat.done + 1)) <= chat.calls
      BY <3>1, <3>2
    <3>4. started' + (Len(chat'.turn) - Begun') <= chat'.calls
      BY <1>3, <2>1, <2>2, <3>3
    <3>5. ASSUME NEW s \in Internal PROVE ran'[s] + Cardinality(Ahead(s)') <= chat'.counts[s]
      <4>1. /\ ran[s] + Cardinality(Ahead(s)) <= chat.counts[s]
            /\ ran[s] \in Nat /\ Cardinality(Ahead(s)) \in Nat /\ chat.counts[s] \in Nat
        BY BudgetFacts DEF BudgetsInvariant, Charged, Chat
      <4> QED BY <2>1, <2>4, <2>5, <4>1
    <3> QED BY <3>4, <3>5 DEF Charged
  <2> QED BY <1>1, <2>1, <2>2, <2>5, <2>6, BudgetFacts DEF BudgetsInvariant
<1> QED BY <1>2, <1>3 DEF StartTool

LEMMA ReturnKeeps ==
  ASSUME BudgetsInvariant, ToolReturns
  PROVE  BudgetsInvariant'
<1>1. chat.pc = "running" /\ UNCHANGED <<asked, ran, started>> /\ Begun = chat.done + 1
  BY DEF ToolReturns, Begun
<1>2. chat.done + 1 \in 0 .. MaxTurn
  BY <1>1, BudgetFacts DEF BudgetsInvariant
<1>3. /\ chat' \in Chat /\ chat'.pc = "tool" /\ chat'.turn = chat.turn /\ chat'.done = chat.done + 1
      /\ chat'.calls = chat.calls /\ chat'.counts = chat.counts /\ chat'.iteration = chat.iteration
  BY <1>2 DEF ToolReturns, BudgetsInvariant, Chat
<1>4. Begun' = Begun
  BY <1>1, <1>3 DEF Begun
<1> QED BY <1>1, <1>3, <1>4 DEF BudgetsInvariant, Charged, Ahead

LEMMA BudgetsStep == BudgetsInvariant /\ [ChatNext]_chatVars => BudgetsInvariant'
<1> SUFFICES ASSUME BudgetsInvariant, [ChatNext]_chatVars PROVE BudgetsInvariant'
  OBVIOUS
<1>1. CASE StreamBegins \/ ModelFails \/ ToolTimesOut \/ Yield
  <2>1. CASE StreamBegins
    BY <2>1, GoesBeyond DEF StreamBegins, BudgetsInvariant
  <2>2. CASE ModelFails \/ ToolTimesOut
    BY <2>2, GoesBeyond DEF ModelFails, ToolTimesOut
  <2>3. CASE Yield
    BY <2>3, GoesBeyond DEF Yield
  <2> QED BY <1>1, <2>1, <2>2, <2>3
<1>2. CASE ClockRunsOut \/ UNCHANGED chatVars
  <2>1. /\ chat' \in Chat /\ chat'.pc = chat.pc /\ chat'.turn = chat.turn /\ chat'.done = chat.done
        /\ chat'.calls = chat.calls /\ chat'.counts = chat.counts /\ chat'.iteration = chat.iteration
        /\ UNCHANGED <<asked, ran, started>>
    BY <1>2 DEF ClockRunsOut, chatVars, BudgetsInvariant, Chat
  <2>2. Begun' = Begun
    BY <2>1 DEF Begun
  <2> QED BY <2>1, <2>2 DEF BudgetsInvariant, Charged, Ahead
<1> QED BY <1>1, <1>2, AskKeeps, TurnAnswered, DecideKeeps, StartKeeps, ReturnKeeps DEF ChatNext

LEMMA BudgetsStart == ChatInit => BudgetsInvariant
<1> SUFFICES ASSUME ChatInit PROVE BudgetsInvariant
  OBVIOUS
<1> DEFINE none == [t \in Internal |-> 0]
<1>1. /\ MaxTurn \in Nat /\ MaxToolCalls \in Nat /\ MaxRepeated \in Nat /\ MaxIterations \in Nat
      /\ <<>> \in Turns
  BY OrchestratorAssumption, EmptyTurn
<1>2. none \in [Internal -> 0 .. MaxRepeated] /\ none \in [Internal -> Nat]
  BY <1>1
<1>3. \A s \in Internal : none[s] = 0
  OBVIOUS
<1>4. PICK s \in BOOLEAN : chat = [pc |-> "loop", streaming |-> s, iteration |-> 0, turn |-> <<>>,
                                   done |-> 0, calls |-> 0, counts |-> none, overdue |-> FALSE]
  BY DEF ChatInit
<1>5. asked = 0 /\ started = 0 /\ ran = none
  BY DEF ChatInit
<1> HIDE DEF none
<1>6. chat \in Chat
  BY <1>1, <1>2, <1>4 DEF Chat
<1>7. Begun = 0 /\ Len(chat.turn) = 0
  BY <1>4 DEF Begun
<1>8. \A t : Cardinality(Ahead(t)) = 0
  <2>1. \A t : Ahead(t) = {}
    BY <1>4, <1>7 DEF Ahead, Places
  <2> QED BY <2>1, FS_EmptySet
<1> QED BY <1>2, <1>3, <1>4, <1>5, <1>6, <1>7, <1>8 DEF BudgetsInvariant, Charged

LEMMA BudgetsFollow == BudgetsInvariant => BudgetsHeld
<1> SUFFICES ASSUME BudgetsInvariant PROVE BudgetsHeld
  OBVIOUS
<1>1. /\ chat \in Chat /\ asked <= MaxIterations /\ chat.calls <= MaxToolCalls
      /\ \A s \in Internal : chat.counts[s] \in 0 .. MaxRepeated
  BY BudgetFacts DEF BudgetsInvariant, Chat
<1>2. started <= MaxToolCalls
  BY <1>1, BudgetFacts DEF BudgetsInvariant, Charged
<1>3. ASSUME NEW s \in Internal PROVE ran[s] <= MaxRepeated
  <2>1. ran[s] + Cardinality(Ahead(s)) <= chat.counts[s] /\ ran[s] \in Nat
    BY DEF BudgetsInvariant, Charged
  <2> QED BY <1>1, <2>1, BudgetFacts
<1> QED BY <1>1, <1>2, <1>3 DEF BudgetsHeld

\* Whatever turns the model answers with, a chat request makes no more round trips,
\* starts no more tools and starts none more often than its budgets allow.
THEOREM ChatBudgetsHeld == ChatSpec => []BudgetsHeld
<1> QED BY BudgetsStart, BudgetsStep, BudgetsFollow, PTL DEF ChatSpec

-----------------------------------------------------------------------------
(* The events of a stream.                                                  *)

\* A set of numbers has a least one.
LEMMA LeastNumber ==
  ASSUME NEW S \in SUBSET Nat, S # {}
  PROVE  \E x \in S : \A y \in S : x <= y
<1>1. IsWellFoundedOn(OpToRel(<, Nat), Nat)
  BY NatLessThanWellFounded
<1>2. PICK x \in S : \A y \in S : <<y, x>> \notin OpToRel(<, Nat)
  BY <1>1, WFMin
<1>3. \A y \in S : ~ (y < x)
  BY <1>2 DEF OpToRel
<1> QED BY <1>3

BlockTypes == {"content_block_start", "content_block_delta", "content_block_stop"}
QuietTypes == {"message_start", "chunk", "response.created", "response.in_progress", "output_text.delta",
               "reasoning_summary_text.delta", "function_call_arguments.delta", "usage.delta",
               "response.completed"}

Events == [type : BlockTypes \cup QuietTypes \cup LastTypes \cup {"message_delta", "error"}, index : Nat]

\* The blocks started and stopped so far, and how many were started.
Opened(es) == {x \in Nat : Earlier(es, Len(es) + 1, "content_block_start", x) # {}}
Ended(es) == {x \in Nat : Earlier(es, Len(es) + 1, "content_block_stop", x) # {}}
BlockCount(es) == Cardinality(Starts(es, Len(es) + 1))

\* The event e may come next.
MayFollow(es, e) ==
  /\ e.type = "content_block_start" => e.index = BlockCount(es)
  /\ e.type \in {"content_block_delta", "content_block_stop"} => e.index \in Opened(es) /\ e.index \notin Ended(es)
  /\ e.type = "message_delta" => Opened(es) \subseteq Ended(es)

\* An event more at the end of the second part is one more at the end.
LEMMA AppendLast ==
  ASSUME NEW s \in Seq(Events), NEW t \in Seq(Events), NEW e \in Events
  PROVE  s \o Append(t, e) = Append(s \o t, e)
<1>1. <<e>> \in Seq(Events) /\ s \o t \in Seq(Events)
  BY ConcatProperties
<1>2. Append(t, e) = t \o <<e>> /\ Append(s \o t, e) = (s \o t) \o <<e>>
  BY <1>1, AppendIsConcat
<1> QED BY <1>1, <1>2, ConcatAssociative

\* What comes before is what it was.
LEMMA AppendedSame ==
  ASSUME NEW es \in Seq(Events), NEW e \in Events
  PROVE  /\ Append(es, e) \in Seq(Events) /\ Len(Append(es, e)) = Len(es) + 1
         /\ Append(es, e)[Len(es) + 1] = e
         /\ \A i \in 1 .. Len(es) : Append(es, e)[i] = es[i]
         /\ \A i \in 1 .. Len(es) + 1 :
              /\ Starts(Append(es, e), i) = Starts(es, i)
              /\ \A t, x : Earlier(Append(es, e), i, t, x) = Earlier(es, i, t, x)
<1> DEFINE f == Append(es, e)
<1>1. f \in Seq(Events) /\ Len(f) = Len(es) + 1 /\ f[Len(es) + 1] = e /\ Len(es) \in Nat
  OBVIOUS
<1>2. \A i \in 1 .. Len(es) : f[i] = es[i]
  OBVIOUS
<1> HIDE DEF f
<1>3. ASSUME NEW i \in 1 .. Len(es) + 1
      PROVE  /\ Starts(f, i) = Starts(es, i)
             /\ \A t, x : Earlier(f, i, t, x) = Earlier(es, i, t, x)
  <2>1. \A j \in 1 .. (i - 1) : f[j] = es[j]
    BY <1>1, <1>2
  <2> QED BY <2>1 DEF Starts, Earlier
<1> QED BY <1>1, <1>2, <1>3 DEF f

LEMMA StartsFinite ==
  ASSUME NEW es, NEW i \in Nat \ {0}
  PROVE  IsFiniteSet(Starts(es, i)) /\ Cardinality(Starts(es, i)) \in Nat
<1>1. IsFiniteSet(1 .. (i - 1))
  <2>1. 1 \in Int /\ i - 1 \in Int
    OBVIOUS
  <2> QED BY <2>1, FS_Interval
<1>2. Starts(es, i) \subseteq 1 .. (i - 1)
  BY DEF Starts
<1> QED BY <1>1, <1>2, FS_Subset, FS_CardinalityType

\* What an event adds to the blocks.
LEMMA AppendedBlocks ==
  ASSUME NEW es \in Seq(Events), NEW e \in Events
  PROVE  /\ BlockCount(es) \in Nat
         /\ Opened(Append(es, e)) = Opened(es) \cup (IF e.type = "content_block_start" THEN {e.index} ELSE {})
         /\ Ended(Append(es, e)) = Ended(es) \cup (IF e.type = "content_block_stop" THEN {e.index} ELSE {})
         /\ BlockCount(Append(es, e)) = BlockCount(es) + (IF e.type = "content_block_start" THEN 1 ELSE 0)
<1> DEFINE f == Append(es, e)
           n == Len(es)
<1>1. n \in Nat /\ Len(f) = n + 1 /\ f[n + 1] = e /\ \A i \in 1 .. n : f[i] = es[i]
  BY AppendedSame
<1> HIDE DEF f, n
<1>2. 1 .. ((n + 2) - 1) = 1 .. ((n + 1) - 1) \cup {n + 1} /\ n + 1 \notin 1 .. ((n + 1) - 1)
      /\ \A j \in 1 .. ((n + 1) - 1) : f[j] = es[j]
  BY <1>1
<1>3. ASSUME NEW t, NEW x
      PROVE  Earlier(f, n + 2, t, x) = Earlier(es, n + 1, t, x) \cup (IF e = Event(t, x) THEN {n + 1} ELSE {})
  BY <1>1, <1>2 DEF Earlier
<1>4. Starts(f, n + 2) = Starts(es, n + 1) \cup (IF e.type = "content_block_start" THEN {n + 1} ELSE {})
  BY <1>1, <1>2 DEF Starts
<1>5. n + 1 \notin Starts(es, n + 1)
  BY <1>2 DEF Starts
<1>6. IsFiniteSet(Starts(es, n + 1)) /\ Cardinality(Starts(es, n + 1)) \in Nat
  BY <1>1, StartsFinite
<1>7. Cardinality(Starts(f, n + 2)) = Cardinality(Starts(es, n + 1)) + (IF e.type = "content_block_start" THEN 1 ELSE 0)
  <2>1. CASE e.type = "content_block_start"
    BY <1>4, <1>5, <1>6, <2>1, FS_AddElement
  <2>2. CASE e.type # "content_block_start"
    <3>1. Starts(f, n + 2) = Starts(es, n + 1)
      BY <1>4, <2>2
    <3> QED BY <1>6, <2>2, <3>1
  <2> QED BY <2>1, <2>2
<1>8. Len(f) + 1 = n + 2
  BY <1>1
<1>9. \A t, x : e = Event(t, x) <=> e.type = t /\ e.index = x
  BY DEF Events, Event
<1>10. e.index \in Nat
  BY DEF Events
<1>11. Opened(f) = Opened(es) \cup (IF e.type = "content_block_start" THEN {e.index} ELSE {})
  <2>1. \A x : Earlier(f, Len(f) + 1, "content_block_start", x) # {}
               <=> Earlier(es, Len(es) + 1, "content_block_start", x) # {} \/ (e.type = "content_block_start" /\ e.index = x)
    <3> TAKE x
    <3>1. /\ e = Event("content_block_start", x) <=> e.type = "content_block_start" /\ e.index = x
          /\ Earlier(f, n + 2, "content_block_start", x) = Earlier(es, n + 1, "content_block_start", x)
               \cup (IF e = Event("content_block_start", x) THEN {n + 1} ELSE {})
      BY <1>3, <1>9
    <3>2. Len(f) + 1 = n + 2 /\ Len(es) + 1 = n + 1
      BY <1>8 DEF n
    <3>3. Earlier(f, n + 2, "content_block_start", x) # {}
            <=> Earlier(es, n + 1, "content_block_start", x) # {} \/ e = Event("content_block_start", x)
      BY <3>1
    <3> QED BY <3>1, <3>2, <3>3
  <2> QED BY <1>10, <2>1 DEF Opened
<1>12. Ended(f) = Ended(es) \cup (IF e.type = "content_block_stop" THEN {e.index} ELSE {})
  <2>1. \A x : Earlier(f, Len(f) + 1, "content_block_stop", x) # {}
               <=> Earlier(es, Len(es) + 1, "content_block_stop", x) # {} \/ (e.type = "content_block_stop" /\ e.index = x)
    <3> TAKE x
    <3>1. /\ e = Event("content_block_stop", x) <=> e.type = "content_block_stop" /\ e.index = x
          /\ Earlier(f, n + 2, "content_block_stop", x) = Earlier(es, n + 1, "content_block_stop", x)
               \cup (IF e = Event("content_block_stop", x) THEN {n + 1} ELSE {})
      BY <1>3, <1>9
    <3>2. Len(f) + 1 = n + 2 /\ Len(es) + 1 = n + 1
      BY <1>8 DEF n
    <3>3. Earlier(f, n + 2, "content_block_stop", x) # {}
            <=> Earlier(es, n + 1, "content_block_stop", x) # {} \/ e = Event("content_block_stop", x)
      BY <3>1
    <3> QED BY <3>1, <3>2, <3>3
  <2> QED BY <1>10, <2>1 DEF Ended
<1>13. BlockCount(f) = BlockCount(es) + (IF e.type = "content_block_start" THEN 1 ELSE 0) /\ BlockCount(es) \in Nat
  BY <1>6, <1>7, <1>8 DEF BlockCount, n
<1> QED BY <1>11, <1>12, <1>13 DEF f

\* The events so far fit, and more may come.
Ongoing(es) == /\ es \in Seq(Events)
               /\ \A i \in DOMAIN es : Fits(es, i) /\ es[i].type \notin LastTypes

Flawless(es) == \A i \in DOMAIN es : es[i].type # "error"

\* An event that may follow makes no other event wrong.
LEMMA AppendedFits ==
  ASSUME NEW es, Ongoing(es), NEW e \in Events, MayFollow(es, e),
         Flawless(es) \/ e.type \in {"response.completed", "[DONE]"}
  PROVE  \A i \in DOMAIN Append(es, e) : Fits(Append(es, e), i)
<1> DEFINE f == Append(es, e)
           n == Len(es)
<1>0. es \in Seq(Events)
  BY DEF Ongoing
<1>1. /\ n \in Nat /\ f \in Seq(Events) /\ Len(f) = n + 1 /\ f[n + 1] = e /\ DOMAIN f = 1 .. n + 1
      /\ DOMAIN es = 1 .. n
      /\ \A i \in 1 .. n : f[i] = es[i]
      /\ \A i \in 1 .. n + 1 : Starts(f, i) = Starts(es, i) /\ \A t, x : Earlier(f, i, t, x) = Earlier(es, i, t, x)
  BY <1>0, AppendedSame, LenProperties
<1> HIDE DEF f, n
<1>2. ASSUME NEW i \in 1 .. n PROVE Fits(f, i)
  <2>1. Fits(es, i) /\ es[i].type \notin LastTypes
    BY <1>1 DEF Ongoing
  <2>2. /\ f[i] = es[i] /\ Starts(f, i) = Starts(es, i)
        /\ \A t, x : Earlier(f, i, t, x) = Earlier(es, i, t, x)
        /\ \A j \in Starts(es, i) : f[j] = es[j]
    BY <1>1 DEF Starts
  <2>3. ASSUME es[i].type = "error", NEW j \in (i + 1) .. Len(f)
        PROVE  f[j].type \in {"response.completed", "[DONE]"}
    <3>1. j \in (i + 1) .. n \/ j = n + 1
      BY <1>1
    <3>2. CASE j = n + 1
      BY <1>1, <2>3, <3>2 DEF Flawless
    <3>3. CASE j \in (i + 1) .. n
      <4>1. j \in (i + 1) .. Len(es) /\ f[j] = es[j]
        BY <1>1, <3>3 DEF n
      <4> QED BY <2>1, <2>3, <4>1 DEF Fits
    <3> QED BY <3>1, <3>2, <3>3
  <2> QED BY <2>1, <2>2, <2>3 DEF Fits
<1>3. Fits(f, n + 1)
  <2>1. n + 1 \in 1 .. n + 1 /\ n + 1 = Len(f) /\ (n + 1 + 1) .. Len(f) = {}
    BY <1>1
  <2>2. /\ Starts(f, n + 1) = Starts(es, n + 1)
        /\ \A t, x : Earlier(f, n + 1, t, x) = Earlier(es, n + 1, t, x)
    BY <1>1, <2>1
  <2>3. e.type = "content_block_start" => e.index = Cardinality(Starts(f, n + 1))
    BY <2>2 DEF MayFollow, BlockCount, n
  <2>4. e.type \in {"content_block_delta", "content_block_stop"} =>
          /\ Earlier(f, n + 1, "content_block_start", e.index) # {}
          /\ Earlier(f, n + 1, "content_block_stop", e.index) = {}
    <3>1. e.index \in Nat
      BY DEF Events
    <3> QED BY <2>2, <3>1 DEF MayFollow, Opened, Ended, n
  <2>5. ASSUME e.type = "message_delta", NEW j \in Starts(f, n + 1)
        PROVE  Earlier(f, n + 1, "content_block_stop", f[j].index) # {}
    <3>1. j \in 1 .. n /\ j \in 1 .. (n + 1 - 1) /\ f[j] = es[j] /\ es[j].type = "content_block_start" /\ es[j] \in Events
      BY <1>0, <1>1, <2>2, <2>5, ElementOfSeq DEF Starts, n
    <3>2. es[j] = Event("content_block_start", es[j].index) /\ es[j].index \in Nat
      BY <3>1 DEF Events, Event
    <3>3. es[j].index \in Opened(es)
      BY <3>1, <3>2 DEF Opened, Earlier, n
    <3>4. es[j].index \in Ended(es)
      BY <2>5, <3>3 DEF MayFollow
    <3> QED BY <2>2, <3>1, <3>4 DEF Ended, n
  <2> QED BY <1>1, <2>1, <2>3, <2>4, <2>5 DEF Fits
<1> QED BY <1>1, <1>2, <1>3 DEF f

\* More may come after an event that is not the last.
LEMMA AppendedOngoing ==
  ASSUME NEW es, Ongoing(es), NEW e \in Events, MayFollow(es, e), e.type \notin LastTypes,
         Flawless(es) \/ e.type = "response.completed"
  PROVE  /\ Ongoing(Append(es, e))
         /\ Flawless(es) /\ e.type # "error" => Flawless(Append(es, e))
<1> DEFINE f == Append(es, e)
<1>1. \A i \in DOMAIN f : Fits(f, i)
  BY AppendedFits
<1>2. es \in Seq(Events)
  BY DEF Ongoing
<1>3. /\ f \in Seq(Events) /\ DOMAIN f = 1 .. Len(es) + 1 /\ DOMAIN es = 1 .. Len(es) /\ Len(es) \in Nat
      /\ f[Len(es) + 1] = e /\ \A i \in 1 .. Len(es) : f[i] = es[i]
  BY <1>2, AppendedSame, LenProperties
<1> HIDE DEF f
<1>4. \A i \in DOMAIN f : i = Len(es) + 1 \/ i \in 1 .. Len(es)
  BY <1>3
<1>5. \A i \in DOMAIN f : f[i].type \notin LastTypes
  BY <1>3, <1>4 DEF Ongoing
<1>6. Flawless(es) /\ e.type # "error" => \A i \in DOMAIN f : f[i].type # "error"
  BY <1>3, <1>4 DEF Flawless
<1> QED BY <1>1, <1>3, <1>5, <1>6 DEF Ongoing, Flawless, f

-----------------------------------------------------------------------------
(* Anthropic content blocks.                                                *)

Slots == Nat \cup {d.index : d \in ToolDeltas}

BlockStates == [events : Seq(Events), next : Nat, open : {"none", "text", "thinking"},
                text : BOOLEAN, tools : Seq(Slots \X Nat)]

\* The blocks that are open: those of the tools, and the one of text or thinking.
OpenIn(b, x) == (b.open # "none" /\ x = b.next) \/ \E i \in DOMAIN b.tools : b.tools[i][2] = x

\* What the locals say of the blocks is what the client has seen of them.
BlocksAgree(b) ==
  /\ BlockCount(b.events) = b.next + (IF b.open = "none" THEN 0 ELSE 1)
  /\ \A x \in Nat : x \in Opened(b.events) <=> x < BlockCount(b.events)
  /\ \A x \in Nat : x \in Ended(b.events) <=> x \in Opened(b.events) /\ ~OpenIn(b, x)
  /\ \A i \in DOMAIN b.tools : b.tools[i][2] < b.next
  /\ \A i, j \in DOMAIN b.tools : b.tools[i][2] = b.tools[j][2] => i = j

BlocksSound(b) ==
  /\ b \in BlockStates
  /\ Ongoing(b.events) /\ Flawless(b.events)
  /\ BlocksAgree(b)

\* Sending an event of a block that may follow.
LEMMA SendKeeps ==
  ASSUME NEW b, b \in BlockStates, Ongoing(b.events), Flawless(b.events),
         NEW type \in BlockTypes, NEW index \in Nat, MayFollow(b.events, Event(type, index))
  PROVE  LET c == Send(b, type, index)
         IN /\ c \in BlockStates /\ Ongoing(c.events) /\ Flawless(c.events)
            /\ c.events = Append(b.events, Event(type, index))
            /\ c.next = b.next /\ c.open = b.open /\ c.text = b.text /\ c.tools = b.tools
<1> DEFINE c == Send(b, type, index)
           e == Event(type, index)
<1>1. e \in Events /\ e.type = type
  BY DEF Event, Events, BlockTypes
<1>2. /\ c.events = Append(b.events, e)
      /\ c.next = b.next /\ c.open = b.open /\ c.text = b.text /\ c.tools = b.tools
  BY DEF Send, BlockStates
<1>3. b.events \in Seq(Events)
  BY DEF BlockStates
<1>4. Append(b.events, e) \in Seq(Events)
  BY <1>1, <1>3, AppendedSame
<1>5. c \in BlockStates
  BY <1>4 DEF Send, BlockStates
<1> HIDE DEF c, e
<1>6. type \notin LastTypes /\ type # "error"
  BY DEF BlockTypes, LastTypes
<1>7. MayFollow(b.events, e)
  BY DEF e
<1>8. Ongoing(c.events) /\ Flawless(c.events)
  BY <1>1, <1>2, <1>6, <1>7, AppendedOngoing
<1> QED BY <1>2, <1>5, <1>8 DEF c, e

\* A block of text or thinking starts when no such block is open.
LEMMA BlockStartKeeps ==
  ASSUME NEW b, BlocksSound(b), b.open = "none", NEW kind \in {"text", "thinking"}
  PROVE  BlocksSound(BlockStart(b, kind)) /\ BlockStart(b, kind).open = kind
<1> DEFINE a == [b EXCEPT !.open = kind, !.text = @ \/ kind = "text"]
           e == Event("content_block_start", b.next)
           c == BlockStart(b, kind)
<1>1. a.events = b.events /\ a.next = b.next /\ a.open = kind /\ a.tools = b.tools /\ a \in BlockStates
  BY DEF BlocksSound, BlockStates
<1>2. b.next \in Nat /\ b.events \in Seq(Events) /\ Ongoing(b.events) /\ Flawless(b.events)
  BY DEF BlocksSound, BlockStates
<1>3. MayFollow(b.events, e)
  BY <1>2 DEF MayFollow, Event, BlocksSound, BlocksAgree
<1>4. c = Send(a, "content_block_start", b.next)
  BY DEF BlockStart
<1>5. e \in Events /\ e.type = "content_block_start" /\ e.index = b.next
  BY <1>2 DEF Event, Events, BlockTypes
<1> HIDE DEF a, c
<1>6. /\ c \in BlockStates /\ Ongoing(c.events) /\ Flawless(c.events)
      /\ c.events = Append(b.events, e)
      /\ c.next = b.next /\ c.open = kind /\ c.tools = b.tools
  BY <1>1, <1>2, <1>3, <1>4, SendKeeps DEF BlockTypes
<1> HIDE DEF e
<1>7. /\ BlockCount(c.events) = BlockCount(b.events) + 1 /\ BlockCount(b.events) \in Nat
      /\ Opened(c.events) = Opened(b.events) \cup {b.next} /\ Ended(c.events) = Ended(b.events)
  BY <1>2, <1>5, <1>6, AppendedBlocks
<1>8. BlocksAgree(c)
  BY <1>2, <1>6, <1>7 DEF BlocksSound, BlocksAgree, OpenIn
<1> QED BY <1>6, <1>8 DEF BlocksSound, c

\* The open block stops.
LEMMA BlockStopKeeps ==
  ASSUME NEW b, BlocksSound(b), b.open # "none"
  PROVE  BlocksSound(BlockStop(b)) /\ BlockStop(b).open = "none"
<1> DEFINE a == [b EXCEPT !.next = @ + 1, !.open = "none"]
           e == Event("content_block_stop", b.next)
           c == BlockStop(b)
<1>1. a.events = b.events /\ a.next = b.next + 1 /\ a.open = "none" /\ a.tools = b.tools /\ a \in BlockStates
  <2>1. b \in BlockStates /\ b.next + 1 \in Nat
    BY DEF BlocksSound, BlockStates
  <2> QED BY <2>1 DEF BlockStates
<1>2. b.next \in Nat /\ b.events \in Seq(Events) /\ Ongoing(b.events) /\ Flawless(b.events)
  BY DEF BlocksSound, BlockStates
<1>3. b.next \in Opened(b.events) /\ b.next \notin Ended(b.events)
  BY <1>2 DEF BlocksSound, BlocksAgree, OpenIn
<1>4. MayFollow(b.events, e)
  BY <1>3 DEF MayFollow, Event
<1>5. c = Send(a, "content_block_stop", b.next)
  BY DEF BlockStop
<1>6. e \in Events /\ e.type = "content_block_stop" /\ e.index = b.next
  BY <1>2 DEF Event, Events, BlockTypes
<1> HIDE DEF a, c
<1>7. /\ c \in BlockStates /\ Ongoing(c.events) /\ Flawless(c.events)
      /\ c.events = Append(b.events, e)
      /\ c.next = b.next + 1 /\ c.open = "none" /\ c.tools = b.tools
  BY <1>1, <1>2, <1>4, <1>5, SendKeeps DEF BlockTypes
<1> HIDE DEF e
<1>8. /\ BlockCount(c.events) = BlockCount(b.events) /\ BlockCount(b.events) \in Nat
      /\ Opened(c.events) = Opened(b.events) /\ Ended(c.events) = Ended(b.events) \cup {b.next}
  <2>1. BlockCount(c.events) = BlockCount(b.events) + 0 /\ BlockCount(b.events) \in Nat
    BY <1>2, <1>6, <1>7, AppendedBlocks
  <2> QED BY <1>2, <1>6, <1>7, <2>1, AppendedBlocks
<1>9. BlocksAgree(c)
  BY <1>2, <1>7, <1>8 DEF BlocksSound, BlocksAgree, OpenIn, BlockStates
<1> QED BY <1>7, <1>9 DEF BlocksSound, c

\* Whatever is open is closed, but for the tools.
LEMMA ClosedKeeps ==
  ASSUME NEW b, BlocksSound(b)
  PROVE  BlocksSound(Closed(b)) /\ Closed(b).open = "none"
  BY BlockStopKeeps DEF Closed

\* A delta goes to a block that is open.
LEMMA DeltaKeeps ==
  ASSUME NEW b, BlocksSound(b), NEW x \in Nat, OpenIn(b, x)
  PROVE  /\ BlocksSound(Send(b, "content_block_delta", x))
         /\ Send(b, "content_block_delta", x).open = b.open
<1> DEFINE e == Event("content_block_delta", x)
           c == Send(b, "content_block_delta", x)
<1>1. b \in BlockStates /\ b.next \in Nat /\ b.events \in Seq(Events) /\ Ongoing(b.events) /\ Flawless(b.events)
  BY DEF BlocksSound, BlockStates
<1>2. x < BlockCount(b.events)
  <2>1. \A i \in DOMAIN b.tools : b.tools[i][2] < b.next
    BY DEF BlocksSound, BlocksAgree
  <2>2. x < b.next \/ (x = b.next /\ b.open # "none")
    BY <2>1 DEF OpenIn
  <2> QED BY <1>1, <2>2 DEF BlocksSound, BlocksAgree
<1>3. x \in Opened(b.events) /\ x \notin Ended(b.events)
  BY <1>2 DEF BlocksSound, BlocksAgree
<1>4. MayFollow(b.events, e)
  BY <1>3 DEF MayFollow, Event
<1>5. e \in Events /\ e.type = "content_block_delta"
  BY DEF Event, Events, BlockTypes
<1>6. /\ c \in BlockStates /\ Ongoing(c.events) /\ Flawless(c.events)
      /\ c.events = Append(b.events, e)
      /\ c.next = b.next /\ c.open = b.open /\ c.tools = b.tools
  BY <1>1, <1>4, SendKeeps DEF BlockTypes
<1> HIDE DEF e, c
<1>7. /\ BlockCount(c.events) = BlockCount(b.events)
      /\ Opened(c.events) = Opened(b.events) /\ Ended(c.events) = Ended(b.events)
  <2>1. BlockCount(c.events) = BlockCount(b.events) + 0 /\ BlockCount(b.events) \in Nat
    BY <1>1, <1>5, <1>6, AppendedBlocks
  <2> QED BY <1>1, <1>5, <1>6, <2>1, AppendedBlocks
<1>8. BlocksAgree(c)
  BY <1>6, <1>7 DEF BlocksSound, BlocksAgree, OpenIn
<1> QED BY <1>6, <1>8 DEF BlocksSound, c

\* Text and thinking.
LEMMA TextDeltaKeeps ==
  ASSUME NEW b, BlocksSound(b), NEW kind \in {"text", "thinking"}
  PROVE  BlocksSound(TextDelta(b, kind))
<1> DEFINE c == IF b.open = kind THEN b ELSE BlockStart(Closed(b), kind)
<1>1. BlocksSound(c) /\ c.open = kind
  BY ClosedKeeps, BlockStartKeeps
<1>2. TextDelta(b, kind) = Send(c, "content_block_delta", c.next)
  BY DEF TextDelta
<1> HIDE DEF c
<1>3. c.next \in Nat /\ OpenIn(c, c.next)
  BY <1>1 DEF BlocksSound, BlockStates, OpenIn
<1> QED BY <1>1, <1>2, <1>3, DeltaKeeps

\* Tool calls begin when no block of text or thinking is open.
LEMMA BeforeToolsKeeps ==
  ASSUME NEW b, BlocksSound(b)
  PROVE  BlocksSound(BeforeTools(b)) /\ BeforeTools(b).open = "none"
  BY ClosedKeeps, BlockStartKeeps, BlockStopKeeps DEF BeforeTools

\* The block of a new tool call.
OpenedTool(b, slot) ==
  Send([b EXCEPT !.tools = Append(@, <<slot, b.next>>), !.next = @ + 1], "content_block_start", b.next)

LEMMA OpenedToolKeeps ==
  ASSUME NEW b, BlocksSound(b), b.open = "none", NEW slot \in Slots
  PROVE  LET c == OpenedTool(b, slot)
         IN BlocksSound(c) /\ c.open = "none" /\ BlocksOf(c, slot) # {}
<1> DEFINE a == [b EXCEPT !.tools = Append(@, <<slot, b.next>>), !.next = @ + 1]
           e == Event("content_block_start", b.next)
           c == OpenedTool(b, slot)
           n == Len(b.tools)
           tools == Append(b.tools, <<slot, b.next>>)
<1>2. b.next \in Nat /\ b.events \in Seq(Events) /\ Ongoing(b.events) /\ Flawless(b.events)
      /\ b.tools \in Seq(Slots \X Nat)
  BY DEF BlocksSound, BlockStates
<1>3. /\ tools \in Seq(Slots \X Nat) /\ DOMAIN tools = 1 .. n + 1 /\ DOMAIN b.tools = 1 .. n /\ n \in Nat
      /\ tools[n + 1] = <<slot, b.next>>
      /\ \A i \in 1 .. n : tools[i] = b.tools[i]
  <2>1. <<slot, b.next>> \in Slots \X Nat
    BY <1>2
  <2> QED BY <1>2, <2>1
<1>1. a.events = b.events /\ a.next = b.next + 1 /\ a.open = "none" /\ a.tools = tools /\ a \in BlockStates
  <2> HIDE DEF tools
  <2>1. a = [b EXCEPT !.tools = tools, !.next = b.next + 1]
    BY DEF tools
  <2>2. b \in BlockStates /\ b.next + 1 \in Nat
    BY <1>2 DEF BlocksSound
  <2> HIDE DEF a
  <2> QED BY <1>3, <2>1, <2>2 DEF BlockStates
<1>4. MayFollow(b.events, e)
  BY <1>2 DEF MayFollow, Event, BlocksSound, BlocksAgree
<1>5. e \in Events /\ e.type = "content_block_start" /\ e.index = b.next
  BY <1>2 DEF Event, Events, BlockTypes
<1>6. c = Send(a, "content_block_start", b.next)
  BY DEF OpenedTool
<1> HIDE DEF a, c, tools, n
<1>7. /\ c \in BlockStates /\ Ongoing(c.events) /\ Flawless(c.events)
      /\ c.events = Append(b.events, e)
      /\ c.next = b.next + 1 /\ c.open = "none" /\ c.tools = tools
  BY <1>1, <1>2, <1>4, <1>6, SendKeeps DEF BlockTypes
<1> HIDE DEF e
<1>8. /\ BlockCount(c.events) = BlockCount(b.events) + 1 /\ BlockCount(b.events) = b.next
      /\ Opened(c.events) = Opened(b.events) \cup {b.next} /\ Ended(c.events) = Ended(b.events)
  BY <1>2, <1>5, <1>7, AppendedBlocks DEF BlocksSound, BlocksAgree
<1>9. \A i \in DOMAIN b.tools : b.tools[i][2] < b.next /\ b.tools[i][2] \in Nat
  BY <1>2 DEF BlocksSound, BlocksAgree
<1>10. /\ \A i \in 1 .. n : tools[i][2] < b.next /\ tools[i][2] \in Nat /\ tools[i][2] = b.tools[i][2]
       /\ tools[n + 1][2] = b.next /\ tools[n + 1][1] = slot
  <2>1. \A i \in 1 .. n : tools[i] = b.tools[i] /\ b.tools[i][2] < b.next /\ b.tools[i][2] \in Nat
    BY <1>3, <1>9
  <2>2. tools[n + 1] = <<slot, b.next>>
    BY <1>3
  <2> QED BY <2>1, <2>2
<1>11. \A x \in Nat : OpenIn(c, x) <=> OpenIn(b, x) \/ x = b.next
  <2>1. /\ DOMAIN tools = 1 .. n + 1 /\ DOMAIN b.tools = 1 .. n /\ 1 .. n + 1 = 1 .. n \cup {n + 1}
        /\ c.tools = tools /\ c.open = "none" /\ b.open = "none"
    BY <1>3, <1>7
  <2> QED BY <1>10, <2>1 DEF OpenIn
<1>12. \A i, j \in DOMAIN tools : tools[i][2] = tools[j][2] => i = j
  <2>1. \A i, j \in 1 .. n : tools[i][2] = tools[j][2] => i = j
    <3>1. \A i, j \in DOMAIN b.tools : b.tools[i][2] = b.tools[j][2] => i = j
      BY <1>2 DEF BlocksSound, BlocksAgree
    <3>2. DOMAIN b.tools = 1 .. n
      BY <1>3
    <3> QED BY <1>10, <3>1, <3>2
  <2>2. \A i \in DOMAIN tools : i \in 1 .. n \/ i = n + 1
    BY <1>3
  <2>3. \A i \in 1 .. n : tools[i][2] # tools[n + 1][2] /\ tools[i][2] = b.tools[i][2]
    BY <1>2, <1>10
  <2> QED BY <2>1, <2>2, <2>3
<1>13. \A i \in DOMAIN tools : tools[i][2] < b.next + 1
  <2>1. \A i \in DOMAIN tools : i \in 1 .. n \/ i = n + 1
    BY <1>3
  <2>2. b.next \in Nat
    BY <1>2
  <2> QED BY <1>10, <2>1, <2>2
<1>14. BlocksAgree(c)
  BY <1>2, <1>7, <1>8, <1>11, <1>12, <1>13 DEF BlocksSound, BlocksAgree
<1>15. n + 1 \in BlocksOf(c, slot)
  BY <1>3, <1>7, <1>10 DEF BlocksOf
<1> QED BY <1>7, <1>14, <1>15 DEF BlocksSound, c

\* A tool call starts its block once; its arguments go to that block.
LEMMA ToolDeltaKeeps ==
  ASSUME NEW b, BlocksSound(b), b.open = "none", NEW pos \in Nat \ {0}, NEW d \in ToolDeltas
  PROVE  BlocksSound(ToolDelta(b, pos, d)) /\ ToolDelta(b, pos, d).open = "none"
<1> DEFINE slot == IF d.index = NoIndex THEN pos - 1 ELSE d.index
           c == IF BlocksOf(b, slot) # {} THEN b ELSE OpenedTool(b, slot)
           at == CHOOSE i \in BlocksOf(c, slot) : TRUE
<1>1. slot \in Slots
  BY DEF Slots
<1>2. ToolDelta(b, pos, d) = IF d.arguments THEN Send(c, "content_block_delta", c.tools[at][2]) ELSE c
  BY DEF ToolDelta, OpenedTool
<1> HIDE DEF slot
<1>3. BlocksSound(c) /\ c.open = "none" /\ BlocksOf(c, slot) # {}
  BY <1>1, OpenedToolKeeps
<1> HIDE DEF c
<1>4. at \in BlocksOf(c, slot)
  BY <1>3
<1>5. at \in DOMAIN c.tools
  BY <1>4 DEF BlocksOf
<1> HIDE DEF at
<1>6. c.tools[at][2] \in Nat /\ OpenIn(c, c.tools[at][2])
  <2>1. c.tools \in Seq(Slots \X Nat)
    BY <1>3 DEF BlocksSound, BlockStates
  <2> QED BY <1>5, <2>1 DEF OpenIn
<1> QED BY <1>2, <1>3, <1>6, DeltaKeeps

\* The loop over the tool calls, as far as the nth of them.
IsDeltaLoop(f, b, calls, n) ==
  f = [m \in 0 .. n |-> IF m = 0 THEN BeforeTools(b) ELSE ToolDelta(f[m - 1], m, calls[m])]

\* There is such a loop for any number of calls: none is the first without one.
LEMMA DeltaLoopExists ==
  ASSUME NEW b, NEW calls, NEW n \in Nat
  PROVE  \E f : IsDeltaLoop(f, b, calls, n)
<1> DEFINE Without == {m \in Nat : ~(\E f : IsDeltaLoop(f, b, calls, m))}
<1> SUFFICES ASSUME Without # {} PROVE FALSE
  OBVIOUS
<1>1. PICK m \in Without : \A k \in Without : m <= k
  <2>1. Without \in SUBSET Nat
    OBVIOUS
  <2> HIDE DEF Without
  <2> QED BY <2>1, LeastNumber
<1>2. m \in Nat /\ ~(\E f : IsDeltaLoop(f, b, calls, m))
  BY <1>1
<1>3. CASE m = 0
  <2> DEFINE f == [k \in 0 .. 0 |-> BeforeTools(b)]
  <2>1. f = [k \in 0 .. 0 |-> IF k = 0 THEN BeforeTools(b) ELSE ToolDelta(f[k - 1], k, calls[k])]
    OBVIOUS
  <2>2. IsDeltaLoop(f, b, calls, 0)
    BY <2>1 DEF IsDeltaLoop
  <2> QED BY <1>2, <1>3, <2>2
<1>4. CASE m # 0
  <2>1. m - 1 \in Nat /\ ~(m <= m - 1)
    BY <1>2, <1>4
  <2>2. PICK g : IsDeltaLoop(g, b, calls, m - 1)
    BY <1>1, <2>1
  <2> DEFINE f == [k \in 0 .. m |-> IF k = m THEN ToolDelta(g[m - 1], m, calls[m]) ELSE g[k]]
             step(k) == IF k = 0 THEN BeforeTools(b) ELSE ToolDelta(f[k - 1], k, calls[k])
  <2>3. \A k \in 0 .. (m - 1) : g[k] = IF k = 0 THEN BeforeTools(b) ELSE ToolDelta(g[k - 1], k, calls[k])
    BY <2>2 DEF IsDeltaLoop
  <2>4. \A k \in 0 .. (m - 1) : f[k] = g[k]
    BY <1>2, <1>4
  <2>5. f[m] = ToolDelta(g[m - 1], m, calls[m])
    BY <1>2
  <2>6. f = [k \in 0 .. m |-> f[k]]
    OBVIOUS
  <2> HIDE DEF f
  <2>7. ASSUME NEW k \in 0 .. m PROVE f[k] = step(k)
    <3>1. CASE k = m
      <4>1. m - 1 \in 0 .. (m - 1)
        BY <1>2, <1>4
      <4> QED BY <1>4, <2>4, <2>5, <3>1, <4>1
    <3>2. CASE k # m /\ k # 0
      <4>1. k \in 0 .. (m - 1) /\ k - 1 \in 0 .. (m - 1)
        BY <1>2, <3>2
      <4> QED BY <2>3, <2>4, <3>2, <4>1
    <3>3. CASE k # m /\ k = 0
      <4>1. 0 \in 0 .. (m - 1)
        BY <1>2, <1>4
      <4> QED BY <2>3, <2>4, <3>3, <4>1
    <3> QED BY <3>1, <3>2, <3>3
  <2>8. f = [k \in 0 .. m |-> step(k)]
    BY <2>6, <2>7
  <2>9. IsDeltaLoop(f, b, calls, m)
    BY <2>8 DEF IsDeltaLoop
  <2> QED BY <1>2, <2>9
<1> QED BY <1>3, <1>4

\* After each of the tool calls of a chunk the locals and the events agree.
LEMMA ToolDeltasKeep ==
  ASSUME NEW b, BlocksSound(b), NEW calls \in Seq(ToolDeltas)
  PROVE  BlocksSound(ToolDeltasOf(b, calls))
<1> DEFINE N == Len(calls)
           f == CHOOSE g : IsDeltaLoop(g, b, calls, N)
<1>1. N \in Nat /\ \A n \in 1 .. N : calls[n] \in ToolDeltas
  BY LenProperties, ElementOfSeq
<1>2. ToolDeltasOf(b, calls) = f[N]
  BY DEF ToolDeltasOf, IsDeltaLoop
<1>3. IsDeltaLoop(f, b, calls, N)
  BY <1>1, DeltaLoopExists
<1>4. \A n \in 0 .. N : f[n] = IF n = 0 THEN BeforeTools(b) ELSE ToolDelta(f[n - 1], n, calls[n])
  BY <1>3 DEF IsDeltaLoop
<1> HIDE DEF f
<1> DEFINE Wrong == {n \in 0 .. N : ~(BlocksSound(f[n]) /\ f[n].open = "none")}
<1>5. Wrong = {}
  <2> SUFFICES ASSUME Wrong # {} PROVE FALSE
    OBVIOUS
  <2>1. PICK n \in Wrong : \A k \in Wrong : n <= k
    <3>1. Wrong \in SUBSET Nat
      BY <1>1
    <3> HIDE DEF Wrong
    <3> QED BY <3>1, LeastNumber
  <2>2. n \in 0 .. N /\ ~(BlocksSound(f[n]) /\ f[n].open = "none")
    BY <2>1
  <2>3. CASE n = 0
    BY <1>4, <2>2, <2>3, BeforeToolsKeeps
  <2>4. CASE n # 0
    <3>1. n - 1 \in 0 .. N /\ n \in 1 .. N /\ n \in Nat \ {0} /\ ~(n <= n - 1)
      BY <1>1, <2>2, <2>4
    <3>2. BlocksSound(f[n - 1]) /\ f[n - 1].open = "none"
      BY <2>1, <3>1
    <3>3. f[n] = ToolDelta(f[n - 1], n, calls[n]) /\ calls[n] \in ToolDeltas
      BY <1>1, <1>4, <2>2, <2>4, <3>1
    <3> HIDE DEF Wrong, N
    <3>4. BlocksSound(ToolDelta(f[n - 1], n, calls[n])) /\ ToolDelta(f[n - 1], n, calls[n]).open = "none"
      BY <3>1, <3>2, <3>3, ToolDeltaKeeps
    <3> QED BY <2>2, <3>3, <3>4
  <2> QED BY <2>3, <2>4
<1>6. BlocksSound(f[N])
  BY <1>1, <1>5
<1> QED BY <1>2, <1>6

\* Whatever a chunk holds.
LEMMA AnthropicChunkKeeps ==
  ASSUME NEW b, BlocksSound(b), NEW chunk, chunk.tools \in Seq(ToolDeltas)
  PROVE  BlocksSound(AnthropicChunk(b, chunk))
  BY TextDeltaKeeps, ToolDeltasKeep DEF AnthropicChunk

\* The stops of the tool blocks: each may follow those before it.
LEMMA StopsFit ==
  ASSUME NEW b, BlocksSound(b), b.open = "none"
  PROVE  LET stops == [i \in DOMAIN b.tools |-> Event("content_block_stop", b.tools[i][2])]
             es == b.events \o stops
         IN Ongoing(es) /\ Flawless(es) /\ Opened(es) \subseteq Ended(es)
<1> DEFINE N == Len(b.tools)
           stop(i) == Event("content_block_stop", b.tools[i][2])
           after(n) == b.events \o [i \in 1 .. n |-> stop(i)]
           right(n) == /\ Ongoing(after(n)) /\ Flawless(after(n))
                       /\ Opened(after(n)) = Opened(b.events)
                       /\ Ended(after(n)) = Ended(b.events) \cup {b.tools[i][2] : i \in 1 .. n}
<1>1. N \in Nat /\ DOMAIN b.tools = 1 .. N /\ b.events \in Seq(Events) /\ \A i \in 1 .. N : b.tools[i][2] \in Nat
  <2>1. b.events \in Seq(Events) /\ b.tools \in Seq(Slots \X Nat)
    BY DEF BlocksSound, BlockStates
  <2>2. N \in Nat /\ DOMAIN b.tools = 1 .. N /\ \A i \in 1 .. N : b.tools[i] \in Slots \X Nat
    BY <2>1, LenProperties, ElementOfSeq
  <2> QED BY <2>1, <2>2
<1>2. \A i \in 1 .. N : stop(i) \in Events /\ stop(i).type = "content_block_stop" /\ stop(i).index = b.tools[i][2]
  BY <1>1 DEF Event, Events, BlockTypes
<1> HIDE DEF stop
<1>3. \A n \in 0 .. N : [i \in 1 .. n |-> stop(i)] \in Seq(Events) /\ Len([i \in 1 .. n |-> stop(i)]) = n
  BY <1>1, <1>2
<1> DEFINE Wrong == {n \in 0 .. N : ~right(n)}
<1>4. Wrong = {}
  <2> SUFFICES ASSUME Wrong # {} PROVE FALSE
    OBVIOUS
  <2>1. PICK n \in Wrong : \A k \in Wrong : n <= k
    <3>1. Wrong \in SUBSET Nat
      BY <1>1
    <3> HIDE DEF Wrong
    <3> QED BY <3>1, LeastNumber
  <2>2. n \in 0 .. N /\ ~right(n)
    BY <2>1
  <2>3. CASE n = 0
    <3>1. after(n) = b.events
      BY <1>1, <2>3, ConcatEmptySeq
    <3>2. {b.tools[i][2] : i \in 1 .. n} = {}
      BY <2>3
    <3> HIDE DEF after
    <3> QED BY <2>2, <3>1, <3>2 DEF BlocksSound
  <2>4. CASE n # 0
    <3>1. n - 1 \in 0 .. N /\ n \in 1 .. N /\ ~(n <= n - 1) /\ n - 1 \in Nat
      BY <1>1, <2>2, <2>4
    <3>2. right(n - 1)
      BY <2>1, <3>1
    <3> DEFINE x == b.tools[n][2]
    <3>3. after(n) = Append(after(n - 1), stop(n))
      <4> DEFINE s == [i \in 1 .. n - 1 |-> stop(i)]
                 t == [i \in 1 .. n |-> stop(i)]
      <4>1. s \in Seq(Events) /\ Len(s) = n - 1 /\ t \in Seq(Events) /\ Len(t) = n
        BY <1>3, <2>2, <3>1
      <4>2. \A i \in 1 .. n : t[i] = IF i = n THEN stop(n) ELSE s[i]
        BY <3>1
      <4> HIDE DEF s, t
      <4>3. t = Append(s, stop(n))
        BY <1>2, <3>1, <4>1, <4>2
      <4>4. b.events \o Append(s, stop(n)) = Append(b.events \o s, stop(n))
        <5>1. stop(n) \in Events
          BY <1>2, <3>1
        <5> QED BY <1>1, <4>1, <5>1, AppendLast
      <4> QED BY <4>3, <4>4 DEF s, t
    <3> HIDE DEF after
    <3>4. x \in Nat /\ x \in Opened(b.events) /\ x \notin Ended(b.events)
      <4>1. n \in DOMAIN b.tools /\ x \in Nat /\ OpenIn(b, x)
        BY <1>1, <3>1 DEF OpenIn
      <4>2. b.tools[n][2] < b.next /\ BlockCount(b.events) = b.next + 0 /\ b.next \in Nat
        BY <4>1 DEF BlocksSound, BlocksAgree, BlockStates
      <4> QED BY <4>1, <4>2 DEF BlocksSound, BlocksAgree
    <3>5. \A i \in 1 .. n - 1 : b.tools[i][2] # x
      <4> SUFFICES ASSUME NEW i \in 1 .. n - 1, b.tools[i][2] = b.tools[n][2] PROVE FALSE
        OBVIOUS
      <4>1. i \in DOMAIN b.tools /\ n \in DOMAIN b.tools /\ i # n
        BY <1>1, <3>1
      <4> QED BY <4>1 DEF BlocksSound, BlocksAgree
    <3>6. x \in Opened(after(n - 1)) /\ x \notin Ended(after(n - 1))
      BY <3>2, <3>4, <3>5
    <3>7. MayFollow(after(n - 1), stop(n))
      BY <1>2, <3>1, <3>6 DEF MayFollow
    <3>8. Ongoing(after(n)) /\ Flawless(after(n))
      <4>1. stop(n) \in Events /\ stop(n).type = "content_block_stop"
        BY <1>2, <3>1
      <4> QED BY <3>2, <3>3, <3>7, <4>1, AppendedOngoing DEF LastTypes
    <3>9. after(n - 1) \in Seq(Events) /\ stop(n) \in Events
      BY <1>2, <3>1, <3>2 DEF Ongoing
    <3>12. Opened(after(n)) = Opened(b.events)
      <4>1. Opened(after(n)) = Opened(after(n - 1)) \cup {}
        BY <1>2, <3>1, <3>3, <3>9, AppendedBlocks
      <4> QED BY <3>2, <4>1
    <3>13. Ended(after(n)) = Ended(after(n - 1)) \cup {x}
      BY <1>2, <3>1, <3>3, <3>9, AppendedBlocks
    <3>14. {b.tools[i][2] : i \in 1 .. n} = {b.tools[i][2] : i \in 1 .. n - 1} \cup {x}
      <4>1. 1 .. n = 1 .. n - 1 \cup {n}
        BY <3>1
      <4> QED BY <4>1
    <3>15. right(n)
      BY <3>2, <3>8, <3>12, <3>13, <3>14
    <3> QED BY <2>2, <3>15
  <2> QED BY <2>3, <2>4
<1>5. right(N)
  <2>1. N \in 0 .. N
    BY <1>1
  <2> HIDE DEF right, N
  <2> QED BY <1>4, <2>1
<1>6. after(N) = b.events \o [i \in DOMAIN b.tools |-> Event("content_block_stop", b.tools[i][2])]
  BY <1>1 DEF stop
<1> HIDE DEF after
<1>7. Opened(after(N)) \subseteq Ended(after(N))
  <2> SUFFICES ASSUME NEW y \in Opened(b.events) PROVE y \in Ended(b.events) \cup {b.tools[i][2] : i \in 1 .. N}
    BY <1>5
  <2>1. y \in Nat
    BY DEF Opened
  <2>2. y \in Ended(b.events) \/ OpenIn(b, y)
    BY <2>1 DEF BlocksSound, BlocksAgree
  <2> QED BY <1>1, <2>2 DEF OpenIn
<1> QED BY <1>5, <1>6, <1>7

\* What the end of the message adds: the open blocks stop, then it is announced.
LEMMA EndFits ==
  ASSUME NEW b, BlocksSound(b)
  PROVE  Ongoing(AnthropicEnd(b)) /\ Flawless(AnthropicEnd(b))
<1> DEFINE x == Closed(IF b.open = "none" /\ ~b.text /\ b.tools = <<>> THEN BlockStart(b, "text") ELSE b)
           stops == [i \in DOMAIN x.tools |-> Event("content_block_stop", x.tools[i][2])]
           es == x.events \o stops
           e == Event("message_delta", 0)
<1>1. BlocksSound(x) /\ x.open = "none"
  BY BlockStartKeeps, ClosedKeeps
<1>2. AnthropicEnd(b) = Append(es, e)
  BY DEF AnthropicEnd
<1> HIDE DEF x
<1>3. Ongoing(es) /\ Flawless(es) /\ Opened(es) \subseteq Ended(es)
  BY <1>1, StopsFit
<1> HIDE DEF es
<1>4. e \in Events /\ e.type = "message_delta"
  BY DEF Event, Events
<1>5. MayFollow(es, e)
  BY <1>3, <1>4 DEF MayFollow
<1> HIDE DEF e
<1> QED BY <1>2, <1>3, <1>4, <1>5, AppendedOngoing DEF LastTypes

-----------------------------------------------------------------------------
(* The stream.                                                              *)

\* Events that are not about blocks may follow anywhere.
LEMMA QuietKeeps ==
  ASSUME NEW es, Ongoing(es), Flawless(es),
         NEW q \in Seq(Events), \A i \in 1 .. Len(q) : q[i].type \in QuietTypes
  PROVE  Ongoing(es \o q) /\ Flawless(es \o q)
<1> DEFINE f == es \o q
           n == Len(es)
           m == Len(q)
<1>1. es \in Seq(Events)
  BY DEF Ongoing
<1>2. /\ f \in Seq(Events) /\ DOMAIN f = 1 .. n + m /\ DOMAIN es = 1 .. n /\ n \in Nat /\ m \in Nat
      /\ Len(f) = n + m
      /\ \A i \in 1 .. n : f[i] = es[i]
      /\ \A i \in n + 1 .. n + m : f[i].type \in QuietTypes
  <2>1. /\ f \in Seq(Events) /\ Len(f) = n + m
        /\ \A i \in 1 .. n + m : f[i] = IF i <= n THEN es[i] ELSE q[i - n]
    BY <1>1, ConcatProperties
  <2>2. n \in Nat /\ m \in Nat /\ DOMAIN f = 1 .. Len(f) /\ DOMAIN es = 1 .. n
    BY <1>1, <2>1, LenProperties
  <2> HIDE DEF f, n
  <2>3. \A i \in n + 1 .. n + m : i - n \in 1 .. m /\ f[i] = q[i - n]
    BY <2>1, <2>2
  <2> QED BY <2>1, <2>2, <2>3
<1> HIDE DEF f, n, m
<1>3. ASSUME NEW i \in DOMAIN f
      PROVE  Fits(f, i) /\ f[i].type \notin LastTypes /\ f[i].type # "error"
  <2>1. CASE i \in 1 .. n
    <3>1. Fits(es, i) /\ es[i].type \notin LastTypes /\ es[i].type # "error" /\ f[i] = es[i]
      BY <1>2, <2>1 DEF Ongoing, Flawless
    <3>2. \A j \in 1 .. (i - 1) : f[j] = es[j]
      BY <1>2, <2>1
    <3>3. /\ Starts(f, i) = Starts(es, i) /\ \A t, x : Earlier(f, i, t, x) = Earlier(es, i, t, x)
          /\ \A j \in Starts(es, i) : f[j] = es[j]
      BY <3>2 DEF Starts, Earlier
    <3> QED BY <3>1, <3>3 DEF Fits
  <2>2. CASE i \in n + 1 .. n + m
    <3>1. f[i].type \in QuietTypes
      BY <1>2, <2>2
    <3> QED BY <3>1 DEF Fits, QuietTypes, LastTypes
  <2> QED BY <1>2, <2>1, <2>2
<1>4. Ongoing(f) /\ Flawless(f)
  BY <1>2, <1>3 DEF Ongoing, Flawless
<1> QED BY <1>4 DEF f

\* Events of the types in T.
LEMMA PlainTypes ==
  ASSUME NEW T \in Seq(QuietTypes)
  PROVE  Plain(T) \in Seq(Events) /\ \A i \in 1 .. Len(Plain(T)) : Plain(T)[i].type \in QuietTypes
<1>1. Len(T) \in Nat /\ DOMAIN T = 1 .. Len(T) /\ \A i \in 1 .. Len(T) : T[i] \in QuietTypes
  BY LenProperties, ElementOfSeq
<1>2. \A i \in 1 .. Len(T) : Event(T[i], 0) \in Events /\ Event(T[i], 0).type = T[i]
  BY <1>1 DEF Event, Events
<1>3. Plain(T) = [i \in 1 .. Len(T) |-> Event(T[i], 0)]
  BY <1>1 DEF Plain
<1>4. Plain(T) \in Seq(Events) /\ Len(Plain(T)) = Len(T)
  BY <1>1, <1>2, <1>3
<1> QED BY <1>1, <1>2, <1>3, <1>4

LEMMA PlainOne ==
  ASSUME NEW es \in Seq(Events), NEW t, Event(t, 0) \in Events
  PROVE  es \o Plain(<<t>>) = Append(es, Event(t, 0))
<1>1. Plain(<<t>>) = <<Event(t, 0)>>
  BY DEF Plain
<1> QED BY <1>1, AppendIsConcat

\* What a chunk becomes in the other protocols.
LEMMA ChunkQuiet ==
  ASSUME NEW chunk \in Chunks
  PROVE  /\ CompletionEvents(chunk) \in Seq(Events)
         /\ \A i \in 1 .. Len(CompletionEvents(chunk)) : CompletionEvents(chunk)[i].type \in QuietTypes
         /\ ResponseEvents(chunk) \in Seq(Events)
         /\ \A i \in 1 .. Len(ResponseEvents(chunk)) : ResponseEvents(chunk)[i].type \in QuietTypes
         /\ chunk.tools \in Seq(ToolDeltas) /\ chunk.usage \in Nat
<1>1. chunk.tools \in Seq(ToolDeltas) /\ chunk.usage \in Nat
  <2>1. chunk.tools \in SeqOf(ToolDeltas, MaxCalls) /\ chunk.usage \in 0 .. MaxUsage
    BY DEF Chunks
  <2>2. PICK m \in 0 .. MaxCalls : chunk.tools \in [1 .. m -> ToolDeltas]
    BY <2>1 DEF SeqOf
  <2> QED BY <2>1, <2>2, SeqDef, StreamAssumption
<1>2. <<"chunk">> \in Seq(QuietTypes)
  BY DEF QuietTypes
<1> DEFINE text == IF chunk.text THEN <<"output_text.delta">> ELSE <<>>
           thinking == IF chunk.thinking THEN <<"reasoning_summary_text.delta">> ELSE <<>>
           tools == [i \in DOMAIN chunk.tools |-> "function_call_arguments.delta"]
           usage == IF chunk.usage > 0 THEN <<"usage.delta">> ELSE <<>>
<1>3. text \in Seq(QuietTypes) /\ thinking \in Seq(QuietTypes) /\ usage \in Seq(QuietTypes)
  <2>1. /\ <<"output_text.delta">> \in Seq(QuietTypes) /\ <<"reasoning_summary_text.delta">> \in Seq(QuietTypes)
        /\ <<"usage.delta">> \in Seq(QuietTypes) /\ <<>> \in Seq(QuietTypes)
    BY DEF QuietTypes
  <2> QED BY <2>1
<1>4. tools \in Seq(QuietTypes)
  <2>1. DOMAIN chunk.tools = 1 .. Len(chunk.tools) /\ Len(chunk.tools) \in Nat
    BY <1>1, LenProperties
  <2>2. "function_call_arguments.delta" \in QuietTypes
    BY DEF QuietTypes
  <2>3. tools \in [1 .. Len(chunk.tools) -> QuietTypes]
    BY <2>1, <2>2
  <2> QED BY <2>1, <2>3, SeqDef
<1>5. ResponseEvents(chunk) = Plain(((text \o thinking) \o tools) \o usage)
  BY DEF ResponseEvents
<1> HIDE DEF text, thinking, tools, usage
<1>6. ((text \o thinking) \o tools) \o usage \in Seq(QuietTypes)
  BY <1>3, <1>4, ConcatProperties
<1> QED BY <1>1, <1>2, <1>5, <1>6, PlainTypes DEF CompletionEvents

StreamTypes ==
  [protocol : {"none", "messages", "completions", "responses"},
   pc : {"idle", "plain", "reading", "charging", "closed", "uncharged", "failed", "gone"},
   chunks : Nat, next : Nat, open : {"none", "text", "thinking"}, text : BOOLEAN,
   tools : Seq(Slots \X Nat), used : Nat, guessed : Nat]

StreamTypeOK ==
  /\ stream \in StreamTypes /\ events \in Seq(Events)
  /\ reported \in Nat /\ charged \in Nat

\* Something is counted as used when something was reported, and no more.
Accounted == stream.used <= reported /\ (stream.used = 0 <=> reported = 0)

StreamInvariant ==
  /\ StreamTypeOK
  /\ \A i \in DOMAIN events : Fits(events, i)
  /\ stream.pc \in {"idle", "plain"} => events = <<>>
  /\ stream.pc = "idle" => reported = 0
  /\ stream.pc = "reading" /\ stream.protocol = "messages" => BlocksSound(Blocks)
  /\ stream.pc = "reading" => Ongoing(events) /\ Flawless(events)
  /\ stream.pc = "charging" => Ongoing(events) /\ (stream.protocol = "messages" => Flawless(events))
  /\ stream.pc \in {"reading", "charging"} => Accounted
  /\ StreamWellFormed

\* Counting a chunk's usage, added to what was used or in its place, keeps what
\* is used within what was reported, and nothing only when nothing was.
LEMMA UsageCounted ==
  ASSUME NEW used \in Nat, NEW told \in Nat, NEW usage \in Nat, NEW after,
         used <= told, used = 0 <=> told = 0,
         \/ after = used + usage
         \/ usage > 0 /\ after = usage
         \/ ~(usage > 0) /\ after = used
  PROVE  after <= told + usage /\ (after = 0 <=> told + usage = 0)
<1>1. CASE usage = 0
  BY <1>1
<1>2. CASE usage > 0
  BY <1>2
<1> QED BY <1>1, <1>2

\* No stream has started: nothing is open, sent or reported.
LEMMA StreamStart == StreamsInit => StreamInvariant
<1> SUFFICES ASSUME StreamsInit PROVE StreamInvariant
  OBVIOUS
<1>1. stream = NoStream /\ events = <<>> /\ reported = 0 /\ charged = 0
  BY DEF StreamsInit
<1>2. stream.pc = "idle" /\ stream \in StreamTypes
  BY <1>1 DEF NoStream, StreamTypes
<1> QED BY <1>1, <1>2 DEF StreamInvariant, StreamTypeOK, StreamWellFormed

\* The first events of a stream, before any block.
LEMMA OpeningFits ==
  ASSUME NEW p \in {"messages", "completions", "responses"}
  PROVE  /\ Ongoing(Opening(p)) /\ Flawless(Opening(p)) /\ BlockCount(Opening(p)) = 0
         /\ Opened(Opening(p)) = {} /\ Ended(Opening(p)) = {}
<1> DEFINE T == IF p = "messages" THEN <<"message_start">>
                ELSE IF p = "completions" THEN <<"chunk">> ELSE <<"response.created", "response.in_progress">>
<1>1. T \in Seq(QuietTypes) /\ Opening(p) = Plain(T)
  <2>1. /\ <<"message_start">> \in Seq(QuietTypes) /\ <<"chunk">> \in Seq(QuietTypes)
        /\ <<"response.created", "response.in_progress">> \in Seq(QuietTypes)
    BY DEF QuietTypes
  <2> QED BY <2>1 DEF Opening
<1> DEFINE es == Opening(p)
<1>2. es \in Seq(Events) /\ \A i \in 1 .. Len(es) : es[i].type \in QuietTypes
  BY <1>1, PlainTypes
<1> HIDE DEF T, es
<1>3. DOMAIN es = 1 .. Len(es) /\ Len(es) \in Nat
  BY <1>2, LenProperties
<1>4. Ongoing(es) /\ Flawless(es)
  BY <1>2, <1>3 DEF Ongoing, Flawless, Fits, QuietTypes, LastTypes
<1>5. \A i \in 1 .. (Len(es) + 1 - 1) : es[i].type \notin BlockTypes
  BY <1>2, <1>3 DEF QuietTypes, BlockTypes
<1>6. Starts(es, Len(es) + 1) = {}
  BY <1>5 DEF Starts, BlockTypes
<1>7. \A x : /\ Earlier(es, Len(es) + 1, "content_block_start", x) = {}
             /\ Earlier(es, Len(es) + 1, "content_block_stop", x) = {}
  BY <1>5 DEF Earlier, BlockTypes, Event
<1>8. BlockCount(es) = 0 /\ Opened(es) = {} /\ Ended(es) = {}
  BY <1>6, <1>7, FS_EmptySet DEF BlockCount, Opened, Ended
<1> QED BY <1>4, <1>8 DEF es

LEMMA AcceptKeeps ==
  ASSUME StreamInvariant, NEW p \in {"messages", "completions", "responses"}, NEW s \in BOOLEAN,
         AcceptRequest(p, s)
  PROVE  StreamInvariant'
<1>1. /\ stream.pc = "idle" /\ reported = 0 /\ UNCHANGED <<reported, charged>>
      /\ reported \in Nat /\ charged \in Nat
  BY DEF AcceptRequest, StreamInvariant, StreamTypeOK
<1>2. /\ stream' \in StreamTypes /\ stream'.pc = (IF s THEN "reading" ELSE "plain") /\ stream'.protocol = p
      /\ stream'.used = 0 /\ stream'.next = 0 /\ stream'.open = "none" /\ stream'.tools = <<>>
  <2>1. <<>> \in Seq(Slots \X Nat)
    BY EmptySeq
  <2>2. stream' = [protocol |-> p, pc |-> IF s THEN "reading" ELSE "plain", chunks |-> 0, next |-> 0,
                   open |-> "none", text |-> FALSE, tools |-> <<>>, used |-> 0, guessed |-> 0]
    BY DEF AcceptRequest, NoStream
  <2> QED BY <2>1, <2>2 DEF StreamTypes
<1>3. events' = IF s THEN Opening(p) ELSE <<>>
  BY DEF AcceptRequest
<1>4. CASE s
  <2>1. events' \in Seq(Events) /\ \A i \in DOMAIN events' : Fits(events', i)
    BY <1>3, <1>4, OpeningFits DEF Ongoing
  <2>2. BlocksSound(Blocks')
    <3> DEFINE b == Blocks'
    <3>1. b \in BlockStates /\ b.events = events' /\ b.next = 0 /\ b.open = "none" /\ b.tools = <<>>
      BY <1>2, <2>1 DEF Blocks, BlockStates, StreamTypes
    <3> HIDE DEF b
    <3>2. DOMAIN b.tools = {}
      BY <3>1
    <3>3. BlocksAgree(b)
      BY <1>3, <1>4, <3>1, <3>2, OpeningFits DEF BlocksAgree, OpenIn
    <3> QED BY <1>3, <1>4, <3>1, <3>3, OpeningFits DEF BlocksSound, b
  <2>3. BlocksSound(Blocks)'
    BY <2>2 DEF BlocksSound, BlocksAgree, OpenIn
  <2> QED BY <1>1, <1>2, <1>3, <1>4, <2>1, <2>3, OpeningFits
          DEF StreamInvariant, StreamTypeOK, StreamWellFormed, Accounted
<1>5. CASE ~s
  BY <1>1, <1>2, <1>3, <1>5, EmptySeq DEF StreamInvariant, StreamTypeOK, StreamWellFormed
<1> QED BY <1>4, <1>5

\* What a chunk does: the blocks are right for the messages protocol, the others
\* have only events without blocks, and what is reported is counted.
LEMMA ChunkKeeps ==
  ASSUME StreamInvariant, NEW chunk \in Chunks, NextChunk(chunk)
  PROVE  StreamInvariant'
<1> DEFINE a == AnthropicChunk(Blocks, chunk)
           anthropic == stream.protocol = "messages"
<1>1. /\ stream \in StreamTypes /\ events \in Seq(Events) /\ reported \in Nat /\ charged \in Nat
      /\ stream.pc = "reading" /\ Ongoing(events) /\ Flawless(events) /\ Accounted
      /\ anthropic => BlocksSound(Blocks)
  BY DEF StreamInvariant, StreamTypeOK, NextChunk
<1>2. chunk.usage \in Nat /\ chunk.tools \in Seq(ToolDeltas)
      /\ Count(chunk.thinking) \in Nat /\ Count(chunk.text) \in Nat
  BY ChunkQuiet DEF Count
<1>3. anthropic => BlocksSound(a)
  BY <1>1, <1>2, AnthropicChunkKeeps
<1>4. anthropic => /\ a.events \in Seq(Events) /\ a.next \in Nat /\ a.open \in {"none", "text", "thinking"}
                   /\ a.text \in BOOLEAN /\ a.tools \in Seq(Slots \X Nat) /\ a \in BlockStates
  BY <1>3 DEF BlocksSound, BlockStates
<1>5. /\ events' = CASE anthropic -> a.events
                  [] stream.protocol = "completions" -> events \o CompletionEvents(chunk)
                  [] OTHER -> events \o ResponseEvents(chunk)
      /\ stream' = [stream EXCEPT
           !.chunks = @ + 1,
           !.next = IF anthropic THEN a.next ELSE @, !.open = IF anthropic THEN a.open ELSE @,
           !.text = IF anthropic THEN a.text ELSE @, !.tools = IF anthropic THEN a.tools ELSE @,
           !.used = IF anthropic THEN @ + chunk.usage ELSE IF chunk.usage > 0 THEN chunk.usage ELSE @,
           !.guessed = IF anthropic THEN @ + Count(chunk.thinking) + Count(chunk.text) ELSE @]
      /\ reported' = reported + chunk.usage /\ charged' = charged
  BY DEF NextChunk
<1> HIDE DEF a
<1>6. /\ stream'.pc = "reading" /\ stream'.protocol = stream.protocol
      /\ stream'.next = (IF anthropic THEN a.next ELSE stream.next)
      /\ stream'.open = (IF anthropic THEN a.open ELSE stream.open)
      /\ stream'.text = (IF anthropic THEN a.text ELSE stream.text)
      /\ stream'.tools = (IF anthropic THEN a.tools ELSE stream.tools)
      /\ stream'.used = (IF anthropic THEN stream.used + chunk.usage
                         ELSE IF chunk.usage > 0 THEN chunk.usage ELSE stream.used)
  <2>1. /\ stream = [f \in {"protocol", "pc", "chunks", "next", "open", "text", "tools", "used", "guessed"} |->
                        stream[f]]
        /\ stream.pc = "reading"
    BY <1>1 DEF StreamTypes
  <2>2. CASE anthropic
    <3>1. /\ stream'.pc = stream.pc /\ stream'.protocol = stream.protocol /\ stream'.next = a.next
          /\ stream'.open = a.open /\ stream'.text = a.text /\ stream'.tools = a.tools
      BY <1>5, <2>1, <2>2
    <3>2. stream'.used = stream.used + chunk.usage
      BY <1>5, <2>1, <2>2
    <3> QED BY <2>1, <2>2, <3>1, <3>2
  <2>3. CASE ~anthropic
    <3>1. /\ stream'.pc = stream.pc /\ stream'.protocol = stream.protocol /\ stream'.next = stream.next
          /\ stream'.open = stream.open /\ stream'.text = stream.text /\ stream'.tools = stream.tools
      BY <1>5, <2>1, <2>3
    <3>2. stream'.used = IF chunk.usage > 0 THEN chunk.usage ELSE stream.used
      BY <1>5, <2>1, <2>3
    <3> QED BY <2>1, <2>3, <3>1, <3>2
  <2> QED BY <2>2, <2>3
<1>7. stream' \in StreamTypes
  <2>1. stream.chunks + 1 \in Nat /\ stream'.used \in Nat
        /\ stream.guessed + Count(chunk.thinking) + Count(chunk.text) \in Nat
    <3>1. stream.chunks \in Nat /\ stream.used \in Nat /\ stream.guessed \in Nat
      BY <1>1 DEF StreamTypes
    <3>2. chunk.usage \in Nat /\ Count(chunk.thinking) \in Nat /\ Count(chunk.text) \in Nat
      BY <1>1, <1>2 DEF Count
    <3>3. \/ stream'.used = stream.used + chunk.usage
          \/ stream'.used = chunk.usage
          \/ stream'.used = stream.used
      BY <1>6
    <3> QED BY <3>1, <3>2, <3>3
  <2>2. CASE anthropic
    <3>1. stream' = [stream EXCEPT
           !.chunks = stream.chunks + 1, !.next = a.next, !.open = a.open, !.text = a.text, !.tools = a.tools,
           !.used = stream.used + chunk.usage,
           !.guessed = stream.guessed + Count(chunk.thinking) + Count(chunk.text)]
      BY <1>5, <2>2
    <3>2. stream.used + chunk.usage \in Nat
      BY <1>1, <1>2 DEF StreamTypes
    <3> HIDE DEF anthropic
    <3> QED BY <1>1, <1>4, <2>1, <2>2, <3>1, <3>2 DEF StreamTypes
  <2>3. CASE ~anthropic
    <3> DEFINE used == IF chunk.usage > 0 THEN chunk.usage ELSE stream.used
    <3>1. stream' = [stream EXCEPT !.chunks = stream.chunks + 1, !.used = used]
      <4>1. stream' = [stream EXCEPT !.chunks = stream.chunks + 1, !.next = stream.next, !.open = stream.open,
              !.text = stream.text, !.tools = stream.tools, !.used = used, !.guessed = stream.guessed]
        BY <1>5, <2>3
      <4> HIDE DEF used
      <4> QED BY <1>1, <4>1 DEF StreamTypes
    <3>2. used \in Nat
      BY <1>1, <1>2 DEF StreamTypes
    <3> HIDE DEF used
    <3> QED BY <1>1, <2>1, <3>1, <3>2 DEF StreamTypes
  <2> QED BY <2>2, <2>3
<1>8. events' \in Seq(Events) /\ Ongoing(events') /\ Flawless(events')
  <2>1. CASE anthropic
    BY <1>3, <1>4, <1>5, <2>1 DEF BlocksSound
  <2>2. CASE ~anthropic
    <3>1. events' = events \o CompletionEvents(chunk) \/ events' = events \o ResponseEvents(chunk)
      BY <1>5, <2>2
    <3> QED BY <1>1, <3>1, ChunkQuiet, QuietKeeps DEF Ongoing
  <2> QED BY <2>1, <2>2
<1>9. anthropic => BlocksSound(Blocks)'
  <2> SUFFICES ASSUME anthropic PROVE BlocksSound(Blocks)'
    OBVIOUS
  <2>1. Blocks' = a
    <3>1. Blocks' = [events |-> a.events, next |-> a.next, open |-> a.open, text |-> a.text, tools |-> a.tools]
      BY <1>5, <1>6 DEF Blocks
    <3> QED BY <1>4, <3>1 DEF BlockStates
  <2>2. BlocksSound(Blocks')
    BY <1>3, <2>1
  <2> QED BY <2>2 DEF BlocksSound, BlocksAgree, OpenIn
<1>10. Accounted'
  <2>1. /\ stream.used \in Nat /\ reported \in Nat /\ chunk.usage \in Nat
        /\ stream.used <= reported /\ (stream.used = 0 <=> reported = 0)
    BY <1>1, <1>2 DEF Accounted, StreamTypes
  <2>2. reported' = reported + chunk.usage
    BY <1>5
  <2>3. \/ stream'.used = stream.used + chunk.usage
        \/ chunk.usage > 0 /\ stream'.used = chunk.usage
        \/ ~(chunk.usage > 0) /\ stream'.used = stream.used
    BY <1>6
  <2>4. stream'.used <= reported + chunk.usage /\ (stream'.used = 0 <=> reported + chunk.usage = 0)
    BY <2>1, <2>3, UsageCounted
  <2> QED BY <2>2, <2>4 DEF Accounted
<1> QED
  <2>1. reported' \in Nat /\ charged' \in Nat
    BY <1>1, <1>2, <1>5
  <2>2. \A i \in DOMAIN events' : Fits(events', i)
    BY <1>8 DEF Ongoing
  <2> QED BY <1>6, <1>7, <1>8, <1>9, <1>10, <2>1, <2>2 DEF StreamInvariant, StreamTypeOK, StreamWellFormed

\* The end of the chunks: what is open is closed, nothing is charged yet.
LEMMA LastChunkKeeps ==
  ASSUME StreamInvariant, LastChunk
  PROVE  StreamInvariant'
<1>1. /\ stream \in StreamTypes /\ events \in Seq(Events) /\ reported \in Nat /\ charged \in Nat
      /\ stream.pc = "reading" /\ Ongoing(events) /\ Flawless(events) /\ Accounted
      /\ stream.protocol = "messages" => BlocksSound(Blocks)
      /\ reported' = reported /\ charged' = charged
  BY DEF StreamInvariant, StreamTypeOK, LastChunk
<1>2. /\ stream' \in StreamTypes /\ stream'.pc = "charging" /\ stream'.protocol = stream.protocol
      /\ stream'.used = stream.used
  BY <1>1 DEF LastChunk, StreamTypes
<1>3. Ongoing(events') /\ (stream.protocol = "messages" => Flawless(events'))
  <2>1. CASE stream.protocol = "messages"
    <3>1. events' = AnthropicEnd(Blocks)
      BY <2>1 DEF LastChunk
    <3> QED BY <1>1, <2>1, <3>1, EndFits
  <2>2. CASE stream.protocol = "responses"
    <3> DEFINE e == Event("response.completed", 0)
    <3>1. events' = events \o Plain(<<"response.completed">>)
      BY <2>2 DEF LastChunk
    <3>2. e \in Events /\ e.type = "response.completed"
      BY DEF Event, Events, QuietTypes
    <3>3. events' = Append(events, e)
      BY <1>1, <3>1, <3>2, PlainOne
    <3>4. MayFollow(events, e) /\ e.type \notin LastTypes
      BY <3>2 DEF MayFollow, LastTypes
    <3> HIDE DEF e
    <3> QED BY <1>1, <2>2, <3>2, <3>3, <3>4, AppendedOngoing
  <2>3. CASE stream.protocol \notin {"messages", "responses"}
    <3>1. events' = events
      BY <2>3 DEF LastChunk
    <3> QED BY <1>1, <2>3, <3>1
  <2> QED BY <2>1, <2>2, <2>3
<1> QED BY <1>1, <1>2, <1>3 DEF StreamInvariant, StreamTypeOK, StreamWellFormed, Accounted, Ongoing

\* An exception becomes an error event, after which only the end may come.
LEMMA RaiseKeeps ==
  ASSUME StreamInvariant, StreamRaises
  PROVE  StreamInvariant'
<1> DEFINE e == Event("error", 0)
           c == Event("response.completed", 0)
           es == Append(events, e)
<1>1. /\ stream \in StreamTypes /\ events \in Seq(Events) /\ reported \in Nat /\ charged \in Nat
      /\ stream.pc = "reading" /\ Ongoing(events) /\ Flawless(events) /\ Accounted
      /\ reported' = reported /\ charged' = charged
  BY DEF StreamInvariant, StreamTypeOK, StreamRaises
<1>2. /\ stream' \in StreamTypes /\ stream'.protocol = stream.protocol /\ stream'.used = stream.used
      /\ stream'.pc = IF stream.protocol = "messages" THEN "failed" ELSE "charging"
  BY <1>1 DEF StreamRaises, StreamTypes
<1>3. /\ e \in Events /\ e.type = "error" /\ c \in Events /\ c.type = "response.completed"
  BY DEF Event, Events, QuietTypes
<1>4. events \o Plain(<<"error">>) = es
  BY <1>1, <1>3, PlainOne
<1>5. Ongoing(es)
  <2>1. MayFollow(events, e) /\ e.type \notin LastTypes
    BY <1>3 DEF MayFollow, LastTypes
  <2> HIDE DEF e
  <2> QED BY <1>1, <1>3, <2>1, AppendedOngoing
<1> HIDE DEF es
<1>6. Ongoing(events')
  <2>1. CASE stream.protocol = "responses"
    <3>1. events' = es \o Plain(<<"response.completed">>)
      BY <1>4, <2>1 DEF StreamRaises
    <3>2. es \in Seq(Events)
      BY <1>5 DEF Ongoing
    <3>3. events' = Append(es, c)
      BY <1>3, <3>1, <3>2, PlainOne
    <3>4. MayFollow(es, c) /\ c.type \notin LastTypes
      BY <1>3 DEF MayFollow, LastTypes
    <3> HIDE DEF c
    <3> QED BY <1>3, <1>5, <3>3, <3>4, AppendedOngoing
  <2>2. CASE stream.protocol # "responses"
    <3>1. events' = es \o <<>> /\ es \in Seq(Events)
      BY <1>4, <1>5, <2>2 DEF StreamRaises, Ongoing
    <3>2. events' = es
      BY <3>1, ConcatEmptySeq
    <3> QED BY <1>5, <3>2
  <2> QED BY <2>1, <2>2
<1> QED BY <1>1, <1>2, <1>6 DEF StreamInvariant, StreamTypeOK, StreamWellFormed, Accounted, Ongoing

\* The last event, after the recording that decides what was charged.
LEMMA TerminateKeeps ==
  ASSUME StreamInvariant, NEW recorded \in BOOLEAN, Terminate(recorded)
  PROVE  StreamInvariant'
<1> DEFINE t == IF stream.protocol = "messages" THEN "message_stop" ELSE "[DONE]"
           e == Event(t, 0)
<1>1. /\ stream \in StreamTypes /\ events \in Seq(Events) /\ reported \in Nat
      /\ stream.pc = "charging" /\ Ongoing(events) /\ (stream.protocol = "messages" => Flawless(events))
      /\ Accounted /\ reported' = reported
  BY DEF StreamInvariant, StreamTypeOK, Terminate
<1>2. stream' \in StreamTypes /\ stream'.pc = IF recorded THEN "closed" ELSE "uncharged"
  BY <1>1 DEF Terminate, StreamTypes
<1>3. e \in Events /\ e.type = t /\ t \in LastTypes /\ t \in {"message_stop", "[DONE]"}
  BY DEF Event, Events, LastTypes
<1>4. events' = Append(events, e)
  <2>1. events' = events \o Plain(<<t>>)
    BY DEF Terminate
  <2> HIDE DEF t
  <2> QED BY <1>1, <1>3, <2>1, PlainOne
<1>5. Flawless(events) \/ t = "[DONE]"
  BY <1>1
<1> HIDE DEF t
<1>6. MayFollow(events, e)
  BY <1>3 DEF MayFollow
<1> HIDE DEF e
<1>7. \A i \in DOMAIN events' : Fits(events', i)
  BY <1>1, <1>3, <1>4, <1>5, <1>6, AppendedFits
<1>8. events' \in Seq(Events) /\ events'[Len(events')].type \in LastTypes
  <2>1. Len(events') = Len(events) + 1 /\ events'[Len(events) + 1] = e /\ events' \in Seq(Events)
    BY <1>1, <1>3, <1>4, AppendedSame
  <2> QED BY <1>3, <2>1
<1>9. charged' \in Nat /\ (recorded /\ reported > 0 => 0 < charged' /\ charged' <= reported)
  <2>1. charged' = IF recorded THEN Tokens ELSE 0
    BY DEF Terminate
  <2>2. stream.used \in Nat /\ stream.guessed \in Nat
    BY <1>1 DEF StreamTypes
  <2> QED BY <1>1, <2>1, <2>2 DEF Tokens, Accounted
<1> QED BY <1>1, <1>2, <1>7, <1>8, <1>9 DEF StreamInvariant, StreamTypeOK, StreamWellFormed

\* A plain answer has no events, and is charged what was reported or nothing.
LEMMA ReplyKeeps ==
  ASSUME StreamInvariant, NEW usage \in 0 .. MaxUsage, NEW recorded \in BOOLEAN,
         Reply(usage, recorded) \/ ReplyError
  PROVE  StreamInvariant'
<1>1. /\ stream \in StreamTypes /\ events = <<>> /\ events \in Seq(Events) /\ reported \in Nat /\ charged \in Nat
      /\ events' = events /\ usage \in Nat
  BY StreamAssumption DEF StreamInvariant, StreamTypeOK, Reply, ReplyError
<1>2. CASE ReplyError
  <2>1. stream' \in StreamTypes /\ stream'.pc = "failed"
    BY <1>1, <1>2 DEF ReplyError, StreamTypes
  <2> QED BY <1>1, <1>2, <2>1 DEF ReplyError, StreamInvariant, StreamTypeOK, StreamWellFormed
<1>3. CASE Reply(usage, recorded)
  <2>1. stream' \in StreamTypes /\ stream'.pc = IF recorded THEN "closed" ELSE "uncharged"
    BY <1>1, <1>3 DEF Reply, StreamTypes
  <2>2. reported' = usage /\ charged' = IF recorded THEN usage ELSE 0
    BY <1>3 DEF Reply
  <2> QED BY <1>1, <2>1, <2>2 DEF StreamInvariant, StreamTypeOK, StreamWellFormed
<1> QED BY <1>2, <1>3

\* A client that goes away leaves the events as they are.
LEMMA DisconnectKeeps ==
  ASSUME StreamInvariant, Disconnect
  PROVE  StreamInvariant'
<1>1. stream \in StreamTypes /\ events' = events /\ reported' = reported /\ charged' = charged
  BY DEF StreamInvariant, StreamTypeOK, Disconnect
<1>2. stream' \in StreamTypes /\ stream'.pc = "gone"
  BY <1>1 DEF Disconnect, StreamTypes
<1> QED BY <1>1, <1>2 DEF StreamInvariant, StreamTypeOK, StreamWellFormed

\* Whatever order thinking, text, tool calls, errors and disconnections come in,
\* the events of messages.py, chat_completions.py and responses.py are a stream
\* the client can rebuild, and an answer that ends is charged what was reported.
THEOREM StreamsWellFormed == StreamsSpec => []StreamWellFormed
<1>1. StreamsInit => StreamInvariant
  BY StreamStart
<1>2. StreamInvariant /\ [StreamsNext]_streamVars => StreamInvariant'
  <2> SUFFICES ASSUME StreamInvariant, [StreamsNext]_streamVars PROVE StreamInvariant'
    OBVIOUS
  <2>1. ASSUME NEW p \in {"messages", "completions", "responses"}, NEW s \in BOOLEAN, AcceptRequest(p, s)
        PROVE  StreamInvariant'
    BY <2>1, AcceptKeeps
  <2>2. ASSUME NEW c \in Chunks, NextChunk(c) PROVE StreamInvariant'
    BY <2>2, ChunkKeeps
  <2>3. ASSUME NEW r \in BOOLEAN, Terminate(r) PROVE StreamInvariant'
    BY <2>3, TerminateKeeps
  <2>4. ASSUME NEW r \in BOOLEAN, NEW u \in 0 .. MaxUsage, Reply(u, r) PROVE StreamInvariant'
    BY <2>4, ReplyKeeps
  <2>5. CASE ReplyError
    <3>1. 0 \in 0 .. MaxUsage
      BY StreamAssumption
    <3> QED BY <2>5, <3>1, ReplyKeeps
  <2>6. CASE LastChunk \/ StreamRaises \/ Disconnect
    BY <2>6, LastChunkKeeps, RaiseKeeps, DisconnectKeeps
  <2>7. CASE UNCHANGED streamVars
    <3>1. stream' = stream /\ events' = events /\ reported' = reported /\ charged' = charged
      BY <2>7 DEF streamVars
    <3>2. Blocks' = Blocks
      BY <3>1 DEF Blocks
    <3> QED BY <3>1, <3>2 DEF StreamInvariant, StreamTypeOK, StreamWellFormed, Accounted, BlocksSound,
                              BlocksAgree, OpenIn
  <2> QED BY <2>1, <2>2, <2>3, <2>4, <2>5, <2>6, <2>7 DEF StreamsNext
<1>3. StreamInvariant => StreamWellFormed
  BY DEF StreamInvariant
<1> QED BY <1>1, <1>2, <1>3, PTL DEF StreamsSpec
=============================================================================
