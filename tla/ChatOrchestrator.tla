-------------------------- MODULE ChatOrchestrator --------------------------
(***************************************************************************)
(* One chat request in application/services/chat_orchestrator.py: the loop  *)
(* that asks the model, runs the gateway's own tools and asks again, for    *)
(* plain answers (orchestrate_chat) and streams (orchestrate_chat_stream).  *)
(* A tool call is its signature: a name with normalised arguments.          *)
(***************************************************************************)
EXTENDS Naturals, FiniteSets, SequencesExt

CONSTANTS Internal,         \* signatures of calls of supported gateway tools
          MaxIterations,    \* max_tool_iterations
          MaxToolCalls,     \* max_internal_tool_calls
          MaxRepeated,      \* max_repeated_tool_signatures
          MaxTurn           \* bound: tool calls the model puts in one turn

ASSUME OrchestratorAssumption ==
  {MaxIterations, MaxToolCalls, MaxRepeated, MaxTurn} \subseteq Nat \ {0}

VARIABLES chat,      \* the coroutine's locals
          asked,     \* turns the model was asked for
          ran,       \* ran[s]: how often the tool call s was really started,
          started,   \* and how many were started in all
          shown      \* what the client was sent: <<turn, chunk>>

chatVars == <<chat, asked, ran, started, shown>>

\* "external": a tool of the client; "unsupported": a reserved name without a tool.
Signatures == Internal \cup {"external", "unsupported"}
Turns == SeqOf(Signatures, MaxTurn)

\* turn, done: the calls of the current turn and how many have a result;
\* calls, counts: the budgets; overdue: the wall clock has run out.
Chat == [pc : {"loop", "model", "buffer", "turn", "tool", "running", "yield", "answered", "error"},
         streaming : BOOLEAN, iteration : 0..MaxIterations,
         turn : Turns, done : 0..MaxTurn, calls : 0..MaxToolCalls,
         counts : [Internal -> 0..MaxRepeated], overdue : BOOLEAN]

ChatInit ==
  /\ \E s \in BOOLEAN :
       chat = [pc |-> "loop", streaming |-> s, iteration |-> 0, turn |-> <<>>, done |-> 0,
               calls |-> 0, counts |-> [t \in Internal |-> 0], overdue |-> FALSE]
  /\ asked = 0
  /\ ran = [t \in Internal |-> 0] /\ started = 0
  /\ shown = {}

Go(pc) == chat' = [chat EXCEPT !.pc = pc]

-----------------------------------------------------------------------------
(* The loop.                                                                *)

MayIterate == chat.iteration < MaxIterations

\* The head of the loop, and the request to the model.
Ask ==
  /\ chat.pc = "loop"
  /\ IF MayIterate /\ ~chat.overdue
     THEN /\ chat' = [chat EXCEPT !.pc = "model", !.iteration = @ + 1,
                                  !.turn = <<>>, !.done = 0]
          /\ asked' = asked + 1
     ELSE Go("error") /\ UNCHANGED asked
  /\ UNCHANGED <<ran, started, shown>>

\* The model answers.  A stream is read to its end before anything is decided.
ModelAnswers(turn) ==
  /\ chat.pc \in {"model", "buffer"}
  /\ chat' = [chat EXCEPT !.pc = "turn", !.turn = turn]
  /\ UNCHANGED <<asked, ran, started, shown>>

StreamBegins ==
  /\ chat.pc = "model" /\ chat.streaming
  /\ Go("buffer")
  /\ UNCHANGED <<asked, ran, started, shown>>

\* LLMProviderException, too many tool calls, a turn too large to buffer, or the
\* wall clock, also in the middle of a stream.
ModelFails ==
  /\ chat.pc \in {"model", "buffer"}
  /\ Go("error")
  /\ UNCHANGED <<asked, ran, started, shown>>

-----------------------------------------------------------------------------
(* What to do with a turn.                                                  *)

Occurs(s) == Cardinality({i \in DOMAIN chat.turn : chat.turn[i] = s})
HasInternal == \E s \in Internal : Occurs(s) > 0
HasExternal == Occurs("external") > 0

Refused == Occurs("unsupported") > 0 \/ (HasInternal /\ HasExternal)

\* Seeded fault: the calls of one turn are counted once.
WithinBudgets_PerTurn ==
  /\ chat.calls + Len(chat.turn) <= MaxToolCalls
  /\ \A s \in Internal : Occurs(s) > 0 => chat.counts[s] + 1 <= MaxRepeated

\* _enforce_internal_budgets
WithinBudgets ==
  /\ chat.calls + Len(chat.turn) <= MaxToolCalls
  /\ \A s \in Internal : chat.counts[s] + Occurs(s) <= MaxRepeated

\* Seeded fault: only turns with a tool of the client are handed over as they are.
Final_External == HasExternal \/ Occurs("unsupported") = 0

\* Nothing in the turn is for the gateway.
Final == ~HasInternal

Decide ==
  /\ chat.pc = "turn"
  /\ CASE Refused -> Go("error")
       [] ~Refused /\ Final -> Go(IF chat.streaming THEN "yield" ELSE "answered")
       [] ~Refused /\ ~Final /\ ~WithinBudgets -> Go("error")
       [] OTHER -> chat' = [chat EXCEPT !.pc = "tool", !.calls = @ + Len(chat.turn),
                              !.counts = [s \in Internal |-> @[s] + Occurs(s)]]
  /\ shown' = IF ~Refused /\ Final /\ ~chat.streaming THEN {<<asked, 1>>, <<asked, 2>>} ELSE shown
  /\ UNCHANGED <<asked, ran, started>>

\* The next tool, if the wall clock allows; after the last one the loop goes on.
StartTool ==
  /\ chat.pc = "tool"
  /\ IF chat.done = Len(chat.turn) THEN Go("loop") /\ UNCHANGED <<ran, started>>
     ELSE IF chat.overdue THEN Go("error") /\ UNCHANGED <<ran, started>>
     ELSE /\ Go("running") /\ started' = started + 1
          /\ ran' = [ran EXCEPT ![chat.turn[chat.done + 1]] = @ + 1]
  /\ UNCHANGED <<asked, shown>>

\* A result, or an error, which becomes the result.
ToolReturns ==
  /\ chat.pc = "running"
  /\ chat' = [chat EXCEPT !.pc = "tool", !.done = @ + 1]
  /\ UNCHANGED <<asked, ran, started, shown>>

\* tool_timeout_seconds
ToolTimesOut ==
  /\ chat.pc = "running"
  /\ Go("error")
  /\ UNCHANGED <<asked, ran, started, shown>>

\* The buffered chunks of the last turn, here two.
Yield ==
  /\ chat.pc = "yield"
  /\ shown' = IF shown = {} THEN {<<asked, 1>>} ELSE shown \cup {<<asked, 2>>}
  /\ Go(IF shown = {} THEN "yield" ELSE "answered")
  /\ UNCHANGED <<asked, ran, started>>

\* max_tool_wall_clock_seconds pass
ClockRunsOut ==
  /\ ~chat.overdue /\ chat.pc \notin {"answered", "error"}
  /\ chat' = [chat EXCEPT !.overdue = TRUE]
  /\ UNCHANGED <<asked, ran, started, shown>>

ChatNext == \/ Ask \/ StreamBegins \/ ModelFails \/ Decide \/ StartTool
            \/ ToolReturns \/ ToolTimesOut \/ Yield \/ ClockRunsOut
            \/ \E turn \in Turns : ModelAnswers(turn)

ChatSpec == ChatInit /\ [][ChatNext]_chatVars

-----------------------------------------------------------------------------
(* Properties.                                                              *)

\* The limits of docs/architecture.md hold for what was really done: round trips
\* to the model, tools started, and tools started with one signature.
BudgetsHeld ==
  /\ chat \in Chat
  /\ asked <= MaxIterations
  /\ \A s \in Internal : ran[s] <= MaxRepeated
  /\ started <= MaxToolCalls

\* The client sees the last turn, whole, or an error: nothing of a turn that called
\* the gateway's tools, and nothing of a turn that was refused or broke off.
OnlyFinalTurnShown ==
  /\ \A x \in shown : x[1] = asked /\ ~HasInternal
  /\ chat.pc = "error" => shown = {}
  /\ chat.pc = "answered" => shown = {<<asked, 1>>, <<asked, 2>>}
=============================================================================
