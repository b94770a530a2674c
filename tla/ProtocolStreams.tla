--------------------------- MODULE ProtocolStreams ---------------------------
(***************************************************************************)
(* The three chat protocols: presentation/routers/messages.py (Anthropic),  *)
(* chat_completions.py and responses.py (OpenAI), for one request.  The     *)
(* chunks of the orchestrator's last turn become events; an exception may   *)
(* come instead of the next chunk, and the client may go away at any time.  *)
(* An event is its type and the content block it is about; what is charged  *)
(* goes to record_token_usage (Quotas has the row).                         *)
(***************************************************************************)
EXTENDS Naturals, FiniteSets, SequencesExt

CONSTANTS ToolDeltas,     \* tool calls in chunks: index, and whether with arguments
          NoIndex,        \* a tool call without an index
          MaxCalls,       \* bounds: tool calls in a chunk,
          MaxUsage,       \* tokens reported with a chunk,
          MaxChunks       \* and chunks in a stream

ASSUME StreamAssumption == MaxCalls \in Nat /\ MaxUsage \in Nat

VARIABLES stream,    \* the generator's locals
          events,    \* the events, in order
          reported,  \* history: the tokens the provider has reported
          charged    \* what was recorded for the principal; 0 before

streamVars == <<stream, events, reported, charged>>

Chunks == [thinking : BOOLEAN, text : BOOLEAN, tools : SeqOf(ToolDeltas, MaxCalls), usage : 0 .. MaxUsage]

Event(type, index) == [type |-> type, index |-> index]

\* next, open, text, tools: next_index, open_block, text_block_opened,
\* open_tool_blocks; used, guessed: the tokens reported and estimated.
NoStream == [protocol |-> "none", pc |-> "idle", chunks |-> 0, next |-> 0, open |-> "none",
             text |-> FALSE, tools |-> <<>>, used |-> 0, guessed |-> 0]

StreamsInit == stream = NoStream /\ events = <<>> /\ reported = 0 /\ charged = 0

-----------------------------------------------------------------------------
(* Anthropic content blocks.  b: the events so far and the locals on blocks. *)

Send(b, type, index) == [b EXCEPT !.events = Append(@, Event(type, index))]

BlockStart(b, kind) ==
  Send([b EXCEPT !.open = kind, !.text = @ \/ kind = "text"], "content_block_start", b.next)

BlockStop(b) ==
  Send([b EXCEPT !.next = @ + 1, !.open = "none"], "content_block_stop", b.next)

Closed(b) == IF b.open = "none" THEN b ELSE BlockStop(b)

TextDelta(b, kind) ==
  LET c == IF b.open = kind THEN b ELSE BlockStart(Closed(b), kind)
  IN Send(c, "content_block_delta", c.next)

\* tools is a sequence of <<slot, index>>, in the order they were opened.
BlocksOf(b, slot) == {i \in DOMAIN b.tools : b.tools[i][1] = slot}

ToolDelta(b, pos, call) ==
  LET slot == IF call.index = NoIndex THEN pos - 1 ELSE call.index
      c == IF BlocksOf(b, slot) # {} THEN b
           ELSE Send([b EXCEPT !.tools = Append(@, <<slot, b.next>>), !.next = @ + 1],
                     "content_block_start", b.next)
      at == CHOOSE i \in BlocksOf(c, slot) : TRUE
  IN IF call.arguments THEN Send(c, "content_block_delta", c.tools[at][2]) ELSE c

\* Seeded fault: the open block is left open when tool calls begin.
BeforeTools_LeftOpen(b) == b

\* Tool blocks follow a closed text block, an empty one if there was none.
BeforeTools(b) ==
  LET c == Closed(b)
  IN IF c.text \/ c.tools # <<>> THEN c ELSE BlockStop(BlockStart(c, "text"))

\* The tool calls of a chunk, one after the other.
ToolDeltasOf(b, calls) ==
  LET after[n \in 0 .. Len(calls)] ==
        IF n = 0 THEN BeforeTools(b) ELSE ToolDelta(after[n - 1], n, calls[n])
  IN after[Len(calls)]

AnthropicChunk(b, chunk) ==
  LET x == IF chunk.thinking THEN TextDelta(b, "thinking") ELSE b
      y == IF chunk.text THEN TextDelta(x, "text") ELSE x
  IN IF chunk.tools = <<>> THEN y ELSE ToolDeltasOf(y, chunk.tools)

\* Tool blocks stay open to the end of the message.
AnthropicEnd(b) ==
  LET x == Closed(IF b.open = "none" /\ ~b.text /\ b.tools = <<>> THEN BlockStart(b, "text") ELSE b)
      stops == [i \in DOMAIN x.tools |-> Event("content_block_stop", x.tools[i][2])]
  IN Append(x.events \o stops, Event("message_delta", 0))

-----------------------------------------------------------------------------
Count(flag) == IF flag THEN 1 ELSE 0
Plain(types) == [i \in DOMAIN types |-> Event(types[i], 0)]

\* What a chunk becomes.
CompletionEvents(chunk) == Plain(<<"chunk">>)
ResponseEvents(chunk) ==
  Plain((IF chunk.text THEN <<"output_text.delta">> ELSE <<>>)
        \o (IF chunk.thinking THEN <<"reasoning_summary_text.delta">> ELSE <<>>)
        \o [i \in DOMAIN chunk.tools |-> "function_call_arguments.delta"]
        \o (IF chunk.usage > 0 THEN <<"usage.delta">> ELSE <<>>))

Opening(protocol) ==
  CASE protocol = "messages" -> Plain(<<"message_start">>)
    [] protocol = "completions" -> Plain(<<"chunk">>)
    [] protocol = "responses" -> Plain(<<"response.created", "response.in_progress">>)

\* The request is accepted; a plain answer has no events.
AcceptRequest(protocol, streaming) ==
  /\ stream.pc = "idle"
  /\ stream' = [NoStream EXCEPT !.protocol = protocol, !.pc = IF streaming THEN "reading" ELSE "plain"]
  /\ events' = IF streaming THEN Opening(protocol) ELSE <<>>
  /\ UNCHANGED <<reported, charged>>

Blocks == [events |-> events, next |-> stream.next, open |-> stream.open,
           text |-> stream.text, tools |-> stream.tools]

\* messages.py adds up the usage of the chunks, the others keep the last.
NextChunk(chunk) ==
  LET b == AnthropicChunk(Blocks, chunk)
      anthropic == stream.protocol = "messages"
  IN /\ stream.pc = "reading" /\ stream.chunks < MaxChunks
     /\ events' = CASE anthropic -> b.events
                  [] stream.protocol = "completions" -> events \o CompletionEvents(chunk)
                  [] OTHER -> events \o ResponseEvents(chunk)
     /\ stream' = [stream EXCEPT
          !.chunks = @ + 1,
          !.next = IF anthropic THEN b.next ELSE @, !.open = IF anthropic THEN b.open ELSE @,
          !.text = IF anthropic THEN b.text ELSE @, !.tools = IF anthropic THEN b.tools ELSE @,
          !.used = IF anthropic THEN @ + chunk.usage ELSE IF chunk.usage > 0 THEN chunk.usage ELSE @,
          !.guessed = IF anthropic THEN @ + Count(chunk.thinking) + Count(chunk.text) ELSE @]
     /\ reported' = reported + chunk.usage
     /\ UNCHANGED charged

\* The iterator is at its end.
LastChunk ==
  /\ stream.pc = "reading"
  /\ stream' = [stream EXCEPT !.pc = "charging"]
  /\ events' = CASE stream.protocol = "messages" -> AnthropicEnd(Blocks)
               [] stream.protocol = "responses" -> events \o Plain(<<"response.completed">>)
               [] OTHER -> events
  /\ UNCHANGED <<reported, charged>>

\* An exception instead of a chunk: messages.py stops there, the others go on as
\* if the stream had ended.
StreamRaises ==
  /\ stream.pc = "reading"
  /\ stream' = [stream EXCEPT !.pc = IF stream.protocol = "messages" THEN "failed" ELSE "charging"]
  /\ events' = events \o Plain(<<"error">>)
             \o (IF stream.protocol = "responses" THEN Plain(<<"response.completed">>) ELSE <<>>)
  /\ UNCHANGED <<reported, charged>>

\* streamed_tokens: reported, or estimated for Anthropic when nothing was.
Tokens == IF stream.used = 0 THEN stream.guessed ELSE stream.used

\* record_token_usage, which may fail unnoticed, then the last event.
Terminate(recorded) ==
  /\ stream.pc = "charging"
  /\ charged' = IF recorded THEN Tokens ELSE 0
  /\ events' = events \o Plain(<<IF stream.protocol = "messages" THEN "message_stop" ELSE "[DONE]">>)
  /\ stream' = [stream EXCEPT !.pc = IF recorded THEN "closed" ELSE "uncharged"]
  /\ UNCHANGED reported

\* A plain answer: charged before it is converted and returned, or an error.
Reply(usage, recorded) ==
  /\ stream.pc = "plain"
  /\ reported' = usage /\ charged' = IF recorded THEN usage ELSE 0
  /\ stream' = [stream EXCEPT !.pc = IF recorded THEN "closed" ELSE "uncharged", !.used = usage]
  /\ UNCHANGED events
ReplyError == /\ stream.pc = "plain" /\ stream' = [stream EXCEPT !.pc = "failed"]
              /\ UNCHANGED <<events, reported, charged>>

\* The client goes away: the generator is closed where it stands.
Disconnect ==
  /\ stream.pc \in {"reading", "charging", "plain"}
  /\ stream' = [stream EXCEPT !.pc = "gone"]
  /\ UNCHANGED <<events, reported, charged>>

StreamsNext ==
  \/ \E p \in {"messages", "completions", "responses"}, s \in BOOLEAN : AcceptRequest(p, s)
  \/ \E c \in Chunks : NextChunk(c)
  \/ LastChunk \/ StreamRaises \/ Disconnect \/ ReplyError
  \/ \E r \in BOOLEAN : Terminate(r) \/ \E u \in 0 .. MaxUsage : Reply(u, r)

StreamsSpec == StreamsInit /\ [][StreamsNext]_streamVars

-----------------------------------------------------------------------------
Starts(es, i) == {j \in 1 .. (i - 1) : es[j].type = "content_block_start"}
Earlier(es, i, type, index) == {j \in 1 .. (i - 1) : es[j] = Event(type, index)}

LastTypes == {"message_stop", "[DONE]"}

\* The ith event fits what came before and what follows.
Fits(es, i) ==
  LET e == es[i] IN
  /\ e.type = "content_block_start" => e.index = Cardinality(Starts(es, i))
  /\ e.type \in {"content_block_delta", "content_block_stop"} =>
       /\ Earlier(es, i, "content_block_start", e.index) # {}
       /\ Earlier(es, i, "content_block_stop", e.index) = {}
  /\ e.type = "message_delta" =>
       \A j \in Starts(es, i) : Earlier(es, i, "content_block_stop", es[j].index) # {}
  /\ e.type \in LastTypes => i = Len(es)
  /\ e.type = "error" => \A j \in (i + 1) .. Len(es) : es[j].type \in {"response.completed", "[DONE]"}

\* Whatever order thinking, text and tool calls come in, a client can rebuild
\* the message: blocks are numbered 0, 1, 2, ... in the order they start, deltas
\* and the one stop go to a block that is open, all are closed before the end is
\* announced, and nothing follows the last event.  An answer that ends is charged
\* for what the provider reported, and for no more.
StreamWellFormed ==
  /\ \A i \in DOMAIN events : Fits(events, i)
  /\ stream.pc \in {"closed", "uncharged"} /\ events # <<>> => events[Len(events)].type \in LastTypes
  /\ stream.pc = "closed" /\ reported > 0 => 0 < charged /\ charged <= reported
=============================================================================
