---------------------------- MODULE ClaudeStream ----------------------------
(***************************************************************************)
(* gpustack-ai-proxy, provider/claude_to_openai.go: what an OpenAI answer  *)
(* becomes for a client that speaks the Claude messages protocol.          *)
(*                                                                         *)
(* A chunk of the OpenAI stream has                                        *)
(*   role       TRUE when its delta carries a role                         *)
(*   reasoning, text     the pieces of content it adds                     *)
(*   signature, redacted "" or a piece of content                          *)
(*   tools      its tool calls, each [i, id, args]; id "" continues call i *)
(*   finish     "" or the finish reason                                    *)
(*   usage      NoUsage, or its token counts                               *)
(*   at, stop   the content block claude.go and bedrock.go tell, or NoBlock *)
(* A Claude event is [t, i, what, more, usage, size]: its type, the block, *)
(* the kind of content or the stop reason, and the content.  In its usage  *)
(* "prompt" is input_tokens and "cached" is cache_read_input_tokens.       *)
(***************************************************************************)
EXTENDS Integers, Sequences, SequencesExt

NoBlock == -1
NoUsage == [prompt |-> 0, cached |-> 0, completion |-> 0, total |-> 0]

Chunk == [t |-> "chunk", role |-> FALSE, reasoning |-> <<>>, signature |-> "", redacted |-> "",
          text |-> <<>>, tools |-> <<>>, finish |-> "", usage |-> NoUsage, choices |-> TRUE,
          at |-> NoBlock, stop |-> NoBlock, size |-> 2]

Event(t, i, what, more, usage) ==
  [t |-> t, i |-> i, what |-> what, more |-> more, usage |-> usage, size |-> 2]

\* computeClaudeInputTokens: OpenAI counts the cached tokens as prompt tokens,
\* Claude does not, and the total tells whether this provider did.
ClaudeInput(u) ==
  IF u.cached > 0 /\ u.total > 0 /\ u.total = u.prompt + u.completion
  THEN u.prompt - u.cached ELSE u.prompt

ClaudeUsage(u) == [prompt |-> ClaudeInput(u), cached |-> u.cached, completion |-> u.completion, total |-> 0]
StartUsage(u) == [NoUsage EXCEPT !.prompt = ClaudeInput(u)]

-----------------------------------------------------------------------------
(* ClaudeToOpenAIConverter *)

ConverterInit ==
  [started |-> FALSE, stopped |-> FALSE, pending |-> "", next |-> 0,
   thinking |-> [open |-> FALSE, at |-> NoBlock], text |-> [open |-> FALSE, at |-> NoBlock],
   tools |-> <<>>, active |-> NoBlock, redacted |-> {}]

\* The calls by the order of their first chunk, each [i, id, at, open, closed, args].
CallAt(c, i) == {k \in DOMAIN c.tools : c.tools[k].i = i}

Emit(s, event) == [s EXCEPT !.out = Append(@, event)]
EmitIf(b, s, event) == IF b THEN Emit(s, event) ELSE s

Close(s, kind) ==
  IF ~s.c[kind].open THEN s
  ELSE [Emit(s, Event("content_block_stop", s.c[kind].at, "", <<>>, NoUsage))
          EXCEPT !.c[kind].open = FALSE]

\* content_block_start, at the index the chunk names or the next free one.
Open(s, kind, e) ==
  LET at == IF e.at # NoBlock THEN e.at ELSE s.c.next
      next == IF at >= s.c.next THEN at + 1 ELSE s.c.next
  IN  IF s.c[kind].open THEN s
      ELSE [Emit(s, Event("content_block_start", at, kind, <<>>, NoUsage))
              EXCEPT !.c[kind] = [open |-> TRUE, at |-> at], !.c.next = next]

Delta(s, at, what, more) == Emit(s, Event("content_block_delta", at, what, more, NoUsage))

MessageStart(s, e) ==
  IF s.c.started THEN s
  ELSE [Emit(s, Event("message_start", NoBlock, "", <<>>, StartUsage(e.usage))) EXCEPT !.c.started = TRUE]

\* An upstream that tells its own block ends: nothing at all unless one of
\* ours is closed by it.
BlockStop(s, e) ==
  LET ends(b) == b.open /\ b.at = e.stop
      c == [s.c EXCEPT !.thinking.open = @ /\ ~ends(s.c.thinking),
                       !.text.open = @ /\ ~ends(s.c.text),
                       !.tools = [k \in DOMAIN @ |->
                                   [@[k] EXCEPT !.closed = @ \/ s.c.tools[k].at = e.stop]],
                       !.redacted = @ \ {e.stop}]
      stopped == Emit([s EXCEPT !.c = c], Event("content_block_stop", e.stop, "", <<>>, NoUsage))
  IN  IF c = s.c THEN [s EXCEPT !.out = <<>>] ELSE stopped

Redacted(s, e) ==
  LET closed == Close(Close(s, "thinking"), "text")
      at == IF e.at # NoBlock THEN e.at ELSE closed.c.next
  IN  [Emit(closed, Event("content_block_start", at, "redacted_thinking", <<e.redacted>>, NoUsage))
         EXCEPT !.c.next = IF at >= @ THEN at + 1 ELSE @, !.c.redacted = @ \cup {at}]

Thinking(s, e) ==
  LET think == Open(s, "thinking", e)
      reasoned == IF e.reasoning = <<>> THEN s
                  ELSE Delta(think, think.c.thinking.at, "thinking_delta", e.reasoning)
      sign == Open(reasoned, "thinking", e)
  IN  IF e.signature = "" THEN reasoned
      ELSE Delta(sign, sign.c.thinking.at, "signature_delta", <<e.signature>>)

\* The fault of a text block that starts inside the thinking block.
TextInside(s, e) ==
  LET o == Open(s, "text", e)
  IN  IF e.text = <<>> THEN s ELSE Delta(o, o.c.text.at, "text_delta", e.text)

Text(s, e) ==
  LET o == Open(Close(s, "thinking"), "text", e)
  IN  IF e.text = <<>> THEN s ELSE Delta(o, o.c.text.at, "text_delta", e.text)

\* startToolCall: closes what is open, and sends the arguments kept so far.
StartTool(s, k) ==
  LET closed == Close(Close(s, "thinking"), "text")
      call == s.c.tools[k]
      at == IF call.at = NoBlock THEN closed.c.next ELSE call.at
      o == [Emit(closed, Event("content_block_start", at, "tool_use", <<call.id>>, NoUsage))
              EXCEPT !.c.tools[k].at = at, !.c.tools[k].open = TRUE,
                     !.c.next = IF at >= @ THEN at + 1 ELSE @]
  IN  IF call.args = <<>> THEN o ELSE Delta(o, at, "input_json_delta", call.args)

\* One tool call of a chunk.  Claude's blocks come one at a time: a call is
\* started when none is active, and its arguments are kept until it is.
Know(s, e, d) ==
  LET new == [i |-> d.i, id |-> d.id, at |-> e.at, open |-> FALSE, closed |-> FALSE, args |-> <<>>]
  IN  IF d.id # "" /\ CallAt(s.c, d.i) = {} THEN [s EXCEPT !.c.tools = Append(@, new)] ELSE s

Begin(s, d, k) ==
  IF d.id # "" /\ s.c.active = NoBlock THEN StartTool([s EXCEPT !.c.active = d.i], k) ELSE s

Argue(s, d, k) ==
  LET kept == [s EXCEPT !.c.tools[k].args = @ \o d.args]
  IN  IF d.args = <<>> THEN s
      ELSE IF s.c.active = d.i /\ s.c.tools[k].open
      THEN Delta(kept, s.c.tools[k].at, "input_json_delta", d.args)
      ELSE kept

CallKnown(s, d) ==
  IF CallAt(s.c, d.i) = {} THEN s
  ELSE LET k == CHOOSE x \in CallAt(s.c, d.i) : TRUE IN Argue(Begin(s, d, k), d, k)

ToolDelta(s, e, d) == CallKnown(Know(s, e, d), d)

Tools(s, e) ==
  IF e.tools = <<>> THEN s
  ELSE FoldLeft(LAMBDA r, d : ToolDelta(r, e, d), MessageStart(s, e), e.tools)

\* A finish reason closes everything; calls not started yet are started first,
\* all of them, in the order of their index.
StopReason(finish) ==
  CASE finish = "stop" -> "end_turn"
    [] finish = "length" -> "max_tokens"
    [] finish = "tool_calls" -> "tool_use"
    [] OTHER -> finish

ToolOrder(c) == SetToSortSeq(DOMAIN c.tools, LAMBDA a, b : c.tools[a].i < c.tools[b].i)

StopTools(s) ==
  FoldLeft(LAMBDA r, k :
             IF r.c.tools[k].open /\ ~r.c.tools[k].closed
             THEN [Emit(r, Event("content_block_stop", r.c.tools[k].at, "", <<>>, NoUsage))
                     EXCEPT !.c.tools[k].closed = TRUE]
             ELSE r,
           s, ToolOrder(s.c))

Finish(s, e) ==
  LET closed == Close(Close(s, "thinking"), "text")
      begun == FoldLeft(LAMBDA r, k : IF r.c.tools[k].open THEN r ELSE StartTool(r, k),
                        closed, ToolOrder(closed.c))
  IN  IF e.finish = "" THEN s
      ELSE [StopTools(begun) EXCEPT !.c.active = NoBlock, !.c.pending = StopReason(e.finish)]

\* The stop reason waits for the usage, and the message stops with both.
Usage(s, e) ==
  LET told == Emit([s EXCEPT !.c.pending = ""],
                   Event("message_delta", NoBlock, s.c.pending, <<>>, ClaudeUsage(e.usage)))
  IN  IF e.usage = NoUsage THEN s
      ELSE IF s.c.pending # "" /\ ~s.c.stopped
      THEN [Emit(told, Event("message_stop", NoBlock, "", <<>>, NoUsage)) EXCEPT !.c.stopped = TRUE]
      ELSE told

\* buildClaudeStreamResponse.
BuildStream(s, e) ==
  LET begun == IF e.role THEN MessageStart(s, e) ELSE s
  IN  IF e.stop # NoBlock THEN BlockStop(begun, e)
      ELSE IF e.redacted # "" THEN Redacted(begun, e)
      ELSE Usage(Finish(Tools(Text(Thinking(begun, e), e), e), e), e)

\* [DONE] ends what is still open and forgets everything.
Finalize(s) ==
  LET closed == StopTools(Close(Close(s, "thinking"), "text"))
      told == EmitIf(closed.c.pending # "", closed,
                     Event("message_delta", NoBlock, closed.c.pending, <<>>, NoUsage))
      done == EmitIf(told.c.started /\ ~told.c.stopped, told,
                     Event("message_stop", NoBlock, "", <<>>, NoUsage))
  IN  [done EXCEPT !.c = [ConverterInit EXCEPT !.redacted = s.c.redacted]]

\* ConvertOpenAIStreamResponseToClaude.  Its own framing sees whole events
\* only: main.go hands it no others.  What is not JSON is left out.
ConvertEvent(s, e) ==
  IF e.t = "done" THEN Finalize(s)
  ELSE IF s.c.stopped \/ e.t # "chunk" THEN s
  ELSE [BuildStream([s EXCEPT !.out = <<>>], e) EXCEPT !.out = s.out \o @]

ConvertStream(c, events) ==
  FoldLeft(ConvertEvent, [c |-> c, out |-> <<>>], events)

\* ConvertOpenAIResponseToClaude with claudeContentFromOpenAIMessage.
ConvertResponse(e) ==
  LET calls == SelectSeq(e.tools, LAMBDA d : d.id # "" \/ d.args # <<>>)
  IN  [t |-> "message", i |-> NoBlock, usage |-> IF e.usage = NoUsage THEN NoUsage ELSE ClaudeUsage(e.usage), size |-> e.size,
       what |-> StopReason(e.finish),
       more |-> (IF e.reasoning = <<>> THEN <<>> ELSE << <<"thinking", e.reasoning>> >>)
                \o (IF e.text = <<>> THEN <<>> ELSE << <<"text", e.text>> >>)
                \o [k \in DOMAIN calls |-> <<"tool_use", calls[k].args>>]]

=============================================================================
