--------------------------- MODULE ProviderStream ---------------------------
(***************************************************************************)
(* gpustack-ai-proxy: what a provider's handler makes of one body callback *)
(* of its stream.  A native event has the fields of a chunk                *)
(* (ClaudeStream); a conversion keeps those its provider's code keeps.     *)
(* A vertex part that is a thought is left out (it becomes text in tags).  *)
(*                                                                         *)
(* The state p of a stream is [buf, frames, marked, order]: the bytes kept *)
(* for the next callback, the framer, whether vertex sent [DONE], and the  *)
(* blocks bedrock has numbered as tool calls.                              *)
(***************************************************************************)
EXTENDS SseStream, ProviderMessages

Done == [t |-> "done", size |-> 2]
Blank == [t |-> "blank", size |-> 0]     \* "data: " and nothing else

StreamInit == [buf |-> <<>>, frames |-> NoFrames, marked |-> FALSE, order |-> <<>>]

\* ToHttpString writes the data of an event, which a note has not.
ToHttp(e) == IF e.t = "note" THEN Blank ELSE e
HttpEvents(events) == Wire([k \in DOMAIN events |-> ToHttp(events[k])])

-----------------------------------------------------------------------------
(* The conversions of the providers *)

\* vertex.go: one tool call at most, always of index 0; no role and no reason.
FromVertex(e) ==
  [Chunk EXCEPT !.text = e.text, !.usage = e.usage,
                !.tools = IF e.tools = <<>> THEN <<>> ELSE << [e.tools[1] EXCEPT !.i = 0] >>]

\* gemini.go: the reason comes with a part of text only; no role.
FromGemini(e) ==
  [Chunk EXCEPT !.text = e.text, !.usage = e.usage, !.finish = IF e.text = <<>> THEN "" ELSE e.finish]

\* getBedrockOpenAIToolCallIndex numbers the blocks that are tool calls.
Numbered(order, block) == IF block \in ToSet(order) THEN order ELSE Append(order, block)
IndexOf(order, block) == (CHOOSE k \in DOMAIN order : order[k] = block) - 1

\* bedrock.go: the ends of blocks, and their numbers, for a Claude client only.
FromBedrock(p, e, claude) ==
  LET order == IF e.tools = <<>> THEN p.order ELSE Numbered(p.order, e.tools[1].i)
      chunk == [e EXCEPT !.t = "chunk", !.finish = FinishReason(@), !.at = IF claude THEN @ ELSE NoBlock,
                         !.choices = e.usage = NoUsage,
                         !.tools = IF @ = <<>> THEN @ ELSE << [@[1] EXCEPT !.i = IndexOf(order, @)] >>]
  IN  [p |-> [p EXCEPT !.order = order],
       out |-> IF e.stop # NoBlock /\ ~claude THEN <<>> ELSE <<chunk>>]

\* claude.go, streamResponseClaude2OpenAI for a client of the OpenAI protocol.
\* The usage is kept in the provider, which all the streams of a VM share.
FromClaude(usage, e) ==
  LET counted == [usage EXCEPT !.completion = @ + e.usage.completion,
                               !.total = usage.prompt + usage.completion + e.usage.completion]
  IN  CASE e.t = "message_start" ->
             [usage |-> [NoUsage EXCEPT !.prompt = e.usage.prompt, !.completion = e.usage.completion],
              out |-> << [Chunk EXCEPT !.role = TRUE] >>]
        [] e.t = "content_block_start" /\ e.what = "tool_use" ->
             [usage |-> usage, out |-> << [Chunk EXCEPT !.tools = << [i |-> e.i, id |-> e.more[1], args |-> <<>>] >>] >>]
        [] e.t = "content_block_delta" /\ e.what = "input_json_delta" ->
             [usage |-> usage, out |-> << [Chunk EXCEPT !.tools = << [i |-> e.i, id |-> "", args |-> e.more] >>] >>]
        [] e.t = "content_block_delta" /\ e.what = "thinking_delta" ->
             [usage |-> usage, out |-> << [Chunk EXCEPT !.reasoning = e.more] >>]
        [] e.t = "content_block_delta" /\ e.what = "text_delta" ->
             [usage |-> usage, out |-> << [Chunk EXCEPT !.text = e.more] >>]
        [] e.t = "message_delta" -> [usage |-> counted, out |-> << [Chunk EXCEPT !.finish = FinishReason(e.what)] >>]
        [] e.t = "message_stop" ->
             [usage |-> usage, out |-> << [Chunk EXCEPT !.choices = FALSE, !.usage = usage] >>]
        [] OTHER -> [usage |-> usage, out |-> <<>>]

-----------------------------------------------------------------------------
(* The handlers: one callback of a stream *)

Result(p, usage, out) == [p |-> p, usage |-> usage, out |-> out]

\* No handler of its own, or one for single events (moonshot).
EventsHandler(p, usage, chunk) ==
  LET x == Extract(p.buf, chunk)
  IN  Result([p EXCEPT !.buf = x.buf], usage, HttpEvents(x.events))

\* The end of the stream ends its last event too, and [DONE] is sent once.
VertexHandler(p, usage, chunk, isLast) ==
  LET x == Extract(p.buf, IF isLast THEN chunk \o <<NL, NL>> ELSE chunk)
      seen == \E k \in DOMAIN x.events : x.events[k].t = "done"
      mark == ~p.marked /\ (isLast \/ seen)
      native == SelectSeq(x.events, LAMBDA e : e.t = "native")
      chunks == [k \in DOMAIN native |-> FromVertex(native[k])]
  IN  Result([p EXCEPT !.buf = x.buf, !.marked = @ \/ mark], usage,
             Wire(IF mark THEN Append(chunks, Done) ELSE chunks))

GeminiHandler(p, usage, chunk, isLast) ==
  LET f == FrameSSE(p.frames, chunk, isLast)
      native == SelectSeq(f.events, LAMBDA e : e.t = "native")
  IN  Result([p EXCEPT !.frames = f.f], usage, Wire([k \in DOMAIN native |-> FromGemini(native[k])]))

ClaudeHandler(p, usage, chunk, isLast) ==
  LET f == FrameSSE(p.frames, chunk, isLast)
      r == FoldLeft(LAMBDA s, e : LET c == FromClaude(s.usage, e)
                                  IN  [usage |-> c.usage, out |-> s.out \o c.out],
                    [usage |-> usage, out |-> <<>>],
                    SelectSeq(f.events, LAMBDA e : e.t \notin {"done", "note"}))
  IN  Result([p EXCEPT !.frames = f.f], r.usage, Wire(r.out))

\* Binary frames: an event is its atoms, nothing between two.  A callback that
\* completes none is an error, unless it is the last, and is forwarded as it is.
Frames(bytes) ==
  FoldLeft(LAMBDA r, a : IF a.i < Pieces(a.e) THEN [r EXCEPT !.buf = Append(@, a)]
                         ELSE [events |-> Append(r.events, a.e), buf |-> <<>>],
           [events |-> <<>>, buf |-> <<>>], bytes)

BedrockHandler(p, usage, chunk, isLast, claude) ==
  LET x == Frames(p.buf \o chunk)
      kept == [p EXCEPT !.buf = x.buf]
      r == FoldLeft(LAMBDA s, e : LET c == FromBedrock(s.p, e, claude)
                                  IN  [p |-> c.p, out |-> s.out \o c.out],
                    [p |-> kept, out |-> <<>>], x.events)
      done == IF isLast THEN <<Done>> ELSE <<>>
  IN  IF x.events = <<>> /\ ~isLast THEN Result(kept, usage, chunk)
      ELSE Result(r.p, usage, Wire(r.out \o done))

\* FALSE: nothing after the handler sees this callback.  (The bytes of an empty
\* one are nil.)
Converts(handler, p, chunk, isLast) ==
  CASE handler \in {"none", "event"} -> Extract(p.buf, chunk).events # <<>>
    [] handler = "bedrock" -> isLast \/ Frames(p.buf \o chunk).events # <<>>
    [] handler = "raw" -> chunk # <<>>
    [] OTHER -> TRUE

Handle(handler, p, usage, chunk, isLast, claude) ==
  CASE handler \in {"none", "event"} -> EventsHandler(p, usage, chunk)
    [] handler = "vertex" -> VertexHandler(p, usage, chunk, isLast)
    [] handler = "gemini" -> GeminiHandler(p, usage, chunk, isLast)
    [] handler = "claude" -> ClaudeHandler(p, usage, chunk, isLast)
    [] handler = "bedrock" -> BedrockHandler(p, usage, chunk, isLast, claude)
    [] OTHER -> Result(p, usage, chunk)

-----------------------------------------------------------------------------
(* main.go: promoteThinkingInStreamingChunk.  Reasoning is held back until   *)
(* there is content; at the end of a stream without, it becomes the content. *)

NoPromotion == [held |-> <<>>, content |-> FALSE]

PromoteLine(s, line) ==
  LET e == line[1].e
      chunk == line # <<>> /\ line = EventAtoms(e) /\ e.t = "chunk"
  IN  IF ~chunk \/ s.q.content THEN [s EXCEPT !.out = Append(@, line)]
      ELSE IF e.text # <<>> THEN [q |-> [s.q EXCEPT !.content = TRUE], out |-> Append(s.out, line)]
      ELSE [q |-> [s.q EXCEPT !.held = @ \o e.reasoning],
            out |-> Append(s.out, EventAtoms([e EXCEPT !.reasoning = <<>>]))]

Joined(lines) ==
  FoldLeft(LAMBDA out, l : out \o <<NL>> \o l, Head(lines), Tail(lines))

Promote(q, atoms, isLast) ==
  LET s == FoldLeft(PromoteLine, [q |-> q, out |-> <<>>], Lines(atoms))
      flush == Wire(<< [Chunk EXCEPT !.text = s.q.held] >>)
  IN  [q |-> s.q,
       out |-> (IF isLast /\ ~s.q.content /\ s.q.held # <<>> THEN flush ELSE <<>>) \o Joined(s.out)]

\* convertStreamingResponseToClaude.
ToClaude(c, frames, atoms, isLast) ==
  LET f == FrameSSE(frames, atoms, isLast)
      r == ConvertStream(c, f.events)
  IN  [c |-> r.c, frames |-> f.f, out |-> Wire(r.out)]
=============================================================================
