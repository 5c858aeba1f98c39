------------------------------ MODULE UsageTap ------------------------------
(***************************************************************************)
(* gpustack-token-usage: what it reads of the answers it forwards.         *)
(*                                                                         *)
(* The state u of a request is                                             *)
(*   tracked, process, strip    decided with the request                   *)
(*   streaming                  the answer is rewritten event by event     *)
(*   buf, over                  bytes of an event or of a body; too many   *)
(*   count                      chunks with output (OutputChunkCountKey)   *)
(*   usage, fixed               FinalUsageKey; UsageExtraKey is set        *)
(*   completed                                                             *)
(* The timing fields written into a usage object are left out.             *)
(***************************************************************************)
EXTENDS SseStream, ClaudeStream

CONSTANT
  MaxHeld      \* maxResponseBodyBytes, in atoms

TapInit == [tracked |-> FALSE, process |-> FALSE, strip |-> FALSE, streaming |-> FALSE,
            buf |-> <<>>, over |-> FALSE, count |-> 0, usage |-> NoUsage, fixed |-> FALSE,
            completed |-> FALSE]

\* GetTokenUsage of the SDK: the input side of a Claude answer is told once, in
\* its message_start, and kept for the events after it.
GetTokenUsage(u, e) ==
  IF e.t = "message_delta" /\ e.usage.prompt = 0
  THEN [e.usage EXCEPT !.prompt = u.usage.prompt - u.usage.cached, !.cached = u.usage.cached]
  ELSE e.usage

\* The fault of taking the prompt as it is told.
CountedAsTold(u, e) ==
  LET usage == GetTokenUsage(u, e) IN [usage EXCEPT !.total = usage.prompt + usage.completion]

\* resolveInputToken and resolveInputCachedToken: the tokens of a Claude prompt
\* leave the cached ones out.
Counted(u, e) ==
  LET usage == GetTokenUsage(u, e)
      prompt == IF e.t = "chunk" THEN usage.prompt ELSE usage.prompt + usage.cached
  IN  [usage EXCEPT !.prompt = prompt, !.total = prompt + usage.completion]

\* isOutputDeltaChunk.
OutputDelta(e) ==
  \/ e.t = "chunk" /\ e.choices /\ (e.text # <<>> \/ e.reasoning # <<>> \/ e.tools # <<>>)
  \/ e.t = "content_block_delta" /\ e.what # "signature_delta" /\ e.more # <<>>

\* countOutputDeltaChunk, and captureAnthropicMessageStart.
Observe(u, e) ==
  LET counted == IF OutputDelta(e) THEN [u EXCEPT !.count = @ + 1] ELSE u
  IN  IF e.t = "message_start" /\ e.usage # NoUsage THEN [counted EXCEPT !.usage = Counted(u, e)] ELSE counted

\* usageJSONPath and getUsageExtra: the first usage with a total is the one.
HasUsage(e) == e.t \in {"chunk", "message_delta"} /\ e.usage # NoUsage
TakeUsage(u, e) == IF u.fixed THEN u ELSE [u EXCEPT !.usage = Counted(u, e), !.fixed = TRUE]

UsageOnly(e) == e.t = "chunk" /\ ~e.choices

\* One block of the answer, and the blocks to forward for it.
TapEvent(u, out, block, e) ==
  LET seen == Observe(u, e)
  IN  IF ~HasUsage(e) THEN [u |-> seen, out |-> Append(out, block)]
      ELSE IF u.strip /\ UsageOnly(e) THEN [u |-> TakeUsage(seen, e), out |-> out]
      ELSE [u |-> TakeUsage(seen, e), out |-> Append(out, EventAtoms(e))]

TapMerged(s, m) ==
  LET u == [s.u EXCEPT !.buf = m.buf]
      p == Payload(m.block)
  IN  IF m.held THEN [u |-> u, out |-> Append(s.out, <<>>)]
      ELSE IF ~IsJson(p) THEN [u |-> u, out |-> Append(s.out, m.block)]
      ELSE TapEvent(u, s.out, m.block, p[1].e)

TapBlock(s, block) == TapMerged(s, MergeLarge(s.u.buf, block, MaxHeld))

\* processTokenUsage.
JoinBlocks(blocks) ==
  IF blocks = <<>> THEN <<>>
  ELSE FoldLeft(LAMBDA o, b : o \o <<NL, NL>> \o b, Head(blocks), Tail(blocks))
Tapped(s) == [s EXCEPT !.out = JoinBlocks(@)]

ProcessTokenUsage(u, data) == Tapped(FoldLeft(TapBlock, [u |-> u, out |-> <<>>], Blocks(data)))

\* handleNonStreamingResponseBody: a copy is kept, and read at the end.
SniffBody(u, data, isLast, plain) ==
  LET body == u.buf \o data
      usage == IF Entire(body) /\ body[1].e.usage # NoUsage THEN Counted(u, body[1].e) ELSE u.usage
  IN  IF u.over THEN u
      ELSE IF Len(body) > MaxHeld THEN [u EXCEPT !.buf = <<>>, !.over = TRUE]
      ELSE IF ~isLast THEN [u EXCEPT !.buf = body]
      ELSE [u EXCEPT !.buf = <<>>, !.usage = IF plain THEN usage ELSE @]

\* onStreamingResponseBody.
Ended(r, isLast) == [r EXCEPT !.u.completed = @ \/ (isLast /\ r.u.process)]

Tap(u, data, isLast, plain) ==
  Ended(IF ~u.process THEN [u |-> u, out |-> data]
        ELSE IF u.streaming THEN ProcessTokenUsage(u, data)
        ELSE [u |-> SniffBody(u, data, isLast, plain), out |-> data], isLast)
=============================================================================
