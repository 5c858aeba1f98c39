----------------------------- MODULE ModelStream ----------------------------
(***************************************************************************)
(* One request through gpustack-token-usage and gpustack-ai-proxy, and its *)
(* answer back through them in the other order, in whatever body callbacks *)
(* the host makes of it.                                                   *)
(*                                                                         *)
(* A scenario fixes what the plugins do not decide:                        *)
(*   api       "chat", "messages" (Claude) or "speech"                     *)
(*   stream, include    of the request; include is "absent", "yes", "no"   *)
(*   system, msgs       its messages (ChatMessages)                        *)
(*   commands, merge    contextCleanupCommands, mergeConsecutiveMessages   *)
(*   strict, promote, stats, tracked    toolCallValidation,                *)
(*             promoteThinkingOnEmpty, ~disableStreamUsageStats, and a     *)
(*             cluster that is a model's                                   *)
(*   handler, native    what the provider of the route implements:         *)
(*             "none", "raw" (vllm), "event" (moonshot), "vertex",         *)
(*             "gemini", "claude", "bedrock"; Claude messages natively     *)
(*   reply     "stream", "json", "ok" and "error" (headers only, 200 and   *)
(*             500), "local" (no upstream was reached)                     *)
(*   script, usage, plain    what the upstream says, its usage event or    *)
(*             NoUsage, and whether a body is in a known encoding          *)
(*   cuts      where a callback that is not the last may end (CutAt)       *)
(* A retry (TokenRetry), a queued local reply of a provider and the        *)
(* original protocol are left out.                                         *)
(***************************************************************************)
EXTENDS ProviderStream, UsageTap

CONSTANTS
  Scenarios,    \* the scenarios to play
  MaxOthers     \* bound on the steps of other streams of the same provider

VARIABLES
  sc,           \* the scenario
  phase,        \* "request", "refused", "sent", "body", "ended" or "done"
  sent,         \* what the upstream was asked: [include, msgs, asked], asked in
                \* the provider's own format
  left,         \* atoms of the answer that have not arrived
  p, q, conv,   \* ai-proxy: handler state, held reasoning, [c, frames]
  u,            \* gpustack-token-usage (UsageTap)
  provider,     \* what the streams of a claude provider share: [usage, others]
  client,       \* atoms the client received
  reports       \* usage reports sent

vars == <<sc, phase, sent, left, p, q, conv, u, provider, client, reports>>

\* onHttpRequestHeader: a Claude request for a provider without that API.
Converted == sc.api = "messages" /\ ~sc.native
Chat == sc.api = "chat" \/ Converted

\* config.shouldProcess and shouldInjectStreamOptions, on the default suffixes.
Processed == sc.api # "speech"
Injected == sc.api = "chat"

Init ==
  /\ sc \in Scenarios
  /\ phase = "request"
  /\ sent = [include |-> FALSE, msgs |-> <<>>, asked |-> NoRequest]
  /\ left = <<>>
  /\ p = StreamInit /\ q = NoPromotion
  /\ conv = [c |-> ConverterInit, frames |-> NoFrames]
  /\ u = TapInit
  /\ provider = [usage |-> NoUsage, others |-> 0]
  /\ client = <<>> /\ reports = <<>>

-----------------------------------------------------------------------------
(* The request *)

\* toolCallPairingDecision.
Rejected == sc.strict /\ sc.api = "chat" /\ ValidatePairing(sc.msgs) # ""

\* include_usage of what ai-proxy receives, and of what it sends.
Forced == Injected /\ sc.stream
IncludeSent ==
  sc.stream /\ IF Converted THEN sc.stats
               ELSE Forced \/ sc.include = "yes" \/ (sc.api = "chat" /\ sc.include = "absent" /\ sc.stats)

Prepared ==
  [TapInit EXCEPT !.tracked = sc.tracked, !.process = Processed,
                  !.streaming = Processed /\ sc.stream,
                  !.strip = Forced /\ sc.include = "no"]

\* The provider's OnRequestBody: the conversation in the protocol of OpenAI.
Conversation ==
  IF ~Prepares(sc.handler) /\ Converted THEN [k \in DOMAIN sc.msgs |-> AsOpenAI(sc.msgs[k])]
  ELSE IF ~Prepares(sc.handler) THEN sc.msgs
  ELSE PrepareMessages(sc.commands, sc.merge,
                       IF Converted THEN ConvertRequest(sc.system, sc.msgs) ELSE sc.msgs)

\* Both request body handlers, in filter order.
RequestBody ==
  /\ phase = "request"
  /\ u' = Prepared
  /\ IF Rejected THEN phase' = "refused" /\ UNCHANGED sent
     ELSE /\ phase' = "sent"
          /\ sent' = [include |-> IncludeSent, msgs |-> IF Chat THEN Conversation ELSE sc.msgs,
                      asked |-> IF Chat THEN ProviderRequest(sc.handler, Conversation) ELSE NoRequest]
  /\ UNCHANGED <<sc, left, p, q, conv, provider, client, reports>>

-----------------------------------------------------------------------------
(* The answer *)

OpenAI == sc.handler \in {"none", "raw", "event"} /\ ~sc.native
UsageEvents == IF sc.usage # NoUsage /\ sent.include THEN << [Chunk EXCEPT !.choices = FALSE, !.usage = sc.usage] >> ELSE <<>>
Answer == sc.script \o (IF OpenAI THEN Append(UsageEvents, Done) ELSE <<>>)
Data(e) == SubSeq(EventAtoms(e), 3, Pieces(e))
Frame(events) == FlattenSeq([k \in DOMAIN events |-> EventAtoms(events[k])])

\* onHttpResponseHeaders of both.
ResponseHeaders ==
  /\ phase = "sent"
  /\ LET headersOnly == sc.reply \in {"ok", "error", "local"}
     IN  /\ phase' = IF headersOnly THEN "ended" ELSE "body"
         /\ left' = IF headersOnly THEN <<>>
                    ELSE IF sc.reply = "json" THEN Data(sc.script[1])
                    ELSE IF sc.handler = "bedrock" THEN Frame(Answer) ELSE Wire(Answer)
         /\ u' = [u EXCEPT !.completed = (headersOnly \/ ~u.process) /\ sc.reply \notin {"error", "local"},
                           !.streaming = @ /\ sc.reply = "stream"]
  /\ UNCHANGED <<sc, sent, p, q, conv, provider, client, reports>>

\* Where a callback that ends with the n-th atom that is left cuts the stream.
CutAt(n) ==
  IF n = Len(left) THEN "end"
  ELSE IF IsNL(left[n]) THEN IF IsNL(left[n + 1]) THEN "sep1" ELSE "event"
  ELSE IF left[n].i = Pieces(left[n].e) THEN IF sc.handler = "bedrock" THEN "event" ELSE "sep0"
  ELSE IF left[n].i < 3 THEN "head"
  ELSE left[n].e.t

\* ai-proxy reads this answer at all: a provider without response handlers is
\* read for a Claude client only, whatever promoteThinkingOnEmpty says.
Read == Converted \/ sc.handler # "none"

\* onHttpResponseBody: TransformResponseBody, PromoteThinkingOnEmptyResponse, and
\* the conversion for a Claude client.
Promoted(e) ==
  IF sc.promote /\ e.text = <<>> THEN [e EXCEPT !.text = e.reasoning, !.reasoning = <<>>] ELSE e
BodyRead(b) ==
  LET e == Promoted(IF sc.native THEN b ELSE ProviderAnswer(sc.handler, b))
  IN  IF Converted THEN ConvertResponse(e) ELSE e

\* ai-proxy's onStreamingResponseBody: the provider's handler, the promotion and
\* the conversion, one on what the other leaves, [p, q, conv, usage, out].
Handled(h) == [p |-> h.p, q |-> q, conv |-> conv, usage |-> h.usage, out |-> h.out]
ThenPromoted(r, s) == [r EXCEPT !.q = s.q, !.out = s.out]
ThenConverted(r, s) == [r EXCEPT !.conv = [c |-> s.c, frames |-> s.frames], !.out = s.out]

Promoting(r, isLast) ==
  IF sc.promote THEN ThenPromoted(r, Promote(r.q, r.out, isLast)) ELSE r
Converting(r, isLast) ==
  IF Converted THEN ThenConverted(r, ToClaude(r.conv.c, r.conv.frames, r.out, isLast)) ELSE r

Through(chunk, isLast) ==
  LET r == Handled(Handle(IF sc.native THEN "raw" ELSE sc.handler, p, provider.usage, chunk, isLast, Converted))
  IN  IF ~Read \/ sc.reply # "stream" THEN [p |-> p, q |-> q, conv |-> conv, usage |-> provider.usage, out |-> chunk]
      ELSE IF ~Converts(sc.handler, p, chunk, isLast) THEN r
      ELSE Converting(Promoting(r, isLast), isLast)

\* One callback of the body: the next n atoms, the last of them or not.  The
\* body of an answer that is no stream reaches ai-proxy at once, if it reads it.
Callback(n, isLast) ==
  /\ phase = "body"
  /\ isLast => n = Len(left)
  /\ n > 0 \/ isLast
  /\ isLast \/ CutAt(n) \in sc.cuts
  /\ sc.reply = "json" /\ Read => isLast
  /\ phase' = IF isLast THEN "ended" ELSE "body"
  /\ left' = SubSeq(left, n + 1, Len(left))
  /\ \E r \in {Through(SubSeq(left, 1, n), isLast)} :
       /\ p' = r.p /\ q' = r.q /\ conv' = r.conv
       /\ provider' = [provider EXCEPT !.usage = r.usage]
       /\ LET body == IF sc.reply = "json" /\ Read THEN Data(BodyRead(sc.script[1])) ELSE r.out
          IN  \E t \in {Tap(u, body, isLast, sc.plain)} : u' = t.u /\ client' = client \o t.out
  /\ UNCHANGED <<sc, sent, reports>>

\* The client or the upstream goes away.
Reset ==
  /\ phase \in {"sent", "body"}
  /\ phase' = "ended"
  /\ UNCHANGED <<sc, sent, left, p, q, conv, u, provider, client, reports>>

\* reportMetrics: nothing for a request that never reached an upstream.
Report == [usage |-> u.usage, count |-> u.count, completed |-> u.completed]

StreamDone ==
  /\ phase \in {"refused", "ended"}
  /\ phase' = "done"
  /\ reports' = IF u.tracked /\ phase = "ended" /\ sc.reply # "local" THEN Append(reports, Report) ELSE reports
  /\ UNCHANGED <<sc, sent, left, p, q, conv, u, provider, client>>

\* Another stream of the same claude provider passes through this worker.
OtherStream ==
  /\ sc.handler = "claude" /\ phase = "body" /\ provider.others < MaxOthers
  /\ \E e \in {Event("message_start", NoBlock, "", <<>>, [NoUsage EXCEPT !.prompt = 7]),
               Event("message_delta", NoBlock, "stop", <<>>, [NoUsage EXCEPT !.completion = 2])} :
       provider' = [usage |-> FromClaude(provider.usage, e).usage, others |-> provider.others + 1]
  /\ UNCHANGED <<sc, phase, sent, left, p, q, conv, u, client, reports>>

Next ==
  \/ RequestBody
  \/ ResponseHeaders
  \/ \E n \in 0..Len(left), isLast \in BOOLEAN : Callback(n, isLast)
  \/ Reset
  \/ StreamDone
  \/ OtherStream
  \/ phase = "done" /\ UNCHANGED vars

Spec == Init /\ [][Next]_vars

-----------------------------------------------------------------------------
(* What the client sees *)

\* The stream came to its end.
Whole == sc.reply = "stream" /\ phase \in {"ended", "done"} /\ left = <<>> /\ u.completed

\* The pieces of text, reasoning and arguments in a sequence of events, of
\* whichever protocol, as pairs <<kind, piece>>.
Tagged(kind, pieces) == [k \in DOMAIN pieces |-> <<kind, pieces[k]>>]
Kind(e) == CASE e.what = "text_delta" -> "text" [] e.what = "thinking_delta" -> "thinking" [] OTHER -> "tool"
Shown(e) ==
  IF e.t \in {"chunk", "native"}
  THEN Tagged("thinking", e.reasoning) \o Tagged("text", e.text)
       \o FlattenSeq([k \in DOMAIN e.tools |-> Tagged("tool", e.tools[k].args)])
  ELSE IF e.t = "content_block_delta" /\ e.what # "signature_delta" THEN Tagged(Kind(e), e.more)
  ELSE <<>>
Content(events) == FlattenSeq([k \in DOMAIN events |-> Shown(events[k])])

\* What it should see: all of it, or when thinking is promoted the reasoning
\* only when it is all there is, as text.
Wanted(promoting) ==
  LET all == Content(sc.script)
      spoken == SelectSeq(all, LAMBDA x : x[1] # "thinking")
  IN  IF ~promoting THEN all
      ELSE IF spoken = <<>> THEN [k \in DOMAIN all |-> <<"text", all[k][2]>>] ELSE spoken

Marks(events) == {k \in DOMAIN events : events[k].t = "done"}

\* However the stream is cut into callbacks, the client reads whole events, in
\* them what the upstream said and in its order, and at the end all of it: with
\* the usage chunk it did not refuse, and [DONE] once, where its provider has it.
\* Thinking is promoted in what ai-proxy reads; PromotedAsTold is about the rest.
ClientIntact ==
  LET events == Received(client)
      n == Len(events)
      wanted == Wanted(sc.promote /\ Read)
  IN  sc.reply = "stream" =>
      /\ Readable(client)
      /\ IsPrefix(Content(events), wanted)
      /\ Whole => /\ Content(events) = wanted
                  /\ Unread(client) = <<>>
                  /\ sc.api = "chat" =>
                       /\ Marks(events) = IF sc.handler \in {"gemini", "claude"} THEN {} ELSE {n}
                       /\ (\E k \in 1..n : UsageOnly(events[k])) <=>
                            (sc.include # "no" /\ sc.usage # NoUsage /\ sc.handler \notin {"vertex", "gemini"})

\* promoteThinkingOnEmpty, as provider.go describes the option: a client whose
\* answer is reasoning only gets it as text, whoever the provider is.
PromotedAsTold ==
  Whole => Content(Received(client)) = Wanted(sc.promote)

\* The grammar of a Claude message: its start, blocks one after the other with
\* indexes from 0, the reason it stops, its end.  "" is a state no event leads from.
MessageStep(g, e) ==
  CASE e.t = "message_start" /\ g.at = "start" -> [g EXCEPT !.at = "between"]
    [] e.t = "content_block_start" /\ g.at = "between" /\ e.i = g.next -> [at |-> "block", next |-> g.next + 1]
    [] e.t = "content_block_delta" /\ g.at = "block" /\ e.i = g.next - 1 -> g
    [] e.t = "content_block_stop" /\ g.at = "block" /\ e.i = g.next - 1 -> [g EXCEPT !.at = "between"]
    [] e.t = "message_delta" /\ g.at = "between" -> [g EXCEPT !.at = IF e.what = "" THEN "between" ELSE "told"]
    [] e.t = "message_stop" /\ g.at = "told" -> [g EXCEPT !.at = "end"]
    [] OTHER -> [g EXCEPT !.at = ""]
ReadBy(events) == FoldLeft(MessageStep, [at |-> "start", next |-> 0], events)

\* A client of the Claude protocol always reads the beginning of a message, and
\* a whole one when the stream is whole.
ClaudeGrammar ==
  sc.api = "messages" /\ sc.reply = "stream" =>
    LET at == ReadBy(Received(client)).at
    IN  at # "" /\ (Whole => at = "end")

\* What was used: told by the upstream, if it was asked to.
Used == IF sc.reply = "stream" /\ (~OpenAI \/ sent.include) THEN sc.usage
        ELSE IF sc.reply = "json" /\ sc.plain /\ Len(Data(sc.script[1])) <= MaxHeld THEN sc.script[1].usage
        ELSE NoUsage

\* Every answer of an upstream is reported once, with the chunks the client got
\* and, when it came to its end, with the tokens its upstream counted, whatever
\* the protocols on both sides; before, with those or with none.
ReportExact ==
  phase = "done" =>
    IF ~(sc.tracked /\ sc.reply # "local" /\ ~Rejected) THEN reports = <<>>
    ELSE LET r == reports[1]
             read == SelectSeq(Received(client \o <<NL, NL>>), OutputDelta)
             same == r.usage.prompt = Used.prompt /\ r.usage.cached = Used.cached
                     /\ r.usage.completion = Used.completion
         IN  /\ Len(reports) = 1
             /\ sc.reply = "stream" /\ u.process => r.count = Len(read)
             /\ (Whole \/ (sc.reply = "json" /\ r.completed)) /\ provider.others = 0 => same
             /\ r.usage = NoUsage \/ same \/ provider.others > 0 \/ sc.native

\* A chat request is refused for its tool calls exactly when they are not
\* answered as the API asks and the configuration says strict; a conversation
\* that passes still would after clean-up and merging, and a proper Claude one
\* does once it is converted, with at most one system message, in front.  In the
\* format of claude and bedrock each call is answered in the next message, and
\* nothing else is; claude is told every word but those of earlier system
\* messages, bedrock all of these; vertex reads two roles, and developer's.
RequestSound ==
  LET asked == sent.asked
      spoken == Texts(SelectSeq(Others(sent.msgs), LAMBDA m : m.role # "tool"))
      told == FlattenSeq([k \in DOMAIN asked.msgs |-> Ids(Of(asked.msgs[k].blocks, "text"))])
  IN  /\ phase = "refused" => sc.strict /\ sc.api = "chat" /\ ~PairingOk(sc.msgs)
      /\ phase = "sent" /\ sc.api = "chat" =>
           IF PairingOk(sc.msgs) THEN PairingOk(sent.msgs) ELSE ~sc.strict
      /\ phase = "sent" /\ Converted /\ Prepares(sc.handler) =>
           /\ WellFormed(sc.msgs) => PairingOk(sent.msgs)
           /\ \A k \in DOMAIN sent.msgs : sent.msgs[k].role = "system" => k = 1
      /\ phase = "sent" /\ Chat /\ PairingOk(sent.msgs) =>
           CASE sc.handler = "claude" -> Follow(asked.msgs) /\ told = spoken
             [] sc.handler = "bedrock" -> Follow(asked.msgs) /\ asked.system = Texts(Systems(sent.msgs))
             [] sc.handler = "vertex" -> \A m \in ToSet(asked.msgs) : m.role \in {"user", "model", "developer"}
             [] OTHER -> TRUE
=============================================================================
