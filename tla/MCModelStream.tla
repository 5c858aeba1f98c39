---------------------------- MODULE MCModelStream ---------------------------
(***************************************************************************)
(* Scenarios for ModelStream: conversations of up to four messages, and    *)
(* the streams the providers send, each cut in every way its path stands.  *)
(***************************************************************************)
EXTENDS ModelStream

Use == [prompt |-> 5, cached |-> 2, completion |-> 3, total |-> 8]
Plain == [prompt |-> 5, cached |-> 0, completion |-> 3, total |-> 8]

Call(i, id, args) == [i |-> i, id |-> id, args |-> args]
Role == [Chunk EXCEPT !.role = TRUE, !.size = 1]
Says(text) == [Chunk EXCEPT !.text = <<text>>]
Thinks(text) == [Chunk EXCEPT !.reasoning = <<text>>]
Calls(i, id, args) == [Chunk EXCEPT !.tools = <<Call(i, id, args)>>]
Stops(why) == [Chunk EXCEPT !.finish = why, !.size = 1]
Note == [t |-> "note", size |-> 1]
Native(e) == [e EXCEPT !.t = "native"]

Talk == <<Role, Says("a"), Says("b"), Stops("stop")>>
Think == <<Role, Thinks("r"), Thinks("s"), Stops("stop")>>
Both == <<Role, Thinks("r"), [Says("a") EXCEPT !.size = 3], Stops("stop")>>
Work == <<Role, Says("a"), Calls(0, "x", <<>>), Calls(0, "", <<"k">>), Stops("tool_calls")>>

\* The events of a Claude upstream.
Claude ==
  << Event("message_start", NoBlock, "", <<>>, [NoUsage EXCEPT !.prompt = 5]),
     Event("content_block_start", 0, "text", <<>>, NoUsage),
     Event("content_block_delta", 0, "text_delta", <<"a">>, NoUsage),
     Event("content_block_stop", 0, "", <<>>, NoUsage),
     Event("content_block_start", 1, "tool_use", <<"x">>, NoUsage),
     Event("content_block_delta", 1, "input_json_delta", <<"k">>, NoUsage),
     Event("content_block_stop", 1, "", <<>>, NoUsage),
     Event("message_delta", NoBlock, "tool_use", <<>>, [NoUsage EXCEPT !.completion = 3]),
     Event("message_stop", NoBlock, "", <<>>, NoUsage) >>

\* Everywhere; and where gpustack-token-usage, alone with a stream, may be cut.
AllCuts == {"head", "sep0", "sep1", "event", "done", "chunk", "native", "note", "end"}
PlainCuts == {"sep0", "event", "chunk", "end"}
\* A promotion needs something in the last callback.
PromoteCuts == AllCuts \ {"end"}

Base == [api |-> "chat", stream |-> TRUE, include |-> "absent", system |-> FALSE, msgs |-> <<>>,
         strict |-> FALSE, commands |-> {}, merge |-> FALSE, promote |-> FALSE, stats |-> TRUE, tracked |-> TRUE,
         handler |-> "none", native |-> FALSE, reply |-> "stream", script |-> Talk,
         usage |-> Plain, plain |-> TRUE, cuts |-> PlainCuts]

\* Streams of OpenAI upstreams for OpenAI and for Claude clients.
OpenAIStreams ==
  {[Base EXCEPT !.include = i, !.script = s, !.usage = Use, !.handler = h] :
     i \in {"absent", "yes", "no"}, s \in {Both, Work}, h \in {"none", "raw"}}
  \cup {[Base EXCEPT !.handler = "event", !.cuts = PromoteCuts, !.promote = TRUE, !.script = s] :
     s \in {Think, Both}}
  \cup {[Base EXCEPT !.promote = TRUE, !.script = s] : s \in {Think, Both}}
  \cup {[Base EXCEPT !.handler = "event", !.cuts = AllCuts, !.script = Both]}
  \cup {[Base EXCEPT !.handler = "raw", !.cuts = {"event"}, !.promote = TRUE, !.script = s] :
     s \in {Think, Both}}

ClaudeStreams ==
  {[Base EXCEPT !.api = "messages", !.handler = h, !.script = s, !.usage = Use, !.cuts = AllCuts, !.stats = st] :
     h \in {"none", "raw"}, s \in {Both, Work, <<Role, Note, Says("a"), Stops("length")>>}, st \in BOOLEAN}
  \cup {[Base EXCEPT !.api = "messages", !.handler = h, !.script = Both, !.cuts = PromoteCuts, !.promote = TRUE] :
     h \in {"none", "event"}}
  \cup {[Base EXCEPT !.api = "messages", !.handler = "raw", !.native = TRUE, !.script = Claude,
                     !.cuts = {"event", "sep0", "content_block_delta", "message_delta", "end"}]}

\* Streams of the providers with a format of their own.
NativeStreams ==
  {[Base EXCEPT !.handler = "vertex", !.cuts = AllCuts, !.usage = Plain,
                !.script = <<Native(Says("a")), Native([Calls(0, "x", <<"k">>) EXCEPT !.usage = Plain])>>],
   [Base EXCEPT !.handler = "gemini", !.cuts = AllCuts,
                !.script = <<Native(Says("a")), Native([Says("b") EXCEPT !.finish = "stop", !.usage = Plain])>>],
   [Base EXCEPT !.handler = "bedrock", !.cuts = {"event", "end"}, !.include = "no",
                !.script = <<Native(Role), Native(Says("a")), Native([Chunk EXCEPT !.stop = 0]),
                             Native(Calls(1, "x", <<>>)), Native(Calls(1, "", <<"k">>)),
                             Native(Stops("tool_use")), Native([Chunk EXCEPT !.usage = Plain])>>],
   [Base EXCEPT !.handler = "claude", !.cuts = AllCuts, !.script = Claude]}

\* Answers that are no stream.
Bodies ==
  {[Base EXCEPT !.api = a, !.handler = h, !.reply = "json", !.stream = st, !.plain = pl, !.promote = pr,
                !.script = << [Thinks("r") EXCEPT !.finish = "stop", !.usage = Use, !.size = n] >>] :
     a \in {"chat", "messages"}, h \in {"none", "raw"}, st \in BOOLEAN, pl \in BOOLEAN, pr \in BOOLEAN,
     n \in {3, MaxHeld + 1}}
Heads ==
  {[Base EXCEPT !.api = a, !.reply = r, !.tracked = t] :
     a \in {"chat", "messages", "speech"}, r \in {"ok", "error", "local"}, t \in BOOLEAN}

\* Conversations with two tool calls.
Speech(role, text) == Message(role, <<>>, NoId, <<text>>)
Calling(calls) == Message("assistant", calls, NoId, <<>>)
Result1(id) == Message("tool", <<>>, id, <<"answer">>)
OpenAIMessages ==
  {Speech("user", "u"), Speech("assistant", "v"), Calling(<<"x">>), Calling(<<"x", "y">>), Calling(<<NoId>>),
   Result1("x"), Result1("y"), Result1(NoId)}
ClaudeMessages ==
  {[role |-> r, blocks |-> b] :
     r \in {"user", "assistant"}, b \in {<<Block("text", "u")>>, <<Block("tool_use", "x"), Block("tool_use", "y")>>,
       <<Block("text", "u"), Block("tool_use", "x")>>, <<Block("tool_result", "x"), Block("text", "u")>>,
       <<Block("tool_result", "y"), Block("tool_result", "x")>>}}
  \cup {[role |-> "system", blocks |-> <<Block("text", "u")>>]}
UpTo(n, S) == UNION {[1..k -> S] : k \in 0..n}
Requests ==
  {[Base EXCEPT !.strict = s, !.msgs = m, !.reply = "ok"] : s \in BOOLEAN, m \in UpTo(4, OpenAIMessages)}
  \cup {[Base EXCEPT !.api = "messages", !.system = s, !.msgs = m, !.reply = "ok"] :
          s \in BOOLEAN, m \in UpTo(3, ClaudeMessages)}

\* Proper conversations, put together of turns, on their way to the providers.
Turns ==
  {<<Speech("user", "u")>>, <<Speech("user", "clear")>>, <<Speech("assistant", "v")>>,
   <<Speech("system", "s")>>, <<Speech("developer", "d")>>,
   <<[Calling(<<"x", "y">>) EXCEPT !.text = <<"w">>], Result1("y"), Result1("x")>>,
   <<Calling(<<"z">>), Result1("z")>>}
Conversations ==
  {[Base EXCEPT !.handler = h, !.commands = c, !.merge = m, !.msgs = FlattenSeq(t), !.reply = "error"] :
     h \in {"none", "claude", "bedrock", "vertex", "gemini"}, c \in {{}, {<<"clear">>}}, m \in BOOLEAN,
     t \in UpTo(3, Turns)}

\* Whole answers of the providers with a format of their own.
Parts == {<<>>, <<"text">>, <<"text", "tool">>, <<"thinking", "text", "text">>, <<"tool", "text", "tool">>}
Part(k, n) == [k |-> k, is |-> <<"a", "b", "c">>[n]]
Answers ==
  {[Base EXCEPT !.handler = h, !.reply = "json", !.promote = pr, !.plain = pl,
                !.script = << [t |-> "native", parts |-> [n \in DOMAIN b |-> Part(b[n], n)], finish |-> "end_turn",
                               usage |-> IF h = "claude" THEN Plain ELSE Use, size |-> 3] >>] :
     h \in {"claude", "bedrock", "vertex", "gemini"}, pr \in BOOLEAN, pl \in BOOLEAN, b \in Parts}

MCScenarios == Conversations \cup Answers \cup OpenAIStreams \cup ClaudeStreams \cup NativeStreams \cup Bodies \cup Heads \cup Requests

\* Ways of a stream that break what the comments promise.
BetweenNewlines == {[Base EXCEPT !.cuts = {"sep1"}, !.usage = Use]}
InsideDone == {[Base EXCEPT !.cuts = {"done"}]}
InsideData == {[Base EXCEPT !.cuts = {"head"}]}
GeminiClaude == {[Base EXCEPT !.api = "messages", !.handler = "gemini",
                  !.script = <<Native([Says("a") EXCEPT !.finish = "stop", !.usage = Plain])>>]}
TwoCalls == {[Base EXCEPT !.api = "messages", !.cuts = {"event"},
              !.script = <<Role, Calls(0, "x", <<"k">>), Calls(1, "y", <<"l">>), Stops("tool_calls")>>]}
EveryUsage == {[Base EXCEPT !.handler = "gemini", !.cuts = {"event"},
                !.script = <<Native([Says("a") EXCEPT !.usage = [Plain EXCEPT !.completion = 1, !.total = 6]]),
                             Native([Says("b") EXCEPT !.finish = "stop", !.usage = Plain])>>]}
NoHandler == {[Base EXCEPT !.promote = TRUE, !.script = Think, !.cuts = {"event"}]}
PromotedClaude == {[Base EXCEPT !.api = "messages", !.promote = TRUE, !.script = Think, !.cuts = {"event"}]}
LateFlush == {[Base EXCEPT !.handler = "event", !.promote = TRUE, !.script = Think, !.cuts = {"event", "end"}]}
HeldRaw == {[Base EXCEPT !.handler = "raw", !.promote = TRUE, !.script = Think, !.cuts = {"chunk"}]}
CutFrame == {[Base EXCEPT !.handler = "bedrock", !.cuts = {"native"}, !.script = <<Native(Says("a")), Native(Says("b"))>>,
                          !.usage = NoUsage]}
SharedProvider == {[Base EXCEPT !.handler = "claude", !.cuts = {"event"}, !.script = Claude]}

\* A provider of Google reads the roles it knows (gemini.go: "API shall vomit if
\* role is not user or model").
GeminiTool == {[Base EXCEPT !.handler = "gemini", !.msgs = <<Calling(<<"x">>), Result1("x")>>]}
VertexDeveloper == {[Base EXCEPT !.handler = "vertex", !.msgs = <<Speech("developer", "d")>>]}
RolesKnown == \A m \in ToSet(sent.asked.msgs) : m.role \in {"user", "model"}

\* The tokens a request reports are its own (claude.go keeps the usage of a
\* stream in the provider).
OwnUsage == \A k \in DOMAIN reports : reports[k].usage.prompt \in {0, 5}
=============================================================================
