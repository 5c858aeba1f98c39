--------------------------- MODULE ProviderMessages ---------------------------
(***************************************************************************)
(* gpustack-ai-proxy: what a provider is asked, and what a whole answer of *)
(* its own format becomes (claude.go, bedrock.go, vertex.go, gemini.go),   *)
(* after the preparation most of them share (provider.go,                  *)
(* request_helper.go).  The declared tools, media, parameters and prompt   *)
(* caching are left out.                                                   *)
(*                                                                         *)
(* A request of a provider is [system, msgs], each message [role, blocks]  *)
(* with the blocks of ChatMessages.  A whole answer is                     *)
(* [t |-> "native", parts, finish, usage, size], each part [k, is]: its    *)
(* kind ("text", "thinking", "tool") and its piece, or the id of the call. *)
(***************************************************************************)
EXTENDS ChatMessages, ClaudeStream

-----------------------------------------------------------------------------
(* handleRequestBody *)

\* cleanupContextMessages: the last user message that is a command goes, and
\* before it all but the system messages.
CleanupContext(commands, msgs) ==
  LET hits == {k \in DOMAIN msgs : msgs[k].role = "user" /\ msgs[k].text \in commands}
      last == Max(hits)
  IN  IF hits = {} THEN msgs
      ELSE Systems(SubSeq(msgs, 1, last - 1)) \o SubSeq(msgs, last + 1, Len(msgs))

\* mergeConsecutiveMessages: of users, and of assistants that call no tool.
Joins(last, m) ==
  /\ last.role = m.role
  /\ m.role = "user" \/ (m.role = "assistant" /\ last.calls = <<>> /\ m.calls = <<>>)

MergeConsecutive(msgs) ==
  FoldLeft(LAMBDA r, m :
             IF r # <<>> /\ Joins(Last(r), m)
             THEN [r EXCEPT ![Len(r)].text = @ \o m.text] ELSE Append(r, m),
           <<>>, msgs)

\* convertDeveloperRoleToSystem
DeveloperToSystem(msgs) ==
  [k \in DOMAIN msgs |->
     IF msgs[k].role = "developer" THEN [msgs[k] EXCEPT !.role = "system"] ELSE msgs[k]]

\* In this order; commands is {} where none is set.
PrepareMessages(commands, merge, msgs) ==
  LET cleaned == CleanupContext(commands, msgs)
  IN  DeveloperToSystem(IF merge THEN MergeConsecutive(cleaned) ELSE cleaned)

\* vertex and gemini have request handlers of their own, which skip all of this,
\* the conversion too: what remains of a Claude message is its text.
Prepares(handler) == handler \notin {"vertex", "gemini"}
AsOpenAI(m) == Message(m.role, <<>>, NoId, Ids(Of(m.blocks, "text")))

-----------------------------------------------------------------------------
(* The requests of the providers *)

Block(k, id) == [k |-> k, id |-> id]
Turn(role, blocks) == [role |-> role, blocks |-> blocks]
TextBlocks(m) == [k \in DOMAIN m.text |-> Block("text", m.text[k])]
CallBlocks(m) == [k \in DOMAIN m.calls |-> Block("tool_use", m.calls[k])]

\* buildClaudeTextGenRequest: an answer joins the user's message before it, if
\* that holds one.
HoldsResult(turns) == turns # <<>> /\ Last(turns).role = "user" /\ Of(Last(turns).blocks, "tool_result") # <<>>

ClaudeTurn(turns, m) ==
  LET result == Block("tool_result", m.id)
  IN  IF m.role # "tool" THEN Append(turns, Turn(m.role, TextBlocks(m) \o CallBlocks(m)))
      ELSE IF HoldsResult(turns) THEN [turns EXCEPT ![Len(turns)].blocks = Append(@, result)]
      ELSE Append(turns, Turn("user", <<result>>))

\* Of several system messages the last one is the prompt.
LastSystem(msgs) == IF Systems(msgs) = <<>> THEN <<>> ELSE Last(Systems(msgs)).text

ClaudeRequest(msgs) ==
  [system |-> LastSystem(msgs), msgs |-> FoldLeft(ClaudeTurn, <<>>, Others(msgs))]

\* buildBedrockTextGenerationRequest: text beside tool calls is left out, and an
\* answer joins a message that begins with one.
BedrockTurn(turns, m) ==
  LET joins == turns # <<>> /\ Last(turns).role = "user" /\ Head(Last(turns).blocks).k = "tool_result"
      result == Block("tool_result", m.id)
  IN  IF m.role # "tool"
        THEN Append(turns, Turn(m.role, IF m.calls # <<>> THEN CallBlocks(m) ELSE TextBlocks(m)))
      ELSE IF joins THEN [turns EXCEPT ![Len(turns)].blocks = Append(@, result)]
      ELSE Append(turns, Turn("user", <<result>>))

BedrockRequest(msgs) ==
  [system |-> Texts(Systems(msgs)), msgs |-> FoldLeft(BedrockTurn, <<>>, Others(msgs))]

\* buildVertexChatRequest: the first tool call of a message stands for all of
\* them, and an answer is that of the function called last; a system message is
\* one of the user that the model has answered.
Okay == Turn("model", <<Block("text", "Okay")>>)

VertexTurn(r, m) ==
  LET name == IF m.calls # <<>> THEN Head(m.calls) ELSE r.name
      blocks == IF m.calls # <<>> THEN <<Block("tool_use", name)>>
                ELSE IF m.role = "tool" THEN [k \in DOMAIN m.text |-> Block("tool_result", name)]
                ELSE TextBlocks(m)
      role == CASE m.role = "assistant" -> "model"
                [] m.role \in {"tool", "system"} -> "user"
                [] OTHER -> m.role
      told == Append(r.turns, Turn(role, blocks))
  IN  [name |-> name, turns |-> IF m.role = "system" THEN Append(told, Okay) ELSE told]

VertexRequest(msgs) ==
  [system |-> <<>>, msgs |-> FoldLeft(VertexTurn, [name |-> NoId, turns |-> <<>>], msgs).turns]

\* buildGeminiChatRequest: the text of the messages and nothing else of them.
GeminiRequest(msgs) ==
  LET others == Others(msgs)
      Role(m) == IF m.role = "assistant" THEN "model" ELSE m.role
  IN  [system |-> LastSystem(msgs),
       msgs |-> [k \in DOMAIN others |-> Turn(Role(others[k]), TextBlocks(others[k]))]]

NoRequest == [system |-> <<>>, msgs |-> <<>>]

ProviderRequest(handler, msgs) ==
  CASE handler = "claude" -> ClaudeRequest(msgs)
    [] handler = "bedrock" -> BedrockRequest(msgs)
    [] handler = "vertex" -> VertexRequest(msgs)
    [] handler = "gemini" -> GeminiRequest(msgs)
    [] OTHER -> NoRequest

-----------------------------------------------------------------------------
(* Whole answers *)

\* stopReasonClaude2OpenAI and stopReasonBedrock2OpenAI.
FinishReason(reason) ==
  CASE reason \in {"end_turn", "stop_sequence"} -> "stop"
    [] reason = "max_tokens" -> "length"
    [] reason = "tool_use" -> "tool_calls"
    [] OTHER -> reason

OfKind(parts, k) == SelectSeq(parts, LAMBDA x : x.k = k)
Said(parts, k) == LET s == OfKind(parts, k) IN [n \in DOMAIN s |-> s[n].is]
CallsOf(parts) ==
  LET s == OfKind(parts, "tool") IN [n \in DOMAIN s |-> [i |-> n - 1, id |-> s[n].is, args |-> <<"k">>]]

Answered(b, text, reasoning, tools, finish, usage) ==
  [Chunk EXCEPT !.text = text, !.reasoning = reasoning, !.tools = tools, !.finish = finish,
                !.usage = usage, !.size = b.size]

\* responseClaude2OpenAI: of several texts, and of several thoughts, the last.
LastOf(s) == IF s = <<>> THEN s ELSE <<Last(s)>>
ClaudeAnswer(b) ==
  Answered(b, LastOf(Said(b.parts, "text")), LastOf(Said(b.parts, "thinking")), CallsOf(b.parts),
           FinishReason(b.finish),
           [b.usage EXCEPT !.cached = 0, !.total = b.usage.prompt + b.usage.completion])

\* bedrock.go, buildChatCompletionResponse
BedrockAnswer(b) ==
  Answered(b, Said(b.parts, "text"), Said(b.parts, "thinking"), CallsOf(b.parts), FinishReason(b.finish), b.usage)

\* vertex.go, buildChatCompletionResponse: the first part, or, if that is a
\* thought, it in tags and the part after it.
VertexAnswer(b) ==
  LET first == b.parts[1]
      shown == IF first.k = "thinking" /\ Len(b.parts) > 1 THEN SubSeq(b.parts, 1, 2) ELSE <<first>>
      text == IF b.parts = <<>> \/ first.k = "tool" THEN <<>> ELSE [n \in DOMAIN shown |-> shown[n].is]
  IN  Answered(b, text, <<>>, IF b.parts = <<>> THEN <<>> ELSE CallsOf(<<first>>), b.finish, b.usage)

\* gemini.go, buildChatCompletionResponse and buildToolCalls: thoughts are text.
GeminiAnswer(b) ==
  LET spoken == SelectSeq(b.parts, LAMBDA x : x.k # "tool")
      calls == CallsOf(b.parts)
      answer == Answered(b, [n \in DOMAIN spoken |-> spoken[n].is], <<>>, calls,
                         IF calls # <<>> THEN "tool_calls" ELSE b.finish, b.usage)
  IN  [answer EXCEPT !.choices = b.parts # <<>>]

\* TransformResponseBody
ProviderAnswer(handler, b) ==
  CASE handler = "claude" -> ClaudeAnswer(b)
    [] handler = "bedrock" -> BedrockAnswer(b)
    [] handler = "vertex" -> VertexAnswer(b)
    [] handler = "gemini" -> GeminiAnswer(b)
    [] OTHER -> b
=============================================================================
