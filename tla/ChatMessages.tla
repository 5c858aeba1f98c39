---------------------------- MODULE ChatMessages ----------------------------
(***************************************************************************)
(* gpustack-ai-proxy: the messages of a request, their tool calls and the  *)
(* results that answer them.  tool_call_pairing.go walks an OpenAI         *)
(* conversation; provider/claude_to_openai.go turns a Claude one into it.  *)
(*                                                                         *)
(* An OpenAI message is [role, calls, id, text]: the ids of its tool_calls *)
(* (each call its own function), of role "tool" its tool_call_id, and the  *)
(* pieces of its content.  A Claude message is [role, blocks], each block  *)
(* [k, id], the id of a text being the piece it says.  NoId is an id that  *)
(* is missing or no string.                                                *)
(***************************************************************************)
EXTENDS Integers, Sequences, SequencesExt

CONSTANT NoId

Message(role, calls, id, text) == [role |-> role, calls |-> calls, id |-> id, text |-> text]

-----------------------------------------------------------------------------
(* tool_call_pairing.go *)

WalkInit == [pending |-> {}, answered |-> {}, issued |-> {}, broken |-> ""]
Break(w, rule) == [w EXCEPT !.broken = rule]

ToolMessage(w, m) ==
  IF m.id = NoId THEN Break(w, "invalid_tool_call_id")
  ELSE IF m.id \in w.answered THEN Break(w, "duplicate_tool_call_id")
  ELSE IF m.id \notin w.pending THEN Break(w, "orphan_tool_message")
  ELSE [w EXCEPT !.pending = @ \ {m.id}, !.answered = @ \cup {m.id}]

Issue(w, id) ==
  IF w.broken # "" THEN w
  ELSE IF id = NoId THEN Break(w, "invalid_tool_calls_id")
  ELSE IF id \in w.issued THEN Break(w, "duplicate_tool_calls_id")
  ELSE [w EXCEPT !.issued = @ \cup {id}, !.pending = @ \cup {id}]

\* The fault of a walk that checks the last window only.
OtherMessageOpen(w, m) ==
  IF m.role = "assistant" THEN FoldLeft(Issue, w, m.calls) ELSE w

\* Any other message ends the wait for answers.
OtherMessage(w, m) ==
  IF w.pending # {} THEN Break(w, "unanswered_tool_calls")
  ELSE IF m.role = "assistant" THEN FoldLeft(Issue, w, m.calls) ELSE w

Walk(w, m) ==
  IF w.broken # "" THEN w
  ELSE IF m.role = "tool" THEN ToolMessage(w, m) ELSE OtherMessage(w, m)

\* validateToolCallPairing: the first rule broken, "" for none.
ValidatePairing(msgs) ==
  LET w == FoldLeft(Walk, WalkInit, msgs)
  IN  IF w.broken = "" /\ w.pending # {} THEN "unanswered_tool_calls" ELSE w.broken

\* The rules as the issue states them: every call has an id of its own, and its
\* answers, one each and no other, follow at once.
PairingOk(msgs) ==
  LET assistants == {k \in DOMAIN msgs : msgs[k].role = "assistant"}
      Calls == UNION {{<<k, n>> : n \in DOMAIN msgs[k].calls} : k \in assistants}
      Id(c) == msgs[c[1]].calls[c[2]]
      Answers(c) == {t \in DOMAIN msgs : /\ t > c[1]
                                         /\ \A j \in c[1] + 1..t : msgs[j].role = "tool"
                                         /\ msgs[t].id = Id(c)}
      tools == {t \in DOMAIN msgs : msgs[t].role = "tool"}
  IN  /\ \A c \in Calls : Id(c) # NoId /\ \E t \in tools : Answers(c) = {t}
      /\ \A c, d \in Calls : Id(c) = Id(d) => c = d
      /\ \A t \in tools : \E c \in Calls : t \in Answers(c)

-----------------------------------------------------------------------------
(* provider/claude_to_openai.go *)

Of(blocks, k) == SelectSeq(blocks, LAMBDA b : b.k = k)
Ids(blocks) == [k \in DOMAIN blocks |-> blocks[k].id]

\* convertContentArray and the loop over the messages around it: results become
\* messages of their own, and text beside them another one, after them.
ConvertMessage(m) ==
  LET calls == SelectSeq(Ids(Of(m.blocks, "tool_use")), LAMBDA id : id # NoId)
      results == Of(m.blocks, "tool_result")
      text == Ids(Of(m.blocks, "text"))
  IN  (IF calls # <<>> THEN <<Message(m.role, calls, NoId, text)>> ELSE <<>>)
      \o [k \in DOMAIN results |-> Message("tool", <<>>, results[k].id, <<"answer">>)]
      \o (IF IF results # <<>> THEN text # <<>> ELSE calls = <<>>
          THEN <<Message(m.role, <<>>, NoId, text)>> ELSE <<>>)

\* mergeSystemMessages: one system message, and in front.
Texts(msgs) == FlattenSeq([k \in DOMAIN msgs |-> msgs[k].text])
Systems(msgs) == SelectSeq(msgs, LAMBDA m : m.role = "system")
Others(msgs) == SelectSeq(msgs, LAMBDA m : m.role # "system")

MergeSystem(msgs) ==
  IF Systems(msgs) = <<>> THEN msgs
  ELSE <<Message("system", <<>>, NoId, Texts(Systems(msgs)))>> \o Others(msgs)

\* ConvertClaudeRequestToOpenAIWithOptions.
ConvertRequest(system, msgs) ==
  MergeSystem((IF system THEN <<Message("system", <<>>, NoId, <<"system">>)>> ELSE <<>>)
              \o FlattenSeq([k \in DOMAIN msgs |-> ConvertMessage(msgs[k])]))

\* Every tool_use is answered by the next message, and nothing else is.
UsesAt(turns, k) == IF k \in DOMAIN turns THEN Ids(Of(turns[k].blocks, "tool_use")) ELSE <<>>
ResultsAt(turns, k) == IF k \in DOMAIN turns THEN Ids(Of(turns[k].blocks, "tool_result")) ELSE <<>>
Follow(turns) ==
  \A k \in 0..Len(turns) : /\ ToSet(UsesAt(turns, k)) = ToSet(ResultsAt(turns, k + 1))
                           /\ Len(UsesAt(turns, k)) = Len(ResultsAt(turns, k + 1))

\* What the Claude API asks of a conversation: an id is used once, and the next
\* message of the user answers every tool_use of the assistant, and nothing else.
WellFormed(msgs) ==
  LET turns == SelectSeq(msgs, LAMBDA m : m.role # "system")
      all == FlattenSeq([k \in DOMAIN turns |-> UsesAt(turns, k)])
  IN  /\ \A k \in DOMAIN turns :
           /\ turns[k].role = (IF k % 2 = 1 THEN "user" ELSE "assistant")
           /\ turns[k].role = "assistant" => ResultsAt(turns, k) = <<>>
           /\ turns[k].role = "user" => UsesAt(turns, k) = <<>>
      /\ Follow(turns)
      /\ IsInjective(all) /\ NoId \notin ToSet(all)
=============================================================================
