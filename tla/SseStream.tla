----------------------------- MODULE SseStream ------------------------------
(***************************************************************************)
(* Server-sent events as the plugins meet them: a body callback is any run *)
(* of bytes, so an event arrives in pieces.                                *)
(*                                                                         *)
(* The wire is a sequence of atoms [e, i], the i-th piece of event e.      *)
(* Piece 1 ends inside the field name "data:" (an "event:" line is part of *)
(* it), piece 2 completes the name, the rest is the payload in e.size      *)
(* pieces; a blank line ends the event.  Line endings are LF (CR and CRLF  *)
(* are normalised by the code and left out).  e.t is the kind of event:    *)
(* "done" is the [DONE] mark, "note" a comment without data, the others    *)
(* carry JSON.                                                             *)
(***************************************************************************)
EXTENDS Integers, Sequences, SequencesExt

CONSTANT
  MaxTail      \* maxIncompleteSSEEventBytes, in atoms

ASSUME TailAssumption == MaxTail \in Nat

NL == [e |-> [t |-> "none"], i |-> 0]

IsNL(a) == a.i = 0
Pieces(e) == 2 + e.size
EventAtoms(e) == [k \in 1..Pieces(e) |-> [e |-> e, i |-> k]]
Wire(events) == FlattenSeq([k \in DOMAIN events |-> EventAtoms(events[k]) \o <<NL, NL>>])

\* What "\n\n" splits data into; the last part is what no blank line has ended.
Blocks(data) ==
  LET Step(r, a) ==
        IF IsNL(a) /\ r.cur # <<>> /\ IsNL(Last(r.cur))
        THEN [full |-> Append(r.full, Front(r.cur)), cur |-> <<>>]
        ELSE [r EXCEPT !.cur = Append(@, a)]
      r == FoldLeft(Step, [full |-> <<>>, cur |-> <<>>], data)
  IN  Append(r.full, r.cur)

Lines(block) ==
  FoldLeft(LAMBDA ls, a : IF IsNL(a) THEN Append(ls, <<>>)
                          ELSE [ls EXCEPT ![Len(ls)] = Append(@, a)], << <<>> >>, block)

\* splitSSEEvent: the data lines of a block, and their payload.
DataLines(block) ==
  SelectSeq(Lines(block), LAMBDA l : /\ Len(l) >= 2
                                     /\ l[1].i = 1 /\ l[2].i = 2
                                     /\ l[1].e.t # "note")
Payload(block) ==
  LET ls == DataLines(block)
  IN  FlattenSeq([k \in DOMAIN ls |-> SubSeq(ls[k], 3, Len(ls[k]))])

Entire(p) == p # <<>> /\ p = SubSeq(EventAtoms(p[1].e), 3, Pieces(p[1].e))
IsDone(p) == Entire(p) /\ p[1].e.t = "done"
IsJson(p) == Entire(p) /\ p[1].e.t \notin {"done", "note"}

-----------------------------------------------------------------------------
(* gpustack-token-usage reassembles events whose data is cut *)

\* mergeSSEEventState, and mergeLargeUsageChunks around it: the block to
\* inspect, or "held" while it is not complete, and the buffer to keep.
Complete(buffered, block) ==
  LET data == Payload(buffered \o block)
  IN  \/ IsJson(data)
      \/ buffered = <<>> /\ (DataLines(block) = <<>> \/ data = <<>> \/ IsDone(data))

\* The fault of forwarding the last part of an event only.
MergeStateTail(buffered, block) ==
  IF Complete(buffered, block)
  THEN [held |-> FALSE, block |-> block, buf |-> <<>>]
  ELSE [held |-> TRUE, block |-> <<>>, buf |-> buffered \o block]

MergeState(buffered, block) ==
  IF Complete(buffered, block)
  THEN [held |-> FALSE, block |-> buffered \o block, buf |-> <<>>]
  ELSE [held |-> TRUE, block |-> <<>>, buf |-> buffered \o block]

MergeLarge(buffered, block, max) ==
  IF Len(buffered) + Len(block) > max
  THEN [held |-> FALSE, block |-> buffered \o block, buf |-> <<>>]
  ELSE MergeState(buffered, block)

-----------------------------------------------------------------------------
(* gpustack-ai-proxy waits for whole events *)

\* ExtractStreamingEvents: the events of buf and chunk, and what is left of
\* them from the start of an event on.
ExtractAtom(r, a) ==
  IF ~IsNL(a) THEN [r EXCEPT !.buf = Append(@, a)]
  ELSE IF r.buf = <<>> THEN r
  ELSE IF ~IsNL(Last(r.buf)) THEN [r EXCEPT !.buf = Append(@, a)]
  ELSE [events |-> IF r.buf[1].i = 1 THEN Append(r.events, r.buf[1].e) ELSE r.events, buf |-> <<>>]

Extract(buf, chunk) == FoldLeft(ExtractAtom, [events |-> <<>>, buf |-> <<>>], buf \o chunk)

\* frameSSEEvents over frameCallback and flush.  A tail that grows beyond
\* MaxTail is dropped through its end; the last callback emits what is left.
NoFrames == [tail |-> <<>>, lost |-> FALSE]

Carry(rest) == IF rest # <<>> /\ IsNL(Last(rest)) THEN <<NL>> ELSE <<>>

EventsOf(payloads) == [k \in DOMAIN payloads |-> payloads[k][1].e]
EventsIn(blocks) == EventsOf(SelectSeq([k \in DOMAIN blocks |-> Payload(blocks[k])], Entire))

Framed(f, bs, isLast) ==
  LET full == IF f.lost /\ Len(bs) > 1 THEN Tail(Front(bs)) ELSE Front(bs)
      rest == Last(bs)
      lost == (f.lost /\ Len(bs) = 1) \/ Len(rest) > MaxTail
  IN  [events |-> EventsIn(IF isLast /\ ~lost /\ rest # <<>> THEN Append(full, rest) ELSE full),
       f |-> IF isLast THEN NoFrames
             ELSE [tail |-> IF lost THEN Carry(rest) ELSE rest, lost |-> lost]]

FrameSSE(f, chunk, isLast) == Framed(f, Blocks(f.tail \o chunk), isLast)

-----------------------------------------------------------------------------
(* A client reads whole events, and ignores a last one without a blank line *)
Received(atoms) == Extract(<<>>, atoms).events
Unread(atoms) == Extract(<<>>, atoms).buf
\* Every block it reads is one event, all of it.
Readable(atoms) ==
  LET bs == Front(Blocks(atoms))
      Trim(b) == SelectSeq(b, LAMBDA a : ~IsNL(a))
  IN  \A k \in DOMAIN bs : Trim(bs[k]) # <<>> => Trim(bs[k]) = EventAtoms(Trim(bs[k])[1].e)
=============================================================================
