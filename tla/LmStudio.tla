------------------------------ MODULE LmStudio ------------------------------
(***************************************************************************)
(* An answer of LM Studio as it streams: LmStudioAdapter (providers/       *)
(* adapters/lmstudio_adapter.py), with the parser of ThinkTags.            *)
(*                                                                         *)
(* With tools, a task lets the SDK act for up to three rounds; its         *)
(* callbacks split each fragment into content and thinking, which a queue  *)
(* hands to the generator.  Without tools, the generator reads the         *)
(* fragments itself.  How the messages and tools are handed over is left   *)
(* out, and of the usage only that it is told last.                        *)
(***************************************************************************)
EXTENDS ThinkTags

CONSTANTS Fragments, MaxText,  \* what a fragment may be; bound: symbols of an answer
          MaxRounds,           \* max_prediction_rounds
          MaxReasoning         \* bound: fragments the model marks as reasoning itself

VARIABLES tools,    \* the model was bound to tools
          said,     \* history: the text of each round so far, without what is marked
          parser,   \* its mode and what it holds back
          queue,    \* chunks on their way to the generator
          act,      \* the task (or the SDK's stream): "running", "done" or "failed"
          final,    \* the text of the last round that had one
          marked,   \* fragments that were marked as reasoning
          out,      \* what was yielded: content, thinking, and whether the usage was
          stage,    \* the generator: "streaming", "ended", "failed" or "abandoned"
          client    \* the connection is "open" or "closed"

vars == <<tools, said, parser, queue, act, final, marked, out, stage, client>>

Yielded(chunks) ==
    [out EXCEPT !.content = @ \o TextOf("content", chunks),
                !.thinking = @ \o TextOf("thinking", chunks)]

Silence == [content |-> <<>>, thinking |-> <<>>, usage |-> FALSE]

Init ==
    /\ tools \in BOOLEAN
    /\ said = <<<<>>>> /\ parser = Fresh /\ queue = <<>>
    /\ act = "running" /\ final = <<>> /\ marked = 0
    /\ out = Silence
    /\ stage = "streaming" /\ client = "open"

\* The generator is over without its answer; what went before it matters no more.
Forgotten ==
    /\ said' = <<<<>>>> /\ parser' = Fresh /\ queue' = <<>>
    /\ final' = <<>> /\ marked' = 0 /\ out' = Silence

-----------------------------------------------------------------------------
(* The SDK *)

\* Chunks go to the queue, or straight out.
Emit(chunks) ==
    IF tools THEN queue' = queue \o chunks /\ UNCHANGED out
    ELSE out' = Yielded(chunks) /\ UNCHANGED queue

\* _collect_parser_output: a fragment is parsed, or taken as reasoning as a whole.
Fragment(text, reasoning) ==
    /\ stage = "streaming" /\ act = "running"
    /\ Len(FlattenSeq(said)) + Len(text) <= MaxText
    /\ IF reasoning
       THEN /\ marked < MaxReasoning /\ marked' = marked + 1
            /\ Emit(<<Chunk("thinking", text)>>)
            /\ UNCHANGED <<said, parser>>
       ELSE LET fed == Feed(parser, text)
            IN  /\ Emit(fed.chunks) /\ parser' = fed.parser
                /\ said' = [said EXCEPT ![Len(said)] = @ \o text]
                /\ UNCHANGED marked
    /\ UNCHANGED <<tools, act, final, stage, client>>

\* on_prediction_completed; the SDK may go on, after a call of a tool.
RoundCompleted(more) ==
    /\ stage = "streaming" /\ act = "running" /\ tools
    /\ more => Len(said) < MaxRounds
    /\ Emit(Finalized(parser).chunks)
    /\ parser' = Fresh
    /\ final' = IF Last(said) = <<>> THEN final ELSE Last(said)
    /\ said' = IF more THEN Append(said, <<>>) ELSE said
    /\ act' = IF more THEN act ELSE "done"
    /\ UNCHANGED <<tools, marked, stage, client>>

ActFails ==
    /\ stage = "streaming" /\ act = "running"
    /\ act' = "failed"
    /\ UNCHANGED <<tools, said, parser, queue, final, marked, out, stage, client>>

-----------------------------------------------------------------------------
(* The generator *)

Take ==
    /\ stage = "streaming" /\ queue # <<>>
    /\ out' = Yielded(<<Head(queue)>>)
    /\ queue' = Tail(queue)
    /\ UNCHANGED <<tools, said, parser, act, final, marked, stage, client>>

\* What is told at the end when no fragment gave any content.
Repeated ==
    IF out.content # <<>> THEN out
    ELSE [out EXCEPT !.content = Parsed("content", final),
                     !.thinking = @ \o Parsed("thinking", final)]

Finish ==
    /\ stage = "streaming" /\ tools /\ act = "done" /\ queue = <<>>
    /\ stage' = "ended" /\ client' = "closed"
    /\ out' = [Repeated EXCEPT !.usage = TRUE]
    /\ UNCHANGED <<tools, said, parser, queue, act, final, marked>>

\* What invoke would have returned for the same text: as it is, if it has no content.
Invoked(text) ==
    [content |-> IF Parsed("content", text) = <<>> THEN text ELSE Parsed("content", text),
     thinking |-> Parsed("thinking", text)]

\* With tools, it reads the last round only.
InvokedWithTools == Invoked(final)

\* Without tools: the SDK's stream is over.
StreamOver ==
    /\ stage = "streaming" /\ ~tools /\ act = "running"
    /\ stage' = "ended" /\ act' = "done" /\ client' = "closed"
    /\ out' = [Yielded(Finalized(parser).chunks) EXCEPT !.usage = TRUE]
    /\ parser' = Fresh
    /\ UNCHANGED <<tools, said, queue, final, marked>>

\* What the task, or the SDK's stream, failed with, once the queue is empty.
Raise ==
    /\ stage = "streaming" /\ act = "failed" /\ queue = <<>>
    /\ stage' = "failed" /\ client' = "closed"
    /\ Forgotten /\ UNCHANGED <<tools, act>>

\* The reader goes away.  To wait for the task that was cancelled raises CancelledError, which
\* suppress(Exception) lets pass: the client is not closed.
Abandoned ==
    /\ stage = "streaming"
    /\ stage' = "abandoned"
    /\ client' = IF tools /\ act = "running" THEN client ELSE "closed"
    /\ act' = IF act = "running" THEN "failed" ELSE act
    /\ Forgotten /\ UNCHANGED tools

Next ==
    \/ \E text \in Fragments, reasoning \in BOOLEAN : Fragment(text, reasoning)
    \/ \E more \in BOOLEAN : RoundCompleted(more)
    \/ ActFails \/ Take \/ Finish \/ StreamOver \/ Raise \/ Abandoned

Spec == Init /\ [][Next]_vars

-----------------------------------------------------------------------------
(* Properties *)

\* What was said, parsed round by round as if each had come in one piece.
Whole(kind) == FlattenSeq([i \in DOMAIN said |-> Parsed(kind, said[i])])

(***************************************************************************)
(* However the tags are cut between fragments and the rounds follow each   *)
(* other: what goes out as content is at every moment a beginning of the   *)
(* content of what was said, so that no part of a tag or of the thinking   *)
(* ever shows, and all of it in the end; and the thinking is complete      *)
(* unless the model marked some itself or the answer was nothing else, in  *)
(* which case it is told twice (_ThinkTagParser, _stream_with_tools).      *)
(***************************************************************************)
ContentWhole ==
    /\ IsPrefix(out.content \o TextOf("content", queue), Whole("content"))
    /\ stage = "ended" => out.content = Whole("content") /\ out.usage
    /\ stage = "ended" /\ marked = 0 /\ (~tools \/ out.content # <<>>) =>
          out.thinking = Whole("thinking")

(***************************************************************************)
(* An answer of one round that has any content is the same whether it      *)
(* streams or is read at once (stream, invoke).                            *)
(***************************************************************************)
SameAtOnce ==
    stage = "ended" /\ Len(said) = 1 /\ Whole("content") # <<>> =>
        out.content = (IF tools THEN InvokedWithTools ELSE Invoked(said[1])).content

(***************************************************************************)
(* Once the generator is over its task runs no more, and the connection is *)
(* closed, unless the reader left while a task was running                 *)
(* (_stream_with_tools, finally).                                          *)
(***************************************************************************)
ClientClosed ==
    stage # "streaming" =>
        /\ act # "running"
        /\ client = "closed" \/ (stage = "abandoned" /\ tools)
=============================================================================
