------------------------------ MODULE ThinkTags -----------------------------
(***************************************************************************)
(* What is thinking in a text that comes in fragments: the _ThinkTagParser *)
(* of LM Studio's adapter (providers/adapters/lmstudio_adapter.py), which  *)
(* tells thinking from content, and the ThinkTagStreamFilter               *)
(* (llm_runtime/think_tag_filter.py), which leaves the thinking out.       *)
(*                                                                         *)
(* A tag may be cut anywhere between two fragments, so both hold back what *)
(* may be the beginning of one.  A text is a sequence of symbols; <think>  *)
(* and </think> are shortened to two and three of them that begin alike.   *)
(***************************************************************************)
EXTENDS Naturals, Sequences, FiniteSets, FiniteSetsExt, SequencesExt

Start == <<"<", ">">>
End == <<"<", "/", ">">>
Marker(mode) == IF mode = "content" THEN Start ELSE End
Other(mode) == IF mode = "content" THEN "thinking" ELSE "content"

\* str.find, from 1; 0 if there is none.
Find(text, marker) ==
    LET at == {i \in 1..Len(text) : IsPrefix(marker, SubSeq(text, i, Len(text)))}
    IN  IF at = {} THEN 0 ELSE Min(at)

Chunk(kind, text) == [kind |-> kind, text |-> text]
Some(kind, text) == IF text = <<>> THEN <<>> ELSE <<Chunk(kind, text)>>

Fresh == [mode |-> "content", buffer |-> <<>>]

\* A faulty KeptBack: nothing is held back while a tag may be cut.
KeptBackNone(p) == 0

\* How much of a text without a marker is held back.
KeptBack(p) == Len(Marker(p.mode)) - 1

RECURSIVE Drained(_, _)

\* _drain: the chunks, and the parser after it.
Drained(p, last) ==
    LET marker == Marker(p.mode)
        at == Find(p.buffer, marker)
        keep == IF last THEN 0 ELSE KeptBack(p)
        flushed == IF Len(p.buffer) > keep THEN Len(p.buffer) - keep ELSE 0
    IN  IF at > 0
        THEN LET rest == Drained([mode |-> Other(p.mode),
                                  buffer |-> SubSeq(p.buffer, at + Len(marker), Len(p.buffer))],
                                 last)
             IN  [rest EXCEPT !.chunks = Some(p.mode, SubSeq(p.buffer, 1, at - 1)) \o @]
        ELSE [chunks |-> Some(p.mode, SubSeq(p.buffer, 1, flushed)),
              parser |-> [p EXCEPT !.buffer = SubSeq(@, flushed + 1, Len(@))]]

Feed(p, text) == Drained([p EXCEPT !.buffer = @ \o text], FALSE)
Finalized(p) == [Drained(p, TRUE) EXCEPT !.parser = Fresh]

\* _parse_text_with_think_tags: the content or the thinking of a whole text.
TextOf(kind, chunks) ==
    FlattenSeq([i \in DOMAIN chunks |-> IF chunks[i].kind = kind THEN chunks[i].text ELSE <<>>])
Parsed(kind, text) == TextOf(kind, Drained([Fresh EXCEPT !.buffer = text], TRUE).chunks)

-----------------------------------------------------------------------------
(* The filter *)

Open == [thinking |-> FALSE, pending |-> <<>>, shown |-> <<>>]

RECURSIVE Filtered(_)

\* feed, once the fragment is pending: `shown' is what it returns, added to what it returned.
Filtered(f) ==
    LET marker == IF f.thinking THEN End ELSE Start
        at == Find(f.pending, marker)
        keep == Len(marker) - 1
        over == IF Len(f.pending) > keep THEN Len(f.pending) - keep ELSE 0
        rest(from) == SubSeq(f.pending, from, Len(f.pending))
        visible(text) == IF f.thinking THEN f.shown ELSE f.shown \o text
    IN  IF at > 0
        THEN Filtered([thinking |-> ~f.thinking, pending |-> rest(at + Len(marker)),
                       shown |-> visible(SubSeq(f.pending, 1, at - 1))])
        ELSE [f EXCEPT !.pending = rest(over + 1), !.shown = visible(SubSeq(f.pending, 1, over))]

Filter(f, text) == Filtered([f EXCEPT !.pending = @ \o text])

\* flush: what is left, unless it is the beginning of a tag.
Flushed(f) == IF f.thinking \/ IsPrefix(f.pending, Start) THEN f.shown ELSE f.shown \o f.pending
=============================================================================
