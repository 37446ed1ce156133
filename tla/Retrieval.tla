----------------------------- MODULE Retrieval -----------------------------
(***************************************************************************)
(* One retrieval from the knowledge bases: RagService and RagPostProcessor *)
(* of infrastructure/retrieval.  Every base is searched by vectors, by     *)
(* words (BM25) or by both; a search that raises finds nothing.  What was  *)
(* found is fused, ranked, perhaps reranked, spread over the documents,    *)
(* cut, and filled up with the neighbours of what was chosen.  A rewritten *)
(* query that found little is compared with the original one.              *)
(*                                                                         *)
(* A chunk is <<document, index>>; a result [chunk, score] has an integral *)
(* score.  A base is searched once for each query of the plan.  The        *)
(* text of chunks is left out, but for which ones repeat their neighbours; *)
(* so are the services that rewrite a query or plan several.               *)
(***************************************************************************)
EXTENDS Integers, Sequences, FiniteSets, SequencesExt, FiniteSetsExt

CONSTANTS None,
          Searches,  \* the bases, and the queries for each of them, in order
          Payloads,  \* what one search may find: sequences of results, best first
          Stored,    \* the chunks of all documents
          Repeating, \* those whose text is in their neighbours' already
          TopK, RrfK,
          FusionTopK,   \* not less than what two channels may find
          RerankWeight, \* in percent
          Window, MaxTotal, \* context_neighbor_window and _max_total
          Configs    \* [mode, collapse, perDoc, reorder, transform]

VARIABLES config,  \* RetrievalConfig
          phase,   \* "search", "select", "gate" or "done"
          query,   \* "rewritten" or "original"
          found,   \* per search and channel: what it found, or None where it raised
          chosen,  \* selected_results
          ranking, \* what they were chosen from, with its final scores
          results, \* what is returned
          rewrite  \* the branch of the rewritten query while the original one is tried

vars == <<config, phase, query, found, chosen, ranking, results, rewrite>>

Channels == {"vector", "bm25"}
Nothing == [b \in ToSet(Searches) |-> [c \in Channels |-> <<>>]]

Init ==
    /\ config \in Configs
    /\ query = IF config.transform THEN "rewritten" ELSE "original"
    /\ phase = "search" /\ found = Nothing /\ chosen = <<>> /\ ranking = <<>>
    /\ results = <<>> /\ rewrite = None

-----------------------------------------------------------------------------
(* Lists of results *)

Chunks(list) == {list[i].chunk : i \in DOMAIN list}
Document(result) == result.chunk[1]
First(list, n) == SubSeq(list, 1, IF Len(list) < n THEN Len(list) ELSE n)

\* list.sort(reverse=True), which is stable.
Sorted(list) ==
    FoldLeft(LAMBDA sorted, r :
                LET above == SelectSeq(sorted, LAMBDA s : s.score >= r.score)
                IN  above \o <<r>> \o SubSeq(sorted, Len(above) + 1, Len(sorted)),
             <<>>, list)

\* deduplicate_results, apply_doc_diversity and collapse_to_best_per_doc.
Deduplicated(list) ==
    FoldLeft(LAMBDA kept, r : IF r.chunk \in Chunks(kept) THEN kept ELSE Append(kept, r), <<>>, list)
Diverse(list, most) ==
    IF most = 0 THEN list
    ELSE FoldLeft(LAMBDA kept, r :
                     IF Len(SelectSeq(kept, LAMBDA k : Document(k) = Document(r))) >= most
                     THEN kept ELSE Append(kept, r),
                  <<>>, list)
BestPerDocument(list) == Diverse(list, 1)

\* _fuse_results_rrf with both weights 1, its scores times 60.
Reciprocal(list, chunk) ==
    FoldLeft(LAMBDA sum, i : IF list[i].chunk = chunk THEN sum + (60 \div (RrfK + i)) ELSE sum, 0,
             [i \in DOMAIN list |-> i])
Fused(vector, words) ==
    First(Sorted([i \in 1..Len(Deduplicated(vector \o words)) |->
                     LET chunk == Deduplicated(vector \o words)[i].chunk
                     IN  [chunk |-> chunk,
                          score |-> Reciprocal(vector, chunk) + Reciprocal(words, chunk)]]),
          FusionTopK)

\* long_context_reorder.
Reordered(list) ==
    IF Len(list) <= 2 THEN list
    ELSE [i \in 1..((Len(list) + 1) \div 2) |-> list[2 * i - 1]]
         \o Reverse([i \in 1..(Len(list) \div 2) |-> list[2 * i]])

\* _expand_with_neighbor_chunks, the chunks it adds: nearest first, the lower of two.
\* Nothing looks at their scores.
Limit(seeds) == LET total == IF MaxTotal = 0 THEN Len(seeds) * (1 + 2 * Window) ELSE MaxTotal
                IN  IF total < Len(seeds) THEN Len(seeds) ELSE total
Near(seed) == {c \in Stored : c[1] = Document(seed) /\ c # seed.chunk
                              /\ c[2] - seed.chunk[2] \in -Window..Window}
Distance(c, seed) == IF c[2] < seed.chunk[2] THEN seed.chunk[2] - c[2] ELSE c[2] - seed.chunk[2]
Nearest(seed) ==
    SetToSortSeq(Near(seed), LAMBDA c, d : \/ Distance(c, seed) < Distance(d, seed)
                                           \/ Distance(c, seed) = Distance(d, seed) /\ c[2] < d[2])
Neighbours(seeds) ==
    LET add(more, c) == IF \/ Len(seeds) + Len(more) >= Limit(seeds) \/ c \in Repeating
                           \/ c \in Chunks(seeds) \cup Chunks(more)
                        THEN more ELSE Append(more, [chunk |-> c, score |-> 0])
    IN  FoldLeft(LAMBDA more, seed : FoldLeft(add, more, Nearest(seed)), <<>>, seeds)

-----------------------------------------------------------------------------
(* A retrieval *)

\* _retrieve_enabled_kbs: the bases are searched at the same time, and what they found is
\* put together in their order, whichever was first.
Wanted == {c \in Channels : config.mode \in {c, "hybrid"}}
Search(payloads) ==
    /\ phase = "search" /\ phase' = "select"
    /\ found' = [b \in ToSet(Searches) |->
                    [c \in Channels |-> IF c \in Wanted THEN payloads[b][c] ELSE <<>>]]
    /\ UNCHANGED <<config, query, chosen, ranking, results, rewrite>>

Found(channel) ==
    FoldLeft(LAMBDA list, b : IF found[b][channel] = None THEN list ELSE list \o found[b][channel],
             <<>>, Searches)
RawCount == Len(Found("vector")) + Len(Found("bm25"))

Candidates ==
    LET vector == Deduplicated(Sorted(Found("vector")))
        words == Deduplicated(Sorted(Found("bm25")))
        collapsed == IF config.collapse THEN BestPerDocument(words) ELSE words
    IN  CASE config.mode = "vector" -> vector
          [] config.mode = "bm25" -> collapsed
          [] config.mode = "hybrid" -> Fused(vector, collapsed)

\* _rank_candidates; scores is what the reranker says of some chunks, or None where it is
\* off, raises or says nothing.  Final scores are in hundredths.
Ranked(candidates, scores) ==
    LET used == scores # None /\ Len(candidates) > 1
        final(r) == IF used /\ r.chunk \in DOMAIN scores
                    THEN RerankWeight * scores[r.chunk] + (100 - RerankWeight) * r.score
                    ELSE 100 * r.score
    IN  Sorted([i \in DOMAIN candidates |-> [candidates[i] EXCEPT !.score = final(candidates[i])]])

\* What is chosen of a ranking; first a faulty order of the two steps.
CutFirst(list) == Diverse(First(list, TopK), config.perDoc)
Chosen(list) == First(Diverse(list, config.perDoc), TopK)

Select(scores) ==
    /\ phase = "select"
    /\ ranking' = Ranked(Candidates, scores)
    /\ chosen' = Chosen(ranking')
    /\ results' = (IF config.reorder THEN Reordered(chosen') ELSE chosen') \o Neighbours(chosen')
    /\ phase' = "gate"
    /\ UNCHANGED <<config, query, found, rewrite>>

-----------------------------------------------------------------------------
(* _apply_query_transform_crag_gate *)

\* _compute_query_quality_score in percent.
Quality ==
    LET selected == (100 * Len(chosen)) \div TopK
        bonus == (20 * RawCount) \div (5 * TopK)
    IN  Min({100, selected + Min({20, bonus})})

Branch == [chosen |-> chosen, raw |-> RawCount, ranking |-> ranking, results |-> results]

\* _select_better_branch.
Best(list) == IF list = <<>> THEN 0 ELSE Max({list[i].score : i \in DOMAIN list})
Better(a, b) ==
    \/ Len(a.chosen) > Len(b.chosen)
    \/ Len(a.chosen) = Len(b.chosen) /\ a.raw > b.raw
    \/ Len(a.chosen) = Len(b.chosen) /\ a.raw = b.raw /\ Best(a.chosen) > Best(b.chosen)

Keep ==
    /\ phase = "gate" /\ query = "rewritten" /\ Quality >= 75
    /\ phase' = "done"
    /\ UNCHANGED <<config, query, found, chosen, ranking, results, rewrite>>

TryOriginal ==
    /\ phase = "gate" /\ query = "rewritten" /\ Quality < 75
    /\ query' = "original" /\ rewrite' = Branch /\ phase' = "search"
    /\ UNCHANGED <<config, found, chosen, ranking, results>>

Decide ==
    /\ phase = "gate" /\ query = "original" /\ phase' = "done"
    /\ IF rewrite # None /\ Better(rewrite, Branch)
       THEN chosen' = rewrite.chosen /\ ranking' = rewrite.ranking /\ results' = rewrite.results
       ELSE UNCHANGED <<chosen, ranking, results>>
    /\ UNCHANGED <<config, query, found, rewrite>>

Next ==
    \/ \E payloads \in [ToSet(Searches) -> [Channels -> Payloads \cup {None}]] : Search(payloads)
    \/ \E scores \in {None} \cup [Stored -> {0}] \cup {[c \in {d} |-> 9] : d \in Stored} : Select(scores)
    \/ Keep \/ TryOriginal \/ Decide

Spec == Init /\ [][Next]_vars

-----------------------------------------------------------------------------
(* Properties *)

\* What the answer may use is as much as could be found: no place is left empty while a
\* search that worked has a chunk of a document that may still have one; no document has
\* more than its share, nothing comes twice, what was chosen comes before its neighbours,
\* and trying the original query never leaves fewer chunks than the rewritten one gave.
ShareOf(d, all) ==
    LET own == Cardinality({c \in all : c[1] = d})
    IN  IF config.perDoc = 0 THEN own ELSE Min({own, config.perDoc})
MayBeUsed ==
    IF config.mode = "bm25" THEN Chunks(BestPerDocument(Sorted(Found("bm25"))))
    ELSE Chunks(Found("vector")) \cup
         IF config.collapse THEN Chunks(BestPerDocument(Sorted(Found("bm25")))) ELSE Chunks(Found("bm25"))
PlacesFilled ==
    /\ phase = "gate" =>
          /\ Len(chosen) = Min({TopK, MapThenSumSet(LAMBDA d : ShareOf(d, MayBeUsed),
                                                   {c[1] : c \in MayBeUsed})})
          /\ Chunks(First(results, Len(chosen))) = Chunks(chosen)
          /\ Cardinality(Chunks(results)) = Len(results)
          /\ \A d \in {c[1] : c \in Stored} : config.perDoc > 0 =>
                Len(SelectSeq(chosen, LAMBDA r : Document(r) = d)) <= config.perDoc
    /\ phase = "done" /\ rewrite # None => Len(chosen) >= Len(rewrite.chosen)
=============================================================================
