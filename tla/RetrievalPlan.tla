--------------------------- MODULE RetrievalPlan ---------------------------
(***************************************************************************)
(* What a retrieval asks its indexes for, and what becomes of the answer:  *)
(* QueryTransformService may rewrite the question, the planner may add     *)
(* queries, every base is asked with each of them, the rewritten question  *)
(* may have to stand against the original one (RagService), and the chunks *)
(* are stitched to a context.  Ranking and selection are Retrieval's; here *)
(* a branch returns any chunks.                                            *)
(*                                                                         *)
(* A text is a model value; Facts says per text which protected pieces     *)
(* (quotes, numbers, constraint words) and which other terms it has.       *)
(* Texts are in normal form; a chunk is <<document, index>>.               *)
(***************************************************************************)
EXTENDS Integers, Sequences, FiniteSets, SequencesExt, FiniteSetsExt

CONSTANTS None,
          Texts, Facts, \* [kept, terms] of a text
          Settings,     \* configurations: [transform, guard, newTerms, planner, limit, mode,
                        \*                  sqlite, crag, strict]
          Bases, ModelOf, \* bases in order; their embedding models
          Chunks, MaxChunks, \* chunks there are, and at most so many in an answer
          MaxExtra      \* bound: queries a planner answers

VARIABLES config, asked, \* the configuration and the question
          pc,        \* "transform", "plan", "lookup", "embed", "search", "compare", "done"
          branch,    \* "first" or "original" (_skip_query_transform and _skip_crag_gate)
          effective, blocked, \* effective_query, guard_blocked
          queries,   \* retrieval_queries
          enabled,   \* bases that were found and are enabled
          cache,     \* query_embedding_cache: pairs <<query, model>> that could be embedded
          at,        \* per enabled base: queries done
          searches,  \* per enabled base: what was asked of the indexes, in order
          rewritten, \* the answer of the first branch while the original one is tried
          answer     \* [results, diagnostics], or None

vars == <<config, asked, pc, branch, effective, blocked, queries, enabled, cache, at, searches,
          rewritten, answer>>

Unasked == [b \in Range(Bases) |-> <<>>]

Init ==
    /\ config \in Settings /\ asked \in Texts
    /\ pc = "transform" /\ branch = "first" /\ effective = asked /\ blocked = FALSE
    /\ queries = <<>> /\ enabled = {} /\ cache = {} /\ at = [b \in Range(Bases) |-> 0]
    /\ searches = Unasked /\ rewritten = None /\ answer = None

-----------------------------------------------------------------------------
(* The queries *)

\* _validate_rewrite.  First a faulty version that only counts new terms.
CountsOnly(original, rewrite) ==
    Cardinality(Facts[rewrite].terms \ Facts[original].terms) <= config.newTerms
Valid(original, rewrite) ==
    \/ rewrite = original
    \/ /\ Facts[original].kept \subseteq Facts[rewrite].kept
       /\ \/ Facts[original].terms = {} \/ Facts[rewrite].terms = {}
          \/ CountsOnly(original, rewrite)

\* rewrite is None when the model is missing, fails, is late or says nothing.
Transforms == config.transform /\ ~config.strict /\ branch = "first"
Transform(rewrite) ==
    /\ pc = "transform" /\ pc' = "plan"
    /\ (~Transforms => rewrite = None)
    /\ blocked' = (rewrite # None /\ config.guard /\ ~Valid(asked, rewrite))
    /\ effective' = IF rewrite = None \/ blocked' THEN asked ELSE rewrite
    /\ UNCHANGED <<config, asked, branch, queries, enabled, cache, at, searches, rewritten,
                   answer>>

\* _normalize_queries; the limit is looked at after a query was added.
Normalized(first, candidates) ==
    FoldLeft(LAMBDA list, q : IF q \in Range(list) \/ (Len(list) > 1 /\ Len(list) >= config.limit)
                              THEN list ELSE Append(list, q),
             <<first>>, candidates)

\* The plan, made without a look at the guard; None where no model answers in time.
Plan(candidates) ==
    /\ pc = "plan" /\ pc' = "lookup"
    /\ (~config.planner \/ config.strict => candidates = None)
    /\ queries' = IF candidates = None THEN <<effective>> ELSE Normalized(effective, candidates)
    /\ UNCHANGED <<config, asked, branch, effective, blocked, enabled, cache, at, searches,
                   rewritten, answer>>

-----------------------------------------------------------------------------
(* The searches *)

\* A base whose lookup raises, that is gone or switched off is left out.
Lookup(found) ==
    /\ pc = "lookup" /\ pc' = "embed"
    /\ enabled' = found /\ at' = [b \in Range(Bases) |-> 0] /\ searches' = Unasked
    /\ UNCHANGED <<config, asked, branch, effective, blocked, queries, cache, rewritten, answer>>

\* _build_query_embedding_cache: once for each query and model; what fails is left out.
Vectors == config.mode \in {"vector", "hybrid"}
Pairs == IF Vectors /\ config.sqlite THEN Range(queries) \X {ModelOf[b] : b \in enabled} ELSE {}
Embed(worked) ==
    /\ pc = "embed" /\ pc' = "search"
    /\ worked \subseteq Pairs /\ cache' = worked
    /\ UNCHANGED <<config, asked, branch, effective, blocked, queries, enabled, at, searches,
                   rewritten, answer>>

\* The key of the cache.  First a faulty version that forgets the model of the base.
ByQuery(query, base) ==
    IF \E p \in cache : p[1] = query THEN CHOOSE p \in cache : p[1] = query ELSE None
Cached(query, base) ==
    IF <<query, ModelOf[base]>> \in cache THEN <<query, ModelOf[base]>> ELSE None

\* One query of one base: both channels at the same time, the next query when both are
\* through.  A vector search without a cached embedding makes its own.
SearchOne(base) ==
    /\ pc = "search" /\ base \in enabled /\ at[base] < Len(queries)
    /\ at' = [at EXCEPT ![base] = @ + 1]
    /\ LET query  == queries[at'[base]]
           vector == [channel |-> "vector", query |-> query,
                      embedding |-> IF Cached(query, base) # None THEN Cached(query, base)
                                    ELSE <<query, ModelOf[base]>>]
           words  == [channel |-> "bm25", query |-> query, embedding |-> None]
       IN  searches' = [searches EXCEPT ![base] =
               @ \o (IF Vectors THEN <<vector>> ELSE <<>>)
                 \o (IF config.mode \in {"bm25", "hybrid"} THEN <<words>> ELSE <<>>)]
    /\ UNCHANGED <<config, asked, pc, branch, effective, blocked, queries, enabled, cache,
                   rewritten, answer>>

\* _build_retrieval_diagnostics.
Diagnostics ==
    [original |-> asked, effective |-> effective, applied |-> effective # asked,
     blocked |-> blocked, queries |-> queries, searched |-> Cardinality(enabled),
     decision |-> "direct"]

Searched == pc = "search" /\ \A b \in enabled : at[b] = Len(queries)
Gated == Transforms /\ effective # asked /\ config.crag

\* _apply_query_transform_crag_gate: a rewrite that found enough is kept, another one is
\* held until the original question was tried.
Collect(results, enough) ==
    /\ Searched
    /\ LET got == [results |-> results, of |-> queries, diagnostics |-> Diagnostics]
       IN  IF branch = "original" \/ ~Gated \/ enough
           THEN /\ pc' = IF branch = "original" THEN "compare" ELSE "done"
                /\ answer' = got /\ UNCHANGED <<rewritten, branch, effective, blocked>>
           ELSE /\ pc' = "transform" /\ rewritten' = got /\ branch' = "original"
                /\ effective' = asked /\ blocked' = FALSE /\ UNCHANGED answer
    /\ UNCHANGED <<config, asked, queries, enabled, cache, at, searches>>

\* The original branch answers with its own diagnostics, and what the rewriting was.
\* First a faulty version that keeps the diagnostics of the rewrite.
KeepDiagnostics(original, rewrite) ==
    [original EXCEPT !.diagnostics = [rewrite.diagnostics EXCEPT !.decision = "fallback_original"]]
FallBack(original, rewrite) ==
    [original EXCEPT !.diagnostics = [@ EXCEPT !.applied = rewrite.diagnostics.applied,
                                               !.blocked = rewrite.diagnostics.blocked,
                                               !.decision = "fallback_original"]]
\* _select_better_branch: by what was found, ties for the original.
Compare(winner) ==
    /\ pc = "compare" /\ pc' = "done"
    /\ (winner = "rewrite" => Len(rewritten.results) >= Len(answer.results))
    /\ (winner = "original" => Len(answer.results) >= Len(rewritten.results))
    /\ answer' = IF winner = "original" THEN FallBack(answer, rewritten)
                 ELSE [rewritten EXCEPT !.diagnostics.decision = "keep_rewrite"]
    /\ UNCHANGED <<config, asked, branch, effective, blocked, queries, enabled, cache, at,
                   searches, rewritten>>

Lists(set, n) ==
    {l \in UNION {[1..k -> set] : k \in 0..n} : \A i, j \in DOMAIN l : l[i] = l[j] => i = j}
Next ==
    \/ \E text \in Texts \cup {None} : Transform(text)
    \/ \E candidates \in UNION {[1..k -> Texts] : k \in 0..MaxExtra} \cup {None} : Plan(candidates)
    \/ \E found \in SUBSET Range(Bases) : Lookup(found)
    \/ \E worked \in SUBSET Pairs : Embed(worked)
    \/ \E base \in Range(Bases) : SearchOne(base)
    \/ \E results \in Lists(Chunks, MaxChunks), enough \in BOOLEAN : Collect(results, enough)
    \/ \E winner \in {"original", "rewrite"} : Compare(winner)

Spec == Init /\ [][Next]_vars

-----------------------------------------------------------------------------
(* The context *)

\* build_rag_context: documents in the order of their best chunk; in a document chunks by
\* index, in one segment as long as no more than one index is left out.
ByBest(results) ==
    LET first(d) == Min({i \in DOMAIN results : results[i][1] = d})
    IN  SetToSortSeq({results[i][1] : i \in DOMAIN results}, LAMBDA d, e : first(d) < first(e))
Indices(results, doc) ==
    SetToSortSeq({results[i][2] : i \in {j \in DOMAIN results : results[j][1] = doc}},
                 LAMBDA i, j : i < j)
Segments(results, doc) ==
    FoldLeft(LAMBDA list, i :
                IF list # <<>> /\ i - list[Len(list)].end <= 2
                THEN [list EXCEPT ![Len(list)].end = i, ![Len(list)].parts = Append(@, i)]
                ELSE Append(list, [doc |-> doc, start |-> i, end |-> i, parts |-> <<i>>]),
             <<>>, Indices(results, doc))
Context(results) ==
    FoldLeft(LAMBDA list, d : list \o Segments(results, d), <<>>, ByBest(results))

-----------------------------------------------------------------------------
(* Properties *)

TypeOK ==
    /\ pc \in {"transform", "plan", "lookup", "embed", "search", "compare", "done"}
    /\ effective \in Texts /\ Range(queries) \subseteq Texts
    /\ enabled \subseteq Range(Bases)

(***************************************************************************)
(* The question is what is searched for: the first query is the question   *)
(* or a rewrite that keeps what the guard protects, there is no query      *)
(* twice, and every enabled base has been asked with every query in the    *)
(* wanted channels, in their order, by vectors of its own model - which    *)
(* embeddings failed and however the bases overlap (_build_query_embedding_*)
(* cache, _retrieve_single_kb).                                            *)
(***************************************************************************)
QuestionIsSearched ==
    Searched =>
        /\ queries[1] = effective /\ Len(queries) <= Max({2, config.limit})
        /\ Cardinality(Range(queries)) = Len(queries)
        /\ config.guard => Facts[asked].kept \subseteq Facts[queries[1]].kept
        /\ branch = "original" => queries[1] = asked
        /\ \A b \in enabled, c \in {"vector", "bm25"} :
               LET own == SelectSeq(searches[b], LAMBDA s : s.channel = c)
               IN  /\ config.mode \in {c, "hybrid"} =>
                          [i \in DOMAIN own |-> own[i].query] = queries
                   /\ c = "vector" => \A i \in DOMAIN own :
                          own[i].embedding = <<own[i].query, ModelOf[b]>>

(***************************************************************************)
(* The diagnostics stored with an answer are those of the results that are *)
(* returned, also after the original question won against its rewrite, and *)
(* the context made of the results has each of them in one segment, the    *)
(* best one's document first (retrieve_with_diagnostics, build_rag_context).*)
(***************************************************************************)
AnswerIsTold ==
    pc = "done" =>
        /\ answer.diagnostics.queries = answer.of
        /\ answer.diagnostics.effective = answer.of[1]
        /\ answer.diagnostics.decision = "fallback_original" => answer.of[1] = asked
        /\ LET context == Context(answer.results)
           IN  /\ \A chunk \in Range(answer.results) :
                      Cardinality({i \in DOMAIN context :
                                       /\ context[i].doc = chunk[1]
                                       /\ chunk[2] \in context[i].start..context[i].end}) = 1
               /\ FoldLeft(LAMBDA n, s : n + Len(s.parts), 0, context) = Len(answer.results)
               /\ answer.results # <<>> => context[1].doc = answer.results[1][1]
=============================================================================
