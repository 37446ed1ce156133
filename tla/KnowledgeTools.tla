--------------------------- MODULE KnowledgeTools ---------------------------
(***************************************************************************)
(* The knowledge tools of one turn: RagToolService answers search_knowledge *)
(* with hits the model may cite as S1, S2 ..., and read_knowledge with the *)
(* chunks it names by citation or by reference, from two indexes that      *)
(* other requests change meanwhile.                                        *)
(*                                                                         *)
(* A reference is <<base, document, chunk>>; an index maps the references  *)
(* it holds to the version of their text.  The text of a chunk has length  *)
(* one.  Which chunks a search finds is Retrieval's; here it may be any.   *)
(***************************************************************************)
EXTENDS Naturals, Sequences, FiniteSets, SequencesExt

CONSTANTS None,
          Refs,       \* references there may be
          Allowed,    \* bases the turn may use
          Queries,    \* normalised queries
          Windows,    \* neighbor_window
          TopK, MaxRefs, MaxChars, \* limits of an answer
          MaxCalls, MaxChanges     \* bounds: calls of the turn, changes of the indexes

VARIABLES bm25, vec, \* the indexes
          cites,     \* _citation_to_ref, and backwards _ref_to_citation
          cached,    \* _search_cache: per query the hits
          told,      \* history: per citation what the last answer that used it said
          read,      \* the last answer of read_knowledge, or None
          made, changes \* calls and changes so far

vars == <<bm25, vec, cites, cached, told, read, made, changes>>

Base(ref) == ref[1]
Same(ref, other) == ref[1] = other[1] /\ ref[2] = other[2]
Citations == 1..TopK \* S1, S2, ...
Distinct(hits) == \A i, j \in DOMAIN hits : hits[i] = hits[j] => i = j

\* Sequences without repetition of at most n members of a set.
Lists(set, n) == {l \in UNION {[1..k -> set] : k \in 0..n} : Distinct(l)}

Init ==
    /\ bm25 \in {[r \in Refs |-> 0], <<>>} /\ vec = [r \in Refs |-> 0]
    /\ cites = <<>> /\ cached = <<>> /\ told = <<>>
    /\ read = None /\ made = 0 /\ changes = 0

-----------------------------------------------------------------------------
(* search_knowledge *)

\* Citations are numbered anew by every answer (_restore_ref_maps_from_hits).
Answer(hits) ==
    /\ cites' = hits
    /\ told' = [c \in DOMAIN told \cup DOMAIN hits |->
                   IF c \in DOMAIN hits THEN hits[c] ELSE told[c]]

\* A search that was made before is answered from the cache.  First a faulty version that
\* leaves the citations of the last search in place.
ShowOnly(hits) ==
    /\ UNCHANGED cites
    /\ told' = [c \in DOMAIN told \cup DOMAIN hits |->
                   IF c \in DOMAIN hits THEN hits[c] ELSE told[c]]
AnswerFromCache(hits) == Answer(hits)

Search(query) ==
    /\ made < MaxCalls /\ made' = made + 1
    /\ IF query \in DOMAIN cached
       THEN AnswerFromCache(cached[query]) /\ UNCHANGED cached
       ELSE \E hits \in Lists({r \in DOMAIN vec \cup DOMAIN bm25 : Base(r) \in Allowed},
                             TopK) :
               /\ Answer(hits)
               /\ cached' = [q \in DOMAIN cached \cup {query} |->
                                IF q = query THEN hits ELSE cached[q]]
    /\ UNCHANGED <<bm25, vec, read, changes>>

\* The retrieval fails, or no base is bound: an error, nothing else.
SearchFails ==
    /\ made < MaxCalls /\ made' = made + 1
    /\ UNCHANGED <<bm25, vec, cites, cached, told, read, changes>>

-----------------------------------------------------------------------------
(* read_knowledge *)

\* A token is a citation <<n>> or a reference.  Resolved tokens in order, each
\* reference once (_resolve_refs).
RefOf(token) ==
    IF Len(token) = 1 /\ token[1] \in DOMAIN cites THEN cites[token[1]] ELSE token
CitationOf(ref) == IF ref \in Range(cites) THEN CHOOSE c \in DOMAIN cites : cites[c] = ref
                   ELSE None
Resolve(tokens) ==
    LET refs == [i \in DOMAIN tokens |-> RefOf(tokens[i])]
        once == {i \in DOMAIN refs : ~\E j \in 1..(i - 1) : refs[j] = refs[i]}
    IN  [i \in 1..Cardinality(once) |->
            refs[CHOOSE j \in once : Cardinality({k \in once : k <= j}) = i]]

\* The rows around a chunk, from the first index that has any; _pick_content takes all of
\* them, or with no window the one that was meant (_list_rows_in_range).
Near(index, ref, window) ==
    {r \in DOMAIN index : Same(r, ref) /\ r[3] + window >= ref[3] /\ r[3] <= ref[3] + window}
Rows(ref, window) ==
    LET first == Near(bm25, ref, window)
    IN  IF first # {} THEN {<<r, bm25[r]>> : r \in first}
        ELSE {<<r, vec[r]>> : r \in Near(vec, ref, window)}

\* One reference after the other.  First a faulty version that reads from any base.
ReadAnyBase(answer, ref, window) ==
    LET rows == Rows(ref, window)
    IN  IF answer.full THEN answer
        ELSE IF rows = {} THEN [answer EXCEPT !.missing = @ \cup {ref}]
        ELSE IF answer.used >= MaxChars THEN [answer EXCEPT !.full = TRUE, !.truncated = TRUE]
        ELSE [answer EXCEPT !.sources = Append(@, [citation |-> CitationOf(ref), ref |-> ref,
                                                   rows |-> rows]),
                            !.used = Min({MaxChars, @ + Cardinality(rows)}),
                            !.truncated = @ \/ answer.used + Cardinality(rows) > MaxChars]
ReadOne(answer, ref, window) ==
    IF answer.full THEN answer
    ELSE IF ref \notin Refs \/ Base(ref) \notin Allowed
         THEN [answer EXCEPT !.missing = @ \cup {ref}]
         ELSE ReadAnyBase(answer, ref, window)

Read(tokens, window) ==
    /\ made < MaxCalls /\ made' = made + 1
    /\ LET refs   == Resolve(tokens)
           bad    == {r \in Range(refs) : r \notin Refs}
           start  == [sources |-> <<>>, missing |-> bad, used |-> 0, truncated |-> FALSE,
                      full |-> FALSE, asked |-> Range(refs), window |-> window]
           answer == FoldLeft(LAMBDA a, r : ReadOne(a, r, window), start,
                              SelectSeq(refs, LAMBDA r : r \in Refs))
       IN  \* INVALID_REF and NOT_FOUND are answers without sources
           read' = answer
    /\ UNCHANGED <<bm25, vec, cites, cached, told, changes>>

-----------------------------------------------------------------------------
(* Other requests: a document leaves an index, or enters it anew *)

Without(index, ref) == [r \in {s \in DOMAIN index : ~Same(s, ref)} |-> index[r]]
Renewed(index, ref, version) ==
    [r \in DOMAIN index \cup {s \in Refs : Same(s, ref)} |->
        IF Same(r, ref) THEN version ELSE index[r]]

Change ==
    /\ changes < MaxChanges /\ changes' = changes + 1
    /\ \E ref \in Refs :
        \/ bm25' = Without(bm25, ref) /\ UNCHANGED vec
        \/ vec' = Without(vec, ref) /\ UNCHANGED bm25
        \/ bm25' = Renewed(bm25, ref, changes') /\ UNCHANGED vec
        \/ vec' = Renewed(vec, ref, changes') /\ UNCHANGED bm25
    /\ UNCHANGED <<cites, cached, told, read, made>>

Tokens == {<<c>> : c \in Citations} \cup Refs
Next ==
    \/ \E q \in Queries : Search(q)
    \/ SearchFails
    \/ \E tokens \in UNION {[1..n -> Tokens] : n \in 1..MaxRefs}, w \in Windows :
           Read(tokens, w)
    \/ Change

Spec == Init /\ [][Next]_vars

-----------------------------------------------------------------------------
(* Properties *)

TypeOK ==
    /\ DOMAIN cites \subseteq Citations /\ DOMAIN told \subseteq Citations
    /\ DOMAIN cached \subseteq Queries
    /\ made \in 0..MaxCalls /\ changes \in 0..MaxChanges

(***************************************************************************)
(* What is read under a citation is what the last answer that used this    *)
(* citation said, also after searches that were answered from the cache    *)
(* (_restore_ref_maps_from_hits, _resolve_refs).                           *)
(***************************************************************************)
CitationsAgree ==
    /\ \A c \in DOMAIN cites : told[c] = cites[c]
    /\ Distinct(cites)

(***************************************************************************)
(* A read gives chunks of bound bases only, and every reference it was     *)
(* asked for is among the sources or the missing ones, or the answer says  *)
(* that it is cut short; nothing but the chunk that was named is given     *)
(* when no neighbours were asked for.                                      *)
(***************************************************************************)
ReadsAreHonest ==
    read # None =>
        /\ \A i \in DOMAIN read.sources :
            /\ Base(read.sources[i].ref) \in Allowed
            /\ \A row \in read.sources[i].rows : Same(row[1], read.sources[i].ref)
            /\ read.window = 0 => {row[1] : row \in read.sources[i].rows}
                                      = {read.sources[i].ref}
        /\ read.truncated
               \/ read.asked = read.missing \cup {read.sources[i].ref : i \in DOMAIN read.sources}

=============================================================================
