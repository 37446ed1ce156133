---------------------------- MODULE Compression ----------------------------
(***************************************************************************)
(* One compression of CompressionService: _compress_with_model_config and  *)
(* _compress_with_local_gguf (infrastructure/compression/                  *)
(* compression_service.py), a single pass or a hierarchical map and        *)
(* reduce, and the quality guard of the local one.  A text is [covers,     *)
(* size]: the messages it stands for and its estimated tokens.  How many   *)
(* tokens a summary has is the model's choice.                             *)
(***************************************************************************)
EXTENDS Naturals, Sequences, FiniteSets, FiniteSetsExt, Functions

CONSTANTS Histories,     \* the messages to compress, as sequences of token estimates
          SummarySizes,  \* token estimates of a summary
          Budget, Target, Overlap, ReduceTarget, ReduceOverlap, MaxLevels,
          Facts, MinKept, RepairLimit \* critical facts, min_coverage of them, repair limit

VARIABLES sizes, local, \* the history, and whether the local model compresses
          pc,           \* "start", "map", "reduce", "force", "guard", "done", "failed"
          level,        \* level_summaries
          groups,       \* the chunks or groups not worked on yet
          merged,       \* reduced_summaries
          levels,
          summary,      \* the messages the summary stands for
          empties,      \* history: a call came back empty
          kept          \* the critical facts that the summary has

vars == <<sizes, local, pc, level, groups, merged, levels, summary, empties, kept>>

Init ==
    /\ sizes \in Histories /\ local \in BOOLEAN
    /\ pc = "start" /\ level = <<>> /\ groups = <<>> /\ merged = <<>> /\ levels = 1
    /\ summary = {} /\ empties = FALSE /\ kept = {}

-----------------------------------------------------------------------------
(* _chunk_messages and _chunk_texts *)

Total(s, i, j) == FoldFunctionOnSet(+, 0, s, i..j)

\* A chunk takes items as long as they fit, and one in any case.
LastOfChunk(s, target, i) == Max({j \in i..Len(s) : j = i \/ Total(s, i, j) <= target})

\* The next chunk starts with what overlaps, and after the start of this one.
NextStart(overlap, i, last) == Max({last + 1 - overlap, i + 1})

\* The items of a chunk; first a faulty one that is cut short.
ChunkWithoutLast(i, last) == {i} \cup i..(last - 1)
Chunk(i, last) == i..last

Chunks(s, target, overlap) ==
    LET from[i \in 1..Len(s)] ==
          LET last == LastOfChunk(s, target, i)
          IN  <<Chunk(i, last)>> \o
              IF last = Len(s) THEN <<>> ELSE from[NextStart(overlap, i, last)]
    IN  from[1]

Covered(texts, group) == UNION {texts[k].covers : k \in group}
SizesOf(texts) == [k \in DOMAIN texts |-> texts[k].size]

-----------------------------------------------------------------------------
(* The calls of the model: each comes back with a text, or empty *)

Text(covers, size) == [covers |-> covers, size |-> size]
Collect(texts, covers, size) == IF size = 0 THEN texts ELSE Append(texts, Text(covers, size))
Returns(size) == size \in SummarySizes \cup {0} /\ empties' = (empties \/ size = 0)

\* The summary is there; the local quality guard looks at it next.
Conclude(covers) ==
    /\ summary' = covers /\ level' = <<>> /\ groups' = <<>> /\ merged' = <<>>
    /\ pc' = CASE covers = {} -> "failed" [] covers # {} /\ local -> "guard" [] OTHER -> "done"

SinglePass(size) ==
    /\ pc = "start" /\ Total(sizes, 1, Len(sizes)) <= Budget
    /\ Returns(size)
    /\ Conclude(IF size = 0 THEN {} ELSE DOMAIN sizes)
    /\ UNCHANGED <<sizes, local, levels, kept>>

Split ==
    /\ pc = "start" /\ Total(sizes, 1, Len(sizes)) > Budget
    /\ pc' = "map" /\ groups' = Chunks(sizes, Target, Overlap)
    /\ UNCHANGED <<sizes, local, level, merged, levels, summary, empties, kept>>

MapChunk(size) ==
    /\ pc = "map" /\ groups # <<>>
    /\ Returns(size)
    /\ level' = Collect(level, Head(groups), size)
    /\ groups' = Tail(groups)
    /\ UNCHANGED <<sizes, local, pc, merged, levels, summary, kept>>

\* The next round of the reduction, if there is more than one summary.
Round(texts) ==
    IF Len(texts) <= 1
    THEN /\ Conclude(IF texts = <<>> THEN {} ELSE texts[1].covers)
         /\ UNCHANGED levels
    ELSE /\ pc' = "reduce" /\ level' = texts /\ UNCHANGED summary
         /\ levels' = IF levels < MaxLevels THEN levels + 1 ELSE levels
         /\ groups' = Chunks(SizesOf(texts), ReduceTarget, ReduceOverlap)
         /\ merged' = <<>>

Mapped ==
    /\ pc = "map" /\ groups = <<>>
    /\ Round(level)
    /\ UNCHANGED <<sizes, local, empties, kept>>

ReduceGroup(size) ==
    /\ pc = "reduce" /\ groups # <<>>
    /\ Returns(size)
    /\ merged' = Collect(merged, Covered(level, Head(groups)), size)
    /\ groups' = Tail(groups)
    /\ UNCHANGED <<sizes, local, pc, level, levels, summary, kept>>

\* The hard stop; first a faulty one that never comes.
NoHardStop(texts) == FALSE
HardStop(texts) == levels >= MaxLevels /\ Len(texts) > 1

\* A round without a result ends the reduction with the first summary there is.
Reduced ==
    /\ pc = "reduce" /\ groups = <<>>
    /\ CASE merged = <<>> -> Conclude(level[1].covers) /\ UNCHANGED levels
         [] HardStop(merged) -> /\ pc' = "force" /\ level' = merged
                                /\ UNCHANGED <<levels, groups, merged, summary>>
         [] OTHER -> Round(merged)
    /\ UNCHANGED <<sizes, local, empties, kept>>

ForceMerge(size) ==
    /\ pc = "force"
    /\ Returns(size)
    /\ Conclude(IF size = 0 THEN level[1].covers ELSE Covered(level, DOMAIN level))
    /\ UNCHANGED <<sizes, local, levels, kept>>

\* A call raises, or the client of the endpoint goes away: nothing is appended.
Fail ==
    /\ pc \notin {"done", "failed"} /\ Conclude({})
    /\ UNCHANGED <<sizes, local, levels, empties, kept>>

-----------------------------------------------------------------------------
(* _run_local_quality_guard *)

\* What is listed under the summary in the end; first a faulty list that was made before
\* the repair.
ListedBefore(first, repaired) == Facts \ first
Listed(first, repaired) == Facts \ repaired

\* The facts the summary has at first and those after a repair, which may drop others or
\* fail; then as many of the missing ones as the limit admits are listed under it.
QualityGuard(first, repaired) ==
    /\ pc = "guard" /\ pc' = "done"
    /\ IF Cardinality(first) >= MinKept THEN kept' = first
       ELSE IF Cardinality(repaired) >= MinKept THEN kept' = repaired
       ELSE \E listed \in SUBSET Listed(first, repaired) :
              /\ Cardinality(listed) = Min({RepairLimit, Cardinality(Listed(first, repaired))})
              /\ kept' = repaired \cup listed
    /\ UNCHANGED <<sizes, local, level, groups, merged, levels, summary, empties>>

Work ==
    \/ \E size \in SummarySizes \cup {0} :
          SinglePass(size) \/ MapChunk(size) \/ ReduceGroup(size) \/ ForceMerge(size)
    \/ Split \/ Mapped \/ Reduced
    \/ \E first, repaired \in SUBSET Facts : QualityGuard(first, repaired)

Next == Work \/ Fail

Spec == Init /\ [][Next]_vars

\* Every call of the model returns.
FairSpec == Spec /\ WF_vars(Work)

-----------------------------------------------------------------------------
(* Properties *)

\* If no call came back empty the summary stands for every message, whatever the sizes,
\* the overlaps and the levels it took.
SummaryCoversAll == pc \in {"guard", "done"} /\ ~empties => summary = DOMAIN sizes

\* The reduction ends though the summaries may not get shorter (hierarchical_max_levels,
\* "hard cap to avoid endless reduction loops").
CompressionEnds == <>(pc \in {"done", "failed"})

\* The guard leaves a local summary with the coverage asked for, as far as the limit on
\* the listed facts lets it.
FactsKept == local /\ pc = "done" => Cardinality(kept) >= Min({MinKept, RepairLimit})
=============================================================================
