--------------------------- MODULE NovelPipeline ---------------------------
(***************************************************************************)
(* The built-in workflows that write a novel, from the charter to the      *)
(* polished style of a chapter (_build_novel_system_workflows of           *)
(* infrastructure/config/workflow_config_service.py), and the documents    *)
(* they leave in a project.                                                *)
(*                                                                         *)
(* Each reads texts that earlier ones wrote, asks a model for a document,  *)
(* and overwrites its file.  Nothing orders their runs: any may be run     *)
(* again, also while another is under way.  A document names its upstream  *)
(* files, never their versions.  A file is a name, for one chapter, and a  *)
(* text given to a run is what its file holds when the run begins.  Runs   *)
(* that are told another path, or not to write, are left out.              *)
(***************************************************************************)
EXTENDS WorkflowGraph, FiniteSetsExt

CONSTANTS MaxMade,     \* bound: documents written after the start
          MaxUnderWay  \* bound: runs at a time

VARIABLES files,     \* [Documents -> None or what the file was made from]
          underWay,  \* runs that have begun
          made       \* documents written since

vars == <<files, underWay, made>>

-----------------------------------------------------------------------------
(* The workflows *)

Blank == [type |-> None, next |-> None, yes |-> None, no |-> None, out |-> None,
          reads |-> {}, params |-> {}, mode |-> None]

\* start_1, llm_1, artifact_1, end_1; the path and the prompt name the chapter, if there is one.
Nodes(doc, context, chapter) ==
    [start_1    |-> [Blank EXCEPT !.type = "start", !.next = "llm_1"],
     llm_1      |-> [Blank EXCEPT !.type = "llm", !.next = "artifact_1", !.out = doc,
                                  !.params = context \cup chapter \cup {"language"}],
     artifact_1 |-> [Blank EXCEPT !.type = "artifact", !.next = "end_1", !.reads = {doc},
                                  !.params = chapter, !.mode = "overwrite"],
     end_1      |-> [Blank EXCEPT !.type = "end", !.reads = {"last_artifact"}]]

\* file: what it writes; required and optional: its inputs; upstream: the files that the
\* document says it is made from; context: the inputs that the prompt passes on.
Stage(file, doc, chapter, required, optional, upstream, context) ==
    [file |-> file, doc |-> doc, chapter |-> chapter, required |-> required \cup chapter,
     optional |-> optional \cup {"language"}, upstream |-> upstream, context |-> context]

Definition(s) ==
    [entry |-> "start_1", inputs |-> s.required \cup s.optional,
     nodes |-> Nodes(s.doc, s.context, s.chapter)]

Chapter == {"chapter_id"}

Charter == Stage("charter", "charter_doc", {},
    {"idea"}, {"genre", "target_audience", "tone", "length_target"}, {},
    {"idea", "genre", "target_audience", "tone", "length_target"})

World == Stage("world", "world_doc", {}, {"charter_text"}, {}, {"charter"}, {"charter_text"})

Characters == Stage("characters", "characters_doc", {},
    {"charter_text", "world_text"}, {}, {"charter", "world"}, {"charter_text", "world_text"})

Plot == Stage("plot", "plot_doc", {},
    {"charter_text", "world_text", "characters_text"}, {"chapter_count"},
    {"charter", "world", "characters"},
    {"charter_text", "world_text", "characters_text", "chapter_count"})

ChapterPlan == Stage("plan", "chapter_plan_doc", Chapter,
    {"plot_text", "characters_text", "world_text"}, {}, {"plot", "characters", "world"},
    {"chapter_id", "plot_text", "characters_text", "world_text"})

\* A faulty ChapterDraft: the file of the plan is written over.
ChapterDraftOverPlan == Stage("plan", "chapter_draft_doc", Chapter,
    {"chapter_plan_text"}, {"style_guide"}, {"plan"},
    {"chapter_id", "chapter_plan_text", "style_guide"})

ChapterDraft == Stage("draft", "chapter_draft_doc", Chapter,
    {"chapter_plan_text"}, {"style_guide"}, {"plan"},
    {"chapter_id", "chapter_plan_text", "style_guide"})

ContinuityCheck == Stage("continuity", "continuity_report_doc", Chapter,
    {"chapter_draft_text", "world_text", "characters_text", "plot_text"}, {},
    {"draft", "world", "characters", "plot"},
    {"chapter_id", "chapter_draft_text", "world_text", "characters_text", "plot_text"})

StylePolish == Stage("style", "style_report_doc", Chapter,
    {"chapter_draft_text"}, {"style_profile", "continuity_report_text"}, {"draft", "continuity"},
    {"chapter_id", "chapter_draft_text", "style_profile", "continuity_report_text"})

Stages == <<Charter, World, Characters, Plot, ChapterPlan, ChapterDraft, ContinuityCheck,
            StylePolish>>

Documents == {"charter", "world", "characters", "plot", "plan", "draft", "continuity", "style"}

\* The document an input is the text of, or none.
Source(input) ==
    CASE input = "charter_text"           -> {"charter"}
      [] input = "world_text"             -> {"world"}
      [] input = "characters_text"        -> {"characters"}
      [] input = "plot_text"              -> {"plot"}
      [] input = "chapter_plan_text"      -> {"plan"}
      [] input = "chapter_draft_text"     -> {"draft"}
      [] input = "continuity_report_text" -> {"continuity"}
      [] OTHER                            -> {}

Sources(inputs) == UNION {Source(i) : i \in inputs}

-----------------------------------------------------------------------------
(* The documents *)

\* A document is up to date if all it was made from still is there, and up to date.
UpToDate ==
    LET fresh[i \in 0..Len(Stages)] ==
          IF i = 0 THEN {}
          ELSE LET f == Stages[i].file
                   before == fresh[i - 1]
                   ok == files[f] # None /\ \A v \in files[f].from :
                            v[1] \in before /\ files[v[1]].version = v[2]
               IN  before \cup (IF ok THEN {f} ELSE {})
    IN  fresh[Len(Stages)]

Version(f) == <<f, files[f].version>>

\* A run of a stage that is given some of the optional texts; it takes all at once.
Begin(i, given) ==
    /\ Cardinality(underWay) < MaxUnderWay /\ made + Cardinality(underWay) < MaxMade
    /\ given \subseteq Sources(Stages[i].optional)
    /\ LET texts == Sources(Stages[i].required) \cup given
       IN  /\ \A f \in texts : files[f] # None
           /\ underWay' = underWay \cup
                {[stage |-> i, from |-> {Version(f) : f \in texts},
                  lineage |-> UNION {files[f].lineage : f \in texts},
                  clean |-> texts \subseteq UpToDate]}
    /\ UNCHANGED <<files, made>>

\* The artifact node overwrites the file.
Write(r) ==
    LET f == Stages[r.stage].file
        version == Len(Stages) + made + 1
    IN  /\ files' = [files EXCEPT ![f] =
                        [version |-> version, from |-> r.from, clean |-> r.clean,
                         lineage |-> r.lineage \cup {<<f, version>>}]]
        /\ underWay' = underWay \ {r} /\ made' = made + 1

\* A run fails, is cancelled or dies before its artifact node.
Fail(r) == underWay' = underWay \ {r} /\ UNCHANGED <<files, made>>

\* A project where the first stages, each once and in order, have been run.
Init ==
    /\ underWay = {} /\ made = 0
    /\ \E n \in 0..Len(Stages) :
          LET from(i) == {<<Stages[j].file, j>> :
                            j \in {k \in 1..n : Stages[k].file \in Sources(Stages[i].required)}}
              lineage[i \in 1..n] ==
                  UNION {lineage[v[2]] : v \in from(i)} \cup {<<Stages[i].file, i>>}
              at(f) == {i \in 1..n : Stages[i].file = f}
          IN  files = [f \in Documents |->
                  IF at(f) = {} THEN None
                  ELSE LET i == Max(at(f))
                       IN  [version |-> i, from |-> from(i), clean |-> TRUE,
                            lineage |-> lineage[i]]]

Next ==
    \/ \E i \in DOMAIN Stages, given \in {{}, {"continuity"}} : Begin(i, given)
    \/ \E r \in underWay : Write(r) \/ Fail(r)

Spec == Init /\ [][Next]_vars

-----------------------------------------------------------------------------
(* Properties *)

\* What a node reads was written before by the one node before it that writes.
ReadsWritten(workflow) ==
    workflow.nodes["artifact_1"].reads = {workflow.nodes["llm_1"].out}

(***************************************************************************)
(* The engine and the validator accept every built-in workflow, no two     *)
(* write the same file, and what each says it is made from comes from      *)
(* stages before it: all of it from texts it can be given, and nothing it  *)
(* must be given is left unsaid (_build_novel_system_workflows).           *)
(***************************************************************************)
PipelineSound ==
    \A i \in DOMAIN Stages :
        LET s == Stages[i] IN
        /\ ValidWorkflow(Definition(s)) /\ ValidRunSpec(Compile(Definition(s)))
        /\ ReadsWritten(Definition(s))
        /\ s.upstream \subseteq {Stages[j].file : j \in 1..(i - 1)}
        /\ \A j \in 1..(i - 1) : Stages[j].file # s.file
        /\ Sources(s.required) \subseteq s.upstream
        /\ s.upstream \subseteq Sources(s.required \cup s.optional)

Mixed(lineage) == \E v, w \in lineage : v[1] = w[1] /\ v[2] # w[2]

(***************************************************************************)
(* Nothing keeps a document up to date when what it was made from is run   *)
(* again.  But whatever is run again and however the runs overlap, a       *)
(* document goes back to two versions of another only if, when its run     *)
(* began, one of its texts was out of date.                                *)
(***************************************************************************)
MixedOnlyFromStale ==
    \A f \in Documents :
        files[f] # None /\ Mixed(files[f].lineage) => ~files[f].clean

(***************************************************************************)
(* A document was made from all the files it names, but for a polish that  *)
(* was not given the report on continuity and names it all the same.       *)
(***************************************************************************)
UpstreamTrue ==
    \A i \in DOMAIN Stages :
        files[Stages[i].file] # None =>
        LET f == Stages[i].file
            missing == Stages[i].upstream \ {v[1] : v \in files[f].from}
        IN  missing # {} => f = "style" /\ missing = {"continuity"}
=============================================================================
