---------------------------- MODULE MCResources ----------------------------
(* What surrounds the conversations, for TLC, one part per behaviour: the documents of a   *)
(* knowledge base, a retrieval, the patches of a project file, the page that shows a       *)
(* session, a workflow definition, the models, the lists of the settings, the files of a   *)
(* project, the sessions, the plugins, the workflow definitions on disk, the addresses and *)
(* keys of the providers, and the documents of a novel.  They share no state; `part' says  *)
(* which one a behaviour is about, and the others rest.                                    *)
EXTENDS SettingsFiles, Sessions, ProjectFiles, WorkflowStore, KnowledgeDocuments,
        ModelSettings, TLC

CONSTANTS Searches, Payloads, StoredChunks, Repeating, TopK, RrfK, FusionTopK, \* Retrieval
          RerankWeight, Window, MaxTotal, Configs,
          Lines, MaxLines, MaxPatches, TTL,                             \* ProjectPatches
          Sessions, MaxMessages, MaxActs,                               \* ChatClient
          Directories, BuiltinId, BuiltinTools, RequestScoped,          \* Plugins
          Adapters, Strict, Formats,
          Keyless, Profiles, DefaultProfile, Migrations, Urls, Keys,    \* ProviderAccess
          Bodies, ProbeAnswers, Hint, MaxRequests,
          MaxMade, MaxUnderWay                                          \* NovelPipeline

VARIABLES part,
          config, phase, query, found, chosen, ranking, results, rewrite,
          file, patches, age, ids, off,
          files, nextId, acts, turns, open, view, busy, loading, streaming, loads, stream,
          inbox, call, astray,
          definition,
          dirs, tools, providers, exports, exported,
          entries, keys, temp, asked, process, number, crashed, promised, torn, sent,
          manuscript, underWay, written

Rag == INSTANCE Retrieval WITH Stored <- StoredChunks
Project == INSTANCE ProjectPatches WITH astray <- off
Page == INSTANCE ChatClient
Graph == INSTANCE WorkflowGraph
Plugins == INSTANCE Plugins WITH Builtin <- BuiltinTools
Access == INSTANCE ProviderAccess WITH Updates <- Bodies, Answers <- ProbeAnswers,
    reqs <- asked, up <- process, crashes <- crashed, count <- number
Novel == INSTANCE NovelPipeline WITH files <- manuscript, made <- written

ragVars == <<config, phase, query, found, chosen, ranking, results, rewrite>>
projectVars == <<file, patches, age, ids, off>>
pageVars == <<files, nextId, acts, turns, open, view, busy, loading, streaming, loads, stream,
              inbox, call, astray>>
pluginsVars == <<dirs, tools, providers, exports, exported>>
accessVars == <<entries, keys, temp, asked, process, number, crashed, promised, torn,
                sent>>
novelVars == <<manuscript, underWay, written>>
all == <<part, documentVars, ragVars, projectVars, pageVars, definition, settingsVars,
         listVars, editorVars, chatsVars, pluginsVars, storeVars, accessVars, novelVars>>

NoKnowledge == DocumentsInit /\ ~sqlite
NoRag ==
    /\ config = None /\ phase = None /\ query = None /\ found = None /\ chosen = None
    /\ ranking = None /\ results = None /\ rewrite = None
NoProject == file = None /\ patches = None /\ age = None /\ ids = None /\ off = None
NoPage ==
    /\ files = None /\ nextId = None /\ acts = None /\ turns = None /\ open = None
    /\ view = None /\ busy = None /\ loading = None /\ streaming = None /\ loads = None
    /\ stream = None /\ inbox = None /\ call = None /\ astray = None
NoModels == SettingsInit /\ Read("models") = <<>> /\ disk.default = Void
NoLists == ListsInit /\ kind = "folders"
NoChats ==
    /\ ChatsInit
    /\ sess[1] = [New("chat", FALSE, Absent) EXCEPT !.msgs = <<1, 2>>, !.title = ByProgram("dots")]
\* The sessions begin with a chat that stays; others are made, moved and saved.
SomeChat == ChatsInit /\ sess[1].place = "chat" /\ ~sess[1].temp
NoPlugins ==
    /\ dirs = None /\ tools = None /\ providers = None /\ exports = None
    /\ exported = None
NoStore == StoreInit /\ workflows = {}
NoAccess ==
    /\ entries = None /\ keys = None /\ temp = None /\ asked = None /\ process = None
    /\ number = None /\ crashed = None /\ promised = None /\ torn = None /\ sent = None
NoNovel ==
    /\ manuscript = None /\ underWay = None /\ written = None

-----------------------------------------------------------------------------
\* All workflow definitions over three ids up to their order, with targets that may be
\* missing.
NodeIds == 1..3
Plain == [type |-> None, next |-> None, yes |-> None, no |-> None, params |-> {}]
Nodes == {[Plain EXCEPT !.type = t, !.next = n] : t \in {"start", "llm"}, n \in 0..3}
    \cup {[Plain EXCEPT !.type = "condition", !.yes = b[1], !.no = b[2]]
            : b \in {<<1, 1>>, <<1, 2>>, <<1, 3>>, <<2, 2>>, <<2, 3>>, <<3, 0>>}}
    \cup {[Plain EXCEPT !.type = "end"]}
SmallWorkflows == [entry : {0, 1}, inputs : {{}}, nodes : [NodeIds -> Nodes]]

ResourcesInit ==
    /\ part \in {"documents", "retrieval", "patches", "page", "workflow", "models",
                "lists", "files", "sessions", "plugins", "definitions", "access", "novel"}
    /\ IF part = "documents" THEN DocumentsInit ELSE NoKnowledge
    /\ IF part = "retrieval" THEN Rag!Init ELSE NoRag
    /\ IF part = "patches" THEN Project!Init ELSE NoProject
    /\ IF part = "page" THEN Page!Init ELSE NoPage
    /\ IF part = "workflow" THEN definition \in SmallWorkflows ELSE definition = None
    /\ IF part = "models" THEN SettingsInit ELSE NoModels
    /\ IF part = "lists" THEN ListsInit ELSE NoLists
    /\ EditorInit
    /\ IF part = "sessions" THEN SomeChat ELSE NoChats
    /\ IF part = "plugins" THEN Plugins!Init ELSE NoPlugins
    /\ IF part = "definitions" THEN StoreInit ELSE NoStore
    /\ IF part = "access" THEN Access!Init ELSE NoAccess
    /\ IF part = "novel" THEN Novel!Init ELSE NoNovel

ResourcesNext ==
    /\ UNCHANGED <<part, definition>>
    /\ IF part = "documents" THEN DocumentsNext ELSE UNCHANGED documentVars
    /\ IF part = "retrieval" THEN Rag!Next ELSE UNCHANGED ragVars
    /\ IF part = "patches" THEN Project!Next ELSE UNCHANGED projectVars
    /\ IF part = "page" THEN Page!Next ELSE UNCHANGED pageVars
    /\ IF part = "models" THEN SettingsNext ELSE UNCHANGED settingsVars
    /\ IF part = "lists" THEN ListsNext ELSE UNCHANGED listVars
    /\ IF part = "files" THEN EditorNext ELSE UNCHANGED editorVars
    /\ IF part = "sessions" THEN ChatsNext ELSE UNCHANGED chatsVars
    /\ IF part = "plugins" THEN Plugins!Next ELSE UNCHANGED pluginsVars
    /\ IF part = "definitions" THEN StoreNext ELSE UNCHANGED storeVars
    /\ IF part = "access" THEN Access!Next ELSE UNCHANGED accessVars
    /\ IF part = "novel" THEN Novel!Next ELSE UNCHANGED novelVars

ResourcesSpec == ResourcesInit /\ [][ResourcesNext]_all

-----------------------------------------------------------------------------
(* The properties of the parts *)

\* No place of a retrieval stays free while a chunk may take it (Retrieval).
PlacesFilled == part = "retrieval" => Rag!PlacesFilled

\* A confirmed patch does what was meant, or nothing (ProjectPatches), and a search of the
\* files finds every line or says that it stopped (ProjectFiles).
ProjectToolsHonest ==
    (part = "patches" => Project!PatchesDoWhatIsMeant) /\ SearchTellsAll

\* A quiet page shows what its session holds (ChatClient).
Agree == part = "page" => Page!Agree

\* What validate_graph accepts terminates: every walk from the entry ends at an end node
\* within as many steps as there are nodes (WorkflowGraph).  The built-in workflows that
\* write a novel fit together, and their documents are made from what they name
\* (NovelPipeline).
WorkflowsSound ==
    /\ part = "workflow" => (Graph!ValidWorkflow(definition) => Graph!Terminates(definition))
    /\ part = "novel" => Novel!MixedOnlyFromStale /\ Novel!UpstreamTrue
    /\ part = "novel" /\ written = 0 /\ underWay = {} => Novel!PipelineSound

\* What the registries offer is what the status lists of the plugins say (Plugins), and
\* the addresses and keys of providers are what was acknowledged, and what goes out uses
\* them (ProviderAccess).
ProvidersAgree ==
    /\ part = "plugins" =>
          /\ Plugins!ToolsAgree /\ Plugins!CapabilitiesAgree
          /\ Plugins!ProvidersHonest /\ Plugins!CoreExports
    /\ part = "access" => Access!KeysKept /\ Access!ProfilesAgree /\ Access!CallsHonest

-----------------------------------------------------------------------------
(* Values *)

R(d, i, s) == [chunk |-> <<d, i>>, score |-> s]
MCSearches == <<"k", "l">>
MCPayloads == {<<>>, <<R("d", 1, 2)>>, <<R("d", 1, 3), R("d", 3, 2), R("e", 1, 1)>>,
               <<R("e", 1, 3), R("d", 2, 3), R("d", 1, 1)>>}
MCStored == {"d", "e"} \X (1..3)
MCRepeating == {<<"d", 2>>}
C(m, c, p, r, t) == [mode |-> m, collapse |-> c, perDoc |-> p, reorder |-> r, transform |-> t]
MCConfigs == {C("vector", FALSE, 1, TRUE, FALSE), C("bm25", FALSE, 1, FALSE, FALSE),
              C("hybrid", TRUE, 0, TRUE, TRUE), C("hybrid", FALSE, 1, FALSE, TRUE)}
MCPaths == {<<"a">>, <<"d">>, <<"d", "a">>}
MCOpened == {<<<<"d", "a">>, "x">>}
MCTexts == {"x", "y"}
MCHits == [text \in MCTexts |-> IF text = "x" THEN 1 ELSE 2]
MCHistories == {<<1, 2>>}
MCImports == <<<<>>, <<7, 8>>>>
\* Up to two plugin directories of any kind here, or three around two that are sound.
Section(on, works, gives) == [on |-> on, entry |-> TRUE, works |-> works, gives |-> gives]
Tools(on, works, gives, handles, caps) ==
    [on |-> on, entry |-> TRUE, works |-> works, gives |-> gives, runs |-> gives,
     handles |-> handles, caps |-> caps]
Capability(id, order, select, choices, default) ==
    [id |-> id, order |-> order, select |-> select, options |-> choices, default |-> default]
Modes == <<Capability("m", 1, TRUE, <<"x", "y">>, None)>>
NoSuchMode == <<Capability("m", 2, TRUE, <<"y">>, "x")>>
TwoModes == <<Capability("n", 1, FALSE, <<>>, None), Capability("m", 1, TRUE, <<"x">>, "x")>>
Plugin(manifest, id, tool, provider, export) ==
    [manifest |-> manifest, id |-> id, on |-> TRUE, tool |-> tool, provider |-> provider,
     export |-> export]
Sound ==
    {Plugin("ok", id, tool, Section(TRUE, TRUE, {"k"}), Section(TRUE, TRUE, {"md"})) :
        id \in {"a", "b"},
        tool \in {Tools(TRUE, TRUE, {"t"}, {"m"}, Modes),
                  Tools(TRUE, TRUE, {"t", "u"}, {"m", "n"}, TwoModes)}}
AnyPlugins ==
    Sound \cup {Plugin("missing", "-", None, None, None), Plugin("bad", "-", None, None, None)}
    \cup {Plugin("ok", id, None, Section(TRUE, TRUE, {"k"}), Section(TRUE, TRUE, {"md"})) :
             id \in {"a", "b"}}
    \cup {Plugin("ok", "a", Tools(on, ~on, {"t"}, {"m"}, Modes), Section(on, ~on, {"k", "l"}),
                 Section(on, ~on, {"md"})) : on \in BOOLEAN}
    \cup {Plugin("ok", "a", Tools(TRUE, TRUE, {"t"}, {"m"}, NoSuchMode),
                 Section(TRUE, TRUE, {"k", "o"}),
                 [Section(TRUE, TRUE, {"md"}) EXCEPT !.entry = FALSE])}
Named(plugins) == [i \in DOMAIN plugins |-> [name |-> <<"a", "b", "c">>[i]] @@ plugins[i]]
MCDirectories ==
    {Named(plugins) : plugins \in UNION {[1..n -> AnyPlugins] : n \in 0..2}
        \cup {<<x, y, z>> : x \in AnyPlugins, y, z \in Sound}}
OfUser(id) == [id |-> id, system |-> FALSE, version |-> 0, name |-> 10, nodes |-> 10]
OwnedByProgram(id) == [id |-> id, system |-> TRUE, version |-> 1, name |-> 1, nodes |-> 1]
MCWorkflowFiles == {{}, {OwnedByProgram("i"), OfUser("o")}, {OfUser("i"), OfUser("o")}}
Profile(id, url, regions, priority) ==
    [id |-> id, url |-> url, regions |-> regions, priority |-> priority]
MCProfiles ==
    [x \in Providers |-> IF x \in Builtin
                         THEN <<Profile("cn", "u1", {"cn"}, 20), Profile("global", "u2", {}, 10)>>
                         ELSE <<>>]
MCDefaultProfile == [x \in Providers |-> IF x \in Builtin THEN "global" ELSE None]
MCMigrations ==
    [x \in Providers |-> IF x \in Builtin THEN [old |-> "u0", new |-> "u2"] ELSE None]
Body(url, profile, on, key) == [url |-> url, profile |-> profile, on |-> on, key |-> key]
MCBodies ==
    {Body("u1", "global", None, "k"), Body("u0", "", None, None), Body("u1", None, None, "l"),
     Body(None, "cn", FALSE, None), Body(None, "other", None, "k")}
=============================================================================
