--------------------------- MODULE MCConversation ---------------------------
(* The parts of a conversation for TLC, one per behaviour: the tool loop, the turns of a   *)
(* chat, a compression, the file of a session, a question to a group of assistants, a      *)
(* comparison of models, the memories, the tools of a turn, its knowledge tools, the       *)
(* queries of a retrieval, the web tools, an answer of LM Studio, translations, the lines  *)
(* of a session's file, and what a turn sends to its model.  They share no state; `part'   *)
(* says which one a behaviour is about, and the others rest.                               *)
EXTENDS ToolLoop, ChatTurn, ConversationStorage

CONSTANTS Histories, SummarySizes, Budget, Target, Overlap, ReduceTarget,  \* Compression
          ReduceOverlap, MaxLevels, CriticalFacts, MinKept, RepairLimit,
          Groups, Policies, AllowParallel, AllowFinish,                    \* GroupChat
          ModelIds, MaxChunks,                                             \* CompareChat
          Assistants, Contents, Marked, Score, Threshold, TopK,         \* Memory
          MaxInjected, MaxInstructions, MaxItems, Settings,
          MaxMemories,
          Registered, Knowledge, Documents, Python, Defaults, GroupOf,  \* TurnTools
          CapabilityGroup, Handlers, Bases, Messages, TurnPolicies,
          Gates, MaxChanges, MaxTurnCalls,
          Refs, Allowed, Queries, Windows, HitLimit, MaxRefs,           \* KnowledgeTools
          MaxChars, MaxLookups,
          QueryTexts, TextFacts, PlanSettings, BaseOrder, ModelOf,      \* RetrievalPlan
          ChunkPool, MaxAnswer, MaxExtra,
          WebSettings, Rankings, Addressed, Wiki, Local, PageContents,     \* WebTools
          MaxPage, TavilyPages, Short, Cap, MaxWebCalls,
          Fragments, MaxText, MaxActs, MaxReasoning,                    \* LmStudio
          Users, TranslationConfigs, Wanted, Detected, Code,            \* Translation
          Compressors, MaxFragments,
          Shapes, Edits, Conversations, MaxRewrites,                    \* SessionFile
          Names, Setups, Sizes, MaxUploads, MaxAsks, MaxTouches         \* ModelInput

VARIABLES part,
          sizes, local, phase, level, groups, merged, levels, summary, empties, kept,
          mode, order, boss, settings, stage, cycle, turns, last, talk, targets, attempt,
          said, reason,
          models, content, replies, queue, finished, delivered, fan, exists, answer, saved,
          mems, made, disk, chat, injected, requests, edited,
          configured, offered, python, ran, edits,
          bm25, vec, cites, cached, told, read, lookups, reindexed,
          retrieval, asked, step, branch, effective, blocked, queries, enabled,
          cache, asking, searches, rewritten, given,
          stored, webConfig, engine, pages, reads, shown, webCalls,
          bound, rounds, parser, underway, act, lastly, marked, out, reading, client,
          translating, translations, lock, control, stuck, retranslated,
          body, counted, view, entries, rewrites, split, misled,
          uploads, temp, shelf, thread, asks, moves, touched, prompt

Summary == INSTANCE Compression WITH pc <- phase, Facts <- CriticalFacts
Group == INSTANCE GroupChat WITH pc <- stage, round <- cycle, log <- said
Compare == INSTANCE CompareChat WITH task <- models, results <- replies, pc <- fan
Memories == INSTANCE Memory WITH ops <- requests
Offer == INSTANCE TurnTools WITH Policies <- TurnPolicies, MaxCalls <- MaxTurnCalls,
    settings <- configured, turn <- offered, call <- python, changes <- edits
Lookup == INSTANCE KnowledgeTools WITH TopK <- HitLimit, MaxCalls <- MaxLookups,
    made <- lookups, changes <- reindexed
Plan == INSTANCE RetrievalPlan WITH Texts <- QueryTexts, Facts <- TextFacts,
    Settings <- PlanSettings, Bases <- BaseOrder, Chunks <- ChunkPool, MaxChunks <- MaxAnswer,
    pc <- step, answer <- given, config <- retrieval, at <- asking
Web == INSTANCE WebTools WITH Settings <- WebSettings, Lists <- Rankings,
    Messages <- Addressed, Contents <- PageContents, MaxCalls <- MaxWebCalls,
    saved <- stored, config <- webConfig, found <- pages, called <- webCalls
Streamed == INSTANCE LmStudio WITH MaxRounds <- MaxActs, tools <- bound, said <- rounds,
    queue <- underway, stage <- reading, final <- lastly
Translated == INSTANCE Translation WITH Configs <- TranslationConfigs, Asked <- Wanted,
    settings <- translating, tr <- translations, changes <- retranslated
Transcript == INSTANCE SessionFile WITH MaxActs <- MaxRewrites, step <- counted,
    log <- entries, acts <- rewrites
Prompt == INSTANCE ModelInput WITH MaxChanges <- MaxTouches, files <- shelf, log <-
    thread, changes <- touched, sent <- prompt

summaryVars == <<sizes, local, phase, level, groups, merged, levels, summary, empties, kept>>
groupVars == <<mode, order, boss, settings, stage, cycle, turns, last, talk, targets, attempt,
               said, reason>>
compareVars == <<models, content, replies, queue, finished, delivered, fan, exists, answer,
                 saved>>
memoriesVars == <<mems, made, disk, chat, injected, requests, edited>>
offerVars == <<configured, offered, python, ran, edits>>
lookupVars == <<bm25, vec, cites, cached, told, read, lookups, reindexed>>
planVars == <<retrieval, asked, step, branch, effective, blocked, queries, enabled, cache,
              asking, searches, rewritten, given>>
webVars == <<stored, webConfig, engine, pages, reads, shown, webCalls>>
streamedVars == <<bound, rounds, parser, underway, act, lastly, marked, out, reading,
                  client>>
translatedVars == <<translating, translations, lock, control, stuck, retranslated>>
transcriptVars == <<body, counted, view, entries, rewrites, split, misled>>
promptVars == <<uploads, temp, shelf, thread, asks, moves, touched, prompt>>
all == <<part, vars, turnVars, storageVars, summaryVars, groupVars, compareVars,
         memoriesVars, offerVars, lookupVars, planVars, webVars, streamedVars,
         translatedVars, transcriptVars, promptVars>>

ToolsAtRest == Init /\ ~evidence /\ ~web
NoSummary ==
    /\ sizes = None /\ local = None /\ phase = None /\ level = None /\ groups = None
    /\ merged = None /\ levels = None /\ summary = None /\ empties = None /\ kept = None

NoGroup ==
    /\ mode = None /\ order = None /\ boss = None /\ settings = None /\ stage = None
    /\ cycle = None /\ turns = None /\ last = None /\ talk = None /\ targets = None
    /\ attempt = None /\ said = None /\ reason = None
NoCompare ==
    /\ models = None /\ content = None /\ replies = None /\ queue = None /\ finished = None
    /\ delivered = None /\ fan = None /\ exists = None /\ answer = None /\ saved = None
NoMemories ==
    /\ mems = None /\ made = None /\ disk = None /\ chat = None /\ injected = None
    /\ requests = None /\ edited = None
NoOffer ==
    /\ configured = None /\ offered = None /\ python = None /\ ran = None
    /\ edits = None
NoLookup ==
    /\ bm25 = None /\ vec = None /\ cites = None /\ cached = None /\ told = None
    /\ read = None /\ lookups = None /\ reindexed = None
NoPlan ==
    /\ retrieval = None /\ asked = None /\ step = None /\ branch = None
    /\ effective = None /\ blocked = None /\ queries = None /\ enabled = None
    /\ cache = None /\ asking = None /\ searches = None /\ rewritten = None
    /\ given = None
NoWeb ==
    /\ stored = None /\ webConfig = None /\ engine = None /\ pages = None /\ reads = None
    /\ shown = None /\ webCalls = None
NoStreamed ==
    /\ bound = None /\ rounds = None /\ parser = None /\ underway = None /\ act = None
    /\ lastly = None /\ marked = None /\ out = None /\ reading = None /\ client = None
NoTranslated ==
    /\ translating = None /\ translations = None /\ lock = None /\ control = None
    /\ stuck = None /\ retranslated = None
NoTranscript ==
    /\ body = None /\ counted = None /\ view = None /\ entries = None
    /\ rewrites = None /\ split = None /\ misled = None
NoPrompt ==
    /\ uploads = None /\ temp = None /\ shelf = None /\ thread = None /\ asks = None
    /\ moves = None /\ touched = None /\ prompt = None

ConversationInit ==
    /\ part \in {"tools", "turns", "storage", "summary", "group", "compare", "memory",
                "offer", "knowledge", "plan", "web", "streamed", "translation",
                "messages", "input"}
    /\ IF part = "tools" THEN Init ELSE ToolsAtRest
    /\ TurnInit /\ StorageInit
    /\ IF part = "summary" THEN Summary!Init ELSE NoSummary
    /\ IF part = "group" THEN Group!Init ELSE NoGroup
    /\ IF part = "compare" THEN Compare!Init ELSE NoCompare
    /\ IF part = "memory" THEN Memories!Init ELSE NoMemories
    /\ IF part = "offer" THEN Offer!Init ELSE NoOffer
    /\ IF part = "knowledge" THEN Lookup!Init ELSE NoLookup
    /\ IF part = "plan" THEN Plan!Init ELSE NoPlan
    /\ IF part = "web" THEN Web!Init ELSE NoWeb
    /\ IF part = "streamed" THEN Streamed!Init ELSE NoStreamed
    /\ IF part = "translation" THEN Translated!Init ELSE NoTranslated
    /\ IF part = "messages" THEN Transcript!Init ELSE NoTranscript
    /\ IF part = "input" THEN Prompt!Init ELSE NoPrompt

ConversationNext ==
    /\ UNCHANGED part
    /\ IF part = "tools" THEN Next ELSE UNCHANGED vars
    /\ IF part = "turns" THEN TurnNext ELSE UNCHANGED turnVars
    /\ IF part = "storage" THEN StorageNext ELSE UNCHANGED storageVars
    /\ IF part = "summary" THEN Summary!Next ELSE UNCHANGED summaryVars
    /\ IF part = "group" THEN Group!Next ELSE UNCHANGED groupVars
    /\ IF part = "compare" THEN Compare!Next ELSE UNCHANGED compareVars
    /\ IF part = "memory" THEN Memories!Next ELSE UNCHANGED memoriesVars
    /\ IF part = "offer" THEN Offer!Next ELSE UNCHANGED offerVars
    /\ IF part = "knowledge" THEN Lookup!Next ELSE UNCHANGED lookupVars
    /\ IF part = "plan" THEN Plan!Next ELSE UNCHANGED planVars
    /\ IF part = "web" THEN Web!Next ELSE UNCHANGED webVars
    /\ IF part = "streamed" THEN Streamed!Next ELSE UNCHANGED streamedVars
    /\ IF part = "translation" THEN Translated!Next ELSE UNCHANGED translatedVars
    /\ IF part = "messages" THEN Transcript!Next ELSE UNCHANGED transcriptVars
    /\ IF part = "input" THEN Prompt!Next ELSE UNCHANGED promptVars

\* The fairness of ToolLoop and Compression.
ConversationSpec ==
    /\ ConversationInit /\ [][ConversationNext]_all
    /\ WF_vars(part = "tools" /\ Turn)
    /\ WF_summaryVars(part = "summary" /\ Summary!Work)

-----------------------------------------------------------------------------
(* The properties of the parts *)

\* No text loses or gains anything on its way: a summary covers every message and keeps the
\* facts (Compression); an answer shows all its content and none of its thinking, wherever the
\* tags are cut (LmStudio, Translation), a translation goes to the language that was meant, and
\* the local model stops the thread only when two uses of it overlap; messages are read back
\* from their file as they were written, and who changes one gets that one (SessionFile).
\* What a turn sends to its model is what it was given, or the user is told (ModelInput).
TextsComplete ==
    /\ part = "summary" => Summary!SummaryCoversAll /\ Summary!FactsKept
    /\ part = "streamed" =>
          Streamed!ContentWhole /\ Streamed!SameAtOnce /\ Streamed!ClientClosed
    /\ part = "translation" =>
          Translated!ShownWhole /\ Translated!NotIntoItself /\ Translated!StopsOnlyInOverlap
    /\ part = "input" => Prompt!InputWhole
    /\ part = "messages" => Transcript!WrittenIsRead /\ Transcript!MisledOnlyByPieces
    /\ part = "messages" /\ rewrites = 0 => Transcript!OneBranch

\* Turns of the tool loop and compressions come to an end.
WorkEnds ==
    /\ part = "tools" => TurnEnds
    /\ part = "summary" => Summary!CompressionEnds

\* A group chat does not end before everybody was heard (GroupChat), and what is stored of
\* a comparison is what was shown (CompareChat).
EveryoneHeard ==
    /\ part = "group" => Group!EveryoneHeard
    /\ part = "compare" => Compare!ComparisonWhole

\* No twins; memories have the right owner; a turn gets the right ones (Memory).
MemoryRight == part = "memory" => Memories!NoTwins /\ Memories!Owned /\ Memories!RightSources

\* No tool runs that is switched off for the turn, and what is offered runs (TurnTools); what
\* the web tools say is what they found, and pages of results go on (WebTools).
ToolsHonest ==
    /\ part = "offer" => Offer!NothingRunsThatIsOff /\ Offer!OfferIsHonest
    /\ part = "web" => Web!PagesGoOn /\ Web!ReadsHonest /\ Web!SourcesWhole

\* A citation means the chunk the last answer gave it, and a read accounts for every chunk
\* it was asked for (KnowledgeTools); the question is what is searched for, and an answer is
\* told as it was found (RetrievalPlan).
KnowledgeHonest ==
    /\ part = "knowledge" => Lookup!CitationsAgree /\ Lookup!ReadsAreHonest
    /\ part = "plan" => Plan!QuestionIsSearched /\ Plan!AnswerIsTold

-----------------------------------------------------------------------------
(* Values *)

MCBatches == {<<"search_knowledge">>, <<"web_search", Client>>, <<"read_knowledge">>, <<Client>>}
MCHistories == {<<1,1>>, <<1,1,1>>, <<2,1,1>>, <<1,1,2,1>>}
MCGroups == {<<"s">>, <<"s", "a">>, <<"a", "s", "b">>}
Policy(r, t, m, p, e) ==
    [rounds |-> r, minTurns |-> t, minRounds |-> m, maxParallel |-> p, retries |-> e]
MCPolicies == {Policy(3, 1, 1, 2, 1), Policy(2, 1, 3, 1, 0), Policy(4, 2, None, None, 0)}
MCModels == <<"m", "n">>
MCMarked == [c \in Contents |-> IF c = "n" THEN "instruction" ELSE "fact"]
MCScore == [c \in Contents |-> IF c = "n" THEN 1 ELSE IF c = "f" THEN 2 ELSE 0]
Setting(global, layers) ==
    [enabled |-> TRUE, extract |-> TRUE, global |-> global, assistant |-> TRUE,
     layers |-> layers]
MCSettings == {Setting(TRUE, {}), Setting(FALSE, {"fact"})}
Off(tools) == [t \in tools |-> FALSE]
MCTurnPolicies ==
    [assistant |-> {[tools |-> Off({}), bases |-> {"k"}],
                    [tools |-> Off({"python", "search"}), bases |-> {}]},
     project |-> {[tools |-> Off({}), bases |-> {}, override |-> FALSE],
                  [tools |-> Off({"web"}), bases |-> {"l"}, override |-> TRUE]},
     bases |-> {{"k", "l"}, {"l"}},
     code |-> {[on |-> {"client"}, priority |-> <<>>],
               [on |-> {"client", "server_jupyter", "server_subprocess"},
                priority |-> <<"server_jupyter", "client">>]}]
Rule(n, hits, include, exclude) ==
    [on |-> TRUE, valid |-> TRUE, priority |-> n, hits |-> hits, include |-> include,
     exclude |-> exclude]
MCGates == {[on |-> FALSE, rules |-> <<Rule(1, {"m"}, {}, {"python"})>>],
            [on |-> TRUE, rules |-> <<Rule(1, {"m"}, {"python", "doc"}, {}),
                                      Rule(2, {"n"}, {}, {"python"})>>]}
MCGroupOf == [t \in Registered |-> t]
MCCapabilities == [c \in {"websearch"} |-> "web"]
MCRefs == {<<"k", "d", 0>>, <<"k", "d", 1>>, <<"l", "e", 0>>}
MCTextFacts == [q |-> [kept |-> {"7"}, terms |-> {"x"}],
                r |-> [kept |-> {"7"}, terms |-> {"x", "y"}],
                s |-> [kept |-> {}, terms |-> {"x"}]]
PlanSetting(transform, guard, planner, limit, how, sqlite, strict) ==
    [transform |-> transform, guard |-> guard, newTerms |-> 1, planner |-> planner,
     limit |-> limit, mode |-> how, sqlite |-> sqlite, crag |-> TRUE, strict |-> strict]
MCPlanSettings == {PlanSetting(TRUE, TRUE, FALSE, 3, "hybrid", FALSE, FALSE),
                   PlanSetting(TRUE, FALSE, FALSE, 3, "bm25", FALSE, FALSE),
                   PlanSetting(FALSE, TRUE, TRUE, 2, "hybrid", TRUE, FALSE),
                   PlanSetting(TRUE, TRUE, TRUE, 1, "vector", TRUE, TRUE)}
MCBaseOrder == <<"b", "c">>
MCModelOf == [b |-> "n", c |-> "m"]
MCChunkPool == {<<"d", 0>>, <<"d", 2>>, <<"d", 5>>, <<"e", 1>>}
MCWebSettings ==
    {[provider |-> "tavily", size |-> 2, urls |-> 2, proxy |-> None, env |-> TRUE,
      curl |-> TRUE, paged |-> TRUE],
     [provider |-> "tavily", size |-> 1, urls |-> 2, proxy |-> None, env |-> FALSE,
      curl |-> TRUE, paged |-> TRUE],
     [provider |-> "duckduckgo", size |-> 2, urls |-> 1, proxy |-> "proxy", env |-> FALSE,
      curl |-> FALSE, paged |-> FALSE]}
MCRankings == {<<"a", "b", "a", "c">>, <<"a", "a", "", "b">>}
MCAddressed == {<<"w">>, <<"p", "l", "p", "w">>, <<"l">>}
MCPageContents ==
    {[type |-> "html", main |-> 0, all |-> 1, desc |-> TRUE],
     [type |-> "html", main |-> 4, all |-> 5, desc |-> TRUE],
     [type |-> "html", main |-> 0, all |-> 0, desc |-> FALSE],
     [type |-> "json", main |-> 0, all |-> 1, desc |-> TRUE],
     [type |-> "text", main |-> 0, all |-> 3, desc |-> FALSE]}
MCFragments == {<<"<">>, <<">">>, <<"/", ">", "x">>}
Translating(locally, key, target, input) ==
    [local |-> locally, key |-> key, target |-> target, input |-> input]
MCTranslationConfigs ==
    {Translating(TRUE, "g", "Chinese", "English"), Translating(TRUE, "h", "Chinese", "zh"),
     Translating(FALSE, "g", "Elvish", "English")}
MCWanted == {[target |-> None, auto |-> TRUE, input |-> FALSE],
             [target |-> None, auto |-> FALSE, input |-> TRUE]}
MCCode == [l \in {"Chinese", "zh", "English", "Elvish"} |->
              CASE l \in {"Chinese", "zh"} -> "zh" [] l = "English" -> "en" [] OTHER -> None]
MCShapes == [user |-> {<<"text">>, <<"text", "user", "text">>},
             assistant |-> {<<"a user", "text">>, <<"think", "text", "rule">>}]
MCEdits == {<<"blank", "text", "usage">>, <<"text", "assistant", "text">>}
Node(parent, role, hidden, time) ==
    [parent |-> parent, role |-> role, hidden |-> hidden, time |-> time,
     text |-> <<[is |-> "text", of |-> 60 + time]>>]
\* Four messages of a ChatGPT conversation, where a parent may be wrong.
MCConversations ==
    {[current |-> current,
      nodes |-> <<Node(root, None, FALSE, 0), Node(1, "user", FALSE, 2),
                  Node(parent, "assistant", hidden, 3), Node(2, "assistant", FALSE, 1)>>] :
        root \in {0, 3}, parent \in {2, 3}, hidden \in BOOLEAN, current \in {0, 4}}
Setup(profile, length, system, limit, context) ==
    [profile |-> profile, length |-> length, system |-> system, rounds |-> limit,
     context |-> context]
Around(memory, rag, sources) ==
    [memory |-> memory, rag |-> rag, webpage |-> 0, search |-> rag, sources |-> sources]
\* With nothing around the question, with segments that are cut, with a small profile.
MCSetups == {Setup(0, 4096, 50, 0, Around(0, 0, 0)),
             Setup(0, 1600, 40, 1, Around(900, 900, 20)),
             Setup(800, 0, 0, 0, Around(30, 0, 0))}
=============================================================================
