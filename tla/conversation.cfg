\* One part of a conversation: tools, turns, compression, file, group or comparison.
SPECIFICATION ConversationSpec
CONSTANTS
  None = None
  Absent = None
  NoQuestion = None
  Batches <- MCBatches
  MaxToolRounds = 2
  MaxPosts = 1
  MaxRequests = 3
  MinMessages = 1
  MaxBusy = 2
  MaxLog = 2
  Tasks = {t1, t2}
  MaxOps = 3
  MaxMessages = 2
  Histories <- MCHistories
  SummarySizes = {1, 2}
  Budget = 2
  Target = 2
  Overlap = 1
  ReduceTarget = 2
  ReduceOverlap = 1
  MaxLevels = 3
  CriticalFacts = {f, g, h}
  MinKept = 3
  RepairLimit = 2
  Groups <- MCGroups
  Policies <- MCPolicies
  AllowParallel = {TRUE, FALSE}
  AllowFinish = {TRUE, FALSE}
  ModelIds <- MCModels
  MaxChunks = 1
  Assistants = {a}
  Contents = {"n", "f", "g"}
  Marked <- MCMarked
  Score <- MCScore
  Threshold = 1
  TopK = 1
  MaxInjected = 1
  MaxInstructions = 2
  MaxItems = 2
  Settings <- MCSettings
  MaxMemories = 2
  Registered = {"web", "python"}
  Knowledge = {"search"}
  Documents = {"doc"}
  Python = "python"
  Defaults = {"web", "python", "search"}
  GroupOf <- MCGroupOf
  CapabilityGroup <- MCCapabilities
  Handlers = {"websearch"}
  Bases = {"k", "l"}
  Messages = {"m"}
  TurnPolicies <- MCTurnPolicies
  Gates <- MCGates
  MaxChanges = 1
  MaxTurnCalls = 2
  Refs <- MCRefs
  Allowed = {"k"}
  Queries = {"p", "q"}
  Windows = {0, 1}
  HitLimit = 2
  MaxRefs = 2
  MaxChars = 2
  MaxLookups = 3
  QueryTexts = {"q", "r", "s"}
  TextFacts <- MCTextFacts
  PlanSettings <- MCPlanSettings
  BaseOrder <- MCBaseOrder
  ModelOf <- MCModelOf
  ChunkPool <- MCChunkPool
  MaxAnswer = 2
  MaxExtra = 2
  WebSettings <- MCWebSettings
  Rankings <- MCRankings
  Addressed <- MCAddressed
  Wiki = {"w"}
  Local = {"l"}
  PageContents <- MCPageContents
  MaxPage = 3
  TavilyPages = 2
  Short = 2
  Cap = 3
  MaxWebCalls = 2
  Fragments <- MCFragments
  MaxText = 6
  MaxActs = 2
  MaxReasoning = 1
  Users = {"u", "v"}
  TranslationConfigs <- MCTranslationConfigs
  Wanted <- MCWanted
  Detected = {None, "zh"}
  Code <- MCCode
  Compressors = {"g"}
  MaxFragments = 5
  Shapes <- MCShapes
  Edits <- MCEdits
  Conversations <- MCConversations
  MaxRewrites = 3
  Names = {image}
  Setups <- MCSetups
  Sizes = {300}
  MaxUploads = 2
  MaxAsks = 2
  MaxTouches = 1
INVARIANTS
  RoundsBounded
  ResultsReachTheirCall
  LogInOrder
  LockedUpdatesHold
  TextsComplete
  EveryoneHeard
  MemoryRight
  ToolsHonest
  KnowledgeHonest
PROPERTIES
  WorkEnds
CHECK_DEADLOCK FALSE
