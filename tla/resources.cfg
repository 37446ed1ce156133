\* One part: documents of a knowledge base, a retrieval, patches, a page or a workflow.
SPECIFICATION ResourcesSpec
CONSTANTS
  None = None
  Nil = Nil
  Void = Void
  Docs = {d1}
  MaxJobs = 2
  Batches = 2
  CompactAt = 2
  MaxCrashes = 1
  Searches <- MCSearches
  Payloads <- MCPayloads
  StoredChunks <- MCStored
  Repeating <- MCRepeating
  TopK = 2
  RrfK = 1
  FusionTopK = 6
  RerankWeight = 70
  Window = 1
  MaxTotal = 3
  Configs <- MCConfigs
  Lines = {"a", "b"}
  MaxLines = 3
  MaxPatches = 1
  TTL = 1
  Sessions = {s1, s2}
  MaxMessages = 8
  MaxActs = 2
  Providers = {p, q}
  Builtin = {p}
  ModelIds = {m}
  MaxSaves = 2
  Entries = {e1, e2, e3}
  Tasks = {t1, t2}
  MaxOps = 3
  Unset = Unset
  Dir = Dir
  Paths <- MCPaths
  OpenFiles <- MCOpened
  FileTexts <- MCTexts
  Roots = {1}
  Hits <- MCHits
  ScanLimit = 2
  MaxResults = 2
  MaxUserActs = 3
  MaxOthers = 1
  Absent = Absent
  Workers = {w1}
  Assistants = {a}
  Default = a
  Folders = {f}
  Histories <- MCHistories
  Imports <- MCImports
  TitleTexts = {"dots", "plain"}
  MaxSessions = 2
  MaxCalls = 3
  Directories <- MCDirectories
  BuiltinId = "b"
  BuiltinTools = {"t"}
  RequestScoped = {"r"}
  Adapters = {"o"}
  Strict = {"k"}
  Formats = {"md"}
  NoValue = NoValue
  Numbers = {11, 12}
  Builtins = {"i"}
  Own = {"o"}
  WorkflowFiles <- MCWorkflowFiles
  MaxVersion = 2
  MaxStops = 1
  Keyless = {q}
  Profiles <- MCProfiles
  DefaultProfile <- MCDefaultProfile
  Migrations <- MCMigrations
  Urls = {"u1"}
  Keys = {"k"}
  Bodies <- MCBodies
  ProbeAnswers = {"fast", "slow", "empty"}
  Hint = "cn"
  MaxRequests = 3
  MaxMade = 3
  MaxUnderWay = 2
INVARIANTS
  DocumentsWhole
  PlacesFilled
  ProjectToolsHonest
  Agree
  WorkflowsSound
  DefaultUsable
  ListsWhole
  SavesAreInformed
  SessionsKept
  ProvidersAgree
  DefinitionsKept
CHECK_DEADLOCK FALSE
