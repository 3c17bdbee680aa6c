\* Every part on a small instance; those of the parts that the theorems are not
\* about are in MCServices.
SPECIFICATION MCSpec
CONSTANTS
  NoEvent = NoEvent
  Writers = {"manager", "voice", "agent"}
  Kind <- SaveKind
  Tmp <- SaveName
  Config = "config.json"
  Blocks <- SaveBlocks
  MaxBlocks = 2
  IoErrors = TRUE
  MaxSaves <- SaveBounds
  MaxCrashes = 1
  MaxWorkers = 2
  Clients = {"a", "b"}
  Jobs <- Asked
  MaxFiles = 1
  Lights <- LightsRead
  Configs = {"typo", "right", "away"}
  Ssid <- Networks
  Known = {"right", "away"}
  Quoted = {"away"}
  BackoffMax = 3
  TimeRetry = 1
  TimeResync = 2
  MaxWifiSaves = 1
  MaxDrops = 1
  Conns = {1, 2}
  Nodes = {"watch", "lamp"}
  NodeIds <- IdsSaid
  MaxNodes = 1
  NodeCallers = {1, 2}
  NodeSlots = {1}
  MaxCalls = 2
  Chats = {"a", "b"}
  MaxMsgs = 2
  Every = 2
  MaxSesLines = 6
  MaxClears = 1
  MaxFileCrashes = 1
  MaxFileFaults = 1
  SetKeys = {"k", "m"}
  MaxSets = 2
  Pids = {1, 2}
  TakeNumbers = {1, 2, 3}
  Samples = 2
  MaxRecords = 3
  MaxKwsCuts = 2
  SpeechFrames = 2
  SilenceFrames = 2
  PostFrames = 2
  ClipRoom = 4
  MaxWakeups = 2
  AsrUsers = {1}
  AsrTexts <- TextsSaid
  MaxResponses = 3
  MaxAsrAhead = 2
  MaxSessions = 2
  Pieces = 3
  MaxTimeouts = 3
  MaxTtsAhead = 2
  MaxOthers = 1
  MaxStalls = 4
  Message <- Mail
  InboxRing = 3
  RateSlots = 2
  RateMax = 2
  RateWindow = 3
  StaleAfter = 1
  ContentWindow = 2
  MaxInboxNow = 3
  MaxEvents = 2
  PollRing = 3
  PollLimit = 2
  MaxMessages = 3
  MaxLogins = 2
  MaxPolls = 2
  LlmSlots = {1, 2}
  Services = {"a", "b"}
  Tiers = {0, 2}
  Recovery = 3
  Debounce = 1
  MaxBackoff = 2
  MaxFails = 3
  MaxLlmCommands = 2
  McpNames = {"a", "b"}
  Urls = {"x", "y"}
  Offers <- Tools
  MaxServers = 2
  MaxTools = 3
  MaxMcpCommands = 5
  TlsThreads = {11, 12}
  Hosts = {"a", "b"}
  TlsSlots = {1, 2}
  Raws = {1, 2}
  MaxRequests = 3
  Intervals = {1, 2}
  Default = 1
  Points = 2
  CurveWindow = 1
  Rebase = 3
  DemoStep = 3
  MaxCurveNow = 4
  MaxCurveLines = 1
  Table <- Rows
  Managed = {"desk"}
  Shipped = {}
  Retired = {"notes"}
  Pushed = {"desk", "notes"}
  SkillSyncs = {1}
  MaxClientCommands = 3
  MaxSilence = 2
  MaxLost = 1
  Recorders = {"c1", "c2"}
  Speakers = {}
  MaxRecordings = 2
  MaxChunks = 1
  ChatSlots = 2
  MaxChatSent = 3
  MaxInits = 2
  MaxMqttStarts = 1
  MaxSockets = 3
  MaxMails = 2
  SkillRoom = 2
  MaxVersion = 2
  MaxSkillCuts = 1
  MaxSkillShorts = 1
  NetworksGiven <- NetworksSaid
  MayFail = {"ws", "mqtt"}
  MaxMainCommands = 2
  MaxRestarts = 1
\* Most parts come to the end of their bounds.
CHECK_DEADLOCK FALSE
VIEW MCView
INVARIANTS
  TypesHold
  WholeUnlessCrossed
  SavedIsKept
  OwnAddressee
  WholeOnly
  HandledOnce
  CurveIsEven
  LightIsRight
PROPERTIES
  SavesReport
  
  ResourcesAreHeld
  WordsMeanIt
  WaitsAsPublished
