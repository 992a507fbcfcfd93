CONSTANTS
  NULL = NULL
  Services = {"channel", "engine", "ai", "keys", "notices", "monitors", "candles", "adapters"}
  KeyCount = 3
  KeyWorlds <- OneGoodKeyOrNone
  Askers = {1, 2}
  Models = 2
  MaxClock = 1
  MaxAsks = 2
  MaxEdits = 1
  Window = 2
  FetchLimit = 2
  LastBar = 6
  Callers = {1, 2}
  MaxCalls = 3
  MaxRotations = 2
  MaxSwitches = 1
  Feeds <- FourFeeds
  Devices = {1, 2}
  Replies <- OneIsGone
  Batch = 2
  MaxDays = 1
  Watched <- ThreeMonitors
  Misses = 2
  MaxMoves = 3
  Outlooks <- FiveOutlooks
  Stories <- SixStories
  Scripts <- ThreeScripts
  MaxTrades = 3
  Cooldown = 1
  Quiet = 1
  MaxRows = 2
  MaxFaults = 1
  MaxCrashes = 1
SPECIFICATION SpecServices
INVARIANTS Typed EngineSafe CycleSafe GoodKeyServes NoticedOnce EdgesAreTold FeedIsWhole AdapterIsCurrent
CHECK_DEADLOCK FALSE
