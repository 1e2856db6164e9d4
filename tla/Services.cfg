CONSTANTS
  MaxKeys = 4
  MaxCuts = 2
  MaxEvents = 3
  MaxBuffer = 2
  MaxStored = 2
  Invalid = {2}
  MaxBoots = 1
  MaxWire = 1
  Requests = {r1, bye}
  Bye = bye
  MaxSessions = 2
  MaxLapses = 1
  OtpCalls = {p, q, r, s}
  MaxCodes = 2
  Fans = {u, v}
  Emojis = {like, love}
  ReactTaps = {p, q}
  Files = {f}
  PostIds = {p}
  Reminded = {t}
  Admins = {}
  Window = 2
  MaxHours = 3
  Letters = {m}
  Looks = {j}
  Accounts = {u, v}
  MaxEndpoints = 2
  MaxRows = 1
  Pushes = {p}
  Terms = {"empty", "x"}
  MaxPage = 2
  MaxListLoads = 2
  MaxListActs = 2
  Trainees = {t, v}
  Registered = {t}
  Toggles = {p, q}
  MaxTraineeLoads = 1
  MaxTraineeActs = 1
  People = {u, v}
  Names = {"a", "b"}
  Pictures = {p, q}
  MaxTaps = 3
  Unset = unset
  LogFiles = {f, g}
  MaxLines = 3
  MaxQueue = 2
  MaxToggles = 2
  MaxMounts = 2
  NoLogFile = nofile
  Builds = {a, b}
  Firsts = {b}
  MaxDeploys = 2
  MaxChecks = 2
  MaxOutages = 1
  NoBuild = nobuild
  Offline = offline
  Tabs = {t, s}
  AdminUsers = {a}
  TraineeUsers = {u}
  MaxMoves = 4
  NoUser = nouser
  MaxPosts = 3
  Limit = 1
  MaxFeedMoves = 3
  Bubbles = {b}
  MaxStreams = 2
  MaxPrompts = 2
  MaxSent = 1
  NoBubble = nobubble
  StoredAtOpen = 4
  Arriving = 2
  PageSize = 2
  MaxChanges = 2
  MaxFailures = 1
  Zoomed = 2
  MaxTouches = 3
  MaxSwaps = 1
  MaxSigned = 3
  MaxOthers = 1
  Objects = {p, q}
  NoPicture = nopicture
  Direct = direct
SPECIFICATION ServicesSpec
INVARIANTS
  ServicesTypeOK  KeptUntilLogged AccessIsOfTheUser
  CodeOpensOneSession FilesFollowThePost OneReminderADay ShownToItsOwner
  ShownIsSo
PROPERTIES IndicatorGoesOut RequestsSettle TabComesToRest PlaceIsKept
CHECK_DEADLOCK FALSE
