SPECIFICATION Spec
CONSTANTS
  Posts = {r1, r2}
  Absent = Absent
  Payloads <- MCPayloads
  MaxRestarts = 1
  Runs = {p1, p2}
  MaxSessions = 2
  Handlers = {h1}
  None = None
  MaxConns = 2
  MaxEvents = 3
  BufferSize = 2
  ChannelSize = 1
  MaxActivity = 4
  ToolNumbers = {1, 2}
  MaxPages = 2
  PageLimit = 2
  Nobody = Nobody
  Tasks <- MCTasks
  MaxSteps = 3
  BrowserCalls = {b1, b2}
  MaxChromes = 2
  NoCall = NoCall
  Memories = {m1, m2}
  Writers = {w1, w2}
  MaxCrashes = 1
  Edits = {e1}
  IndexKeys = {k1, k2}
  IndexCalls = {c1}
  Plans = {q1}
  Size = 3
  Needs <- MCNeeds
SYMMETRY Swap
INVARIANTS TypeOK EnvKeyStaysOut AcceptedSettingsSurvive
INVARIANTS CrashedWorkIsResumable NothingMissed NoCrossedReplies
INVARIANTS DoneIsEvidenced TesterAgreesWithExecutor
INVARIANTS OneChrome SavedMemoriesSurvive IndexCoversWrites StartsAfterItsDependencies
PROPERTIES RepliesOnce
CHECK_DEADLOCK FALSE
