CONSTANTS
  Limiters = {swarm}
  Senders = {alice, bob}
  Window = 2
  Limit = 2
  MaxTime = 5
  Providers = {"ollama", "openrouter", "gemini", "chatgpt"}
  MemoryLimit = 4
  ContextLength = 1
  Limits = {0, 4}
  MaxRows = 3
  MaxCalls = 3
  MaxUnderWay = 2
  ip = ip
  ub = ub
  echo = echo
  urban = urban
  Scripts = {echo, urban}
  Triggered = {echo}
  Registers <- MCRegisters
  MaxRuns = 3
  MaxAtOnce = 2
  MaxUnloads = 2
  MaxBegun = 6
  Characters <- MCCharacters
  Nicks <- MCNicks
  Excluded <- MCExcluded
  Texts <- MCTexts
  Remembered <- MCRemembered
  Separators = {" ", "[", "]"}
  Digits <- MCDigits
  MaxHistory = 2
  MaxPieces = 2
SPECIFICATION HandlersSpec
CHECK_DEADLOCK FALSE
INVARIANTS HandlersTypeOK
INVARIANTS TypeOK WindowBound KeepsWindow
INVARIANTS AnswersFollowQuestions MemoryBounded FewRowsReachModel
INVARIANTS  UnloadedIsGone CallsItsScript PseudonymsHold
