SPECIFICATION Spec
CONSTANTS
  Client = {c1, c2}
  Token <- Tokens
  SigningKey = {k1}
  ApiKey = {x1}
  JwksTTL = 2
  MaxFetch = 1
  AccessTime = 3
  Asker = {q1, q2}
  Admin = {a1, a2}
  DefaultHistoryTurns = 2
  Operator = {o1, o2, o3}
  Record <- Records
  Caller = "mine"
  LinkageKey = {"u"}
  From = {2}
  Until = {1}
  Responder = {h1, h2}
  MaxSession = 2
  MaxVersion = 1
  MaxEntry = 1
  RoomTime = 3
  Endpoint = {e1, e2}
  Event = {v1}
  maxAttempts = 2
  ClientTimeout = 1
  Deadline = 3
  MaxRedirects = 1
INVARIANTS
  AccessCurrent CopilotGoverned OwnQuestionOnce ExtraCopyNeedsRace ReplayedWasPublished
  ErasureExact RoomConsistent DeliveryOwed
PROPERTIES
  SettledIsFinal EveryRequestAnswered DispatchEnds
CHECK_DEADLOCK FALSE
