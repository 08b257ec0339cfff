CONSTANTS
  Types = {0, 16, 32, 48}
  Statuses = {1, 2, 3, 200, 205, 406, 415, 505}
  Ids = {1, 255, 65280}
  Tokens <- MCTokens
  Settings <- MCSettings
  Payloads <- MCPayloads
  Capacity = 255
  MaxSets = 3
  Length = 5
  Requests = {"request"}
  Replies = {"reply"}
  Retries = 4
  MaxFd = 2
  MaxSends = 3
  MaxArrive = 3
CHECK_DEADLOCK FALSE
SPECIFICATION MCSpec
INVARIANT PeerReadsSettings
INVARIANT AckAnswersRequest
INVARIANT UsesOpenSocket
PROPERTY SendsOnce
PROPERTY EveryDatagramTaken
