\* The serving side of a collector: cluster, queries, live tail, process.
SPECIFICATION MCSpec
CONSTANTS
  Nodes = {1, 2, 3}
  VNodes = 2
  Space = 8
  TokenHash <- MCTokenHash
  MaxRestarts = 3
  Self = 1
  Rows <- MCRows
  Requests <- MCRequests
  MaxText = 4
  Texts = {0, 1, 2, 3}
  Messages = {1, 2, 3}
  Levels = {1, 2, 3}
  Grains = {2, 6}
  Horizon = 30
  Clients = {1}
  Buffer = 1
  MaxRecords = 3
  Queries <- TailQueries
  LabelSets <- TailLabels
  Token <- TailToken
INVARIANT RoutesAgree
INVARIANT AnswersExact
 
 
 
INVARIANT TailAccountsForAll
INVARIANT ClosedMeansEnded
INVARIANT NothingLeaks
PROPERTY MovesAreMinimal
PROPERTY RingMeasures
 
CHECK_DEADLOCK FALSE
