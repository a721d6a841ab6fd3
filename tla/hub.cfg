SPECIFICATION MCSpec
CONSTANTS
  k1 = k1 c1 = c1 c2 = c2 t1 = t1 t2 = t2
  Calls = {k1}
  Conns = {c1, c2}
  WsTokens = {t1, t2}
  ForeignTokens = {t2}
  SendBufferMax = 1
  MaxPings = 1
  MaxFaults = 1
  NoWsToken = NoWsToken
  Voice = {1, 2}
  Texts = {3}
  Replies <- SomeReplies
  MaxToken = 3
  ChunkChars = 2
  MaxTroubles = 1
  warm = warm turn1 = turn1 turn2 = turn2 save = save
  bedrock = bedrock supermemory = supermemory redis = redis
  Plain = {supermemory}
  Entered = {bedrock}
  Pooled = {redis}
  Skilled = {bedrock}
  Tasks = {warm, turn1, turn2, save}
  Warmers = {warm}
  Uses <- CalledBy
  None = None
  MaxMishaps = 1
INVARIANTS
  ViewersAreCurrent
  TokenOpensOne
  ReplyIsDelivered
  OneClient
  FailsAlone
PROPERTIES
  LeaversAreClosed
  EveryTurnCloses
  NobodyIsLeftWaiting
CHECK_DEADLOCK FALSE
