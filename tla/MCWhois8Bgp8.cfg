SPECIFICATION MCSpec
CONSTANTS
  near = near  far = far  b = b
  Asns = {a, b, r}
  ReservedAsns = {r}
  Expiries = {0, 3}
  RouteLengths = {16, 24}
  CacheTtl = 1
  NoRecord = NoRecord  NoEntry = NoEntry
  MaxRegistrations = 2
  MaxClock = 4
  RibPrefixes = {near, far}
  LocalAsn = 9
  Adverts <- MCAdverts
  HopCosts <- MCHopCosts
  IntrazoneValues <- MCIntrazoneValues
  MaxCf = 7
  MaxArrivals = 3
  AsPrefixes <- MCAsPrefixes
  Unlisted = Unlisted  NoRoute = NoRoute  NoLease = NoLease  NoRun = NoRun  NoPacket = NoPacket
  ClientIds = {c1, c2}
  Own <- OwnPrefix
  Net <- MCNet
  PoolStart = 1  PoolEnd = 2
  LeaseDuration = 1
  MaxMoment = 1
  Sources <- MCSources
  Destinations <- MCDestinations
  Lengths = {16, 17}
  PeerAsn <- OwnPrefix
  MaxNoted = 1
  ServerAsns = {a, b, r}  ServerReserved = {r}
  Holders = {h1, h2}
  SigningSecrets = {k1, k2}  NoSecret = NoSecret
  PrefixLengths = {16, 24}
  Unsigned = Unsigned  Unregistered = Unregistered  NoRouteRecord = NoRouteRecord
  MaxSigned = 1
  PathIds = {p1, p2, p3}
  Measured <- MCMeasured
  Whole = 2
  BoardIntrazones <- MCBoardIntrazones
  NoPath = NoPath
INVARIANTS
  AnswersNoOlderThanTtl
  CostsNeutral
  RunTellsDestination
  OneJudgement
  VouchedWasSigned
PROPERTIES
  NoGoingBack
  OnlyWithdrawalWorsens
