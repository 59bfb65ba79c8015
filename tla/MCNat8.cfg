SPECIFICATION MCSpec
CONSTANTS
  s1 = s1  s2 = s2  s3 = s3  s4 = s4  a1 = a1
  h1 = h1  h2 = h2  h3 = h3  p1 = p1  p2 = p2  e1 = e1
  Sessions <- MCSessions
  Addrs <- MCAddrs
  PortMin = 2
  PortMax = 4
  IdleTimeout = 1
  NoAddr = NoAddr
  NoSession = NoSession
  NoPort = NoPort
  NoMapping = NoMapping
  Hosts <- MCHosts
  Externals <- MCExternals
  StaticPairs <- MCStaticPairs
  PoolCandidates <- MCPoolCandidates
  MaxPool = 2
  PoolIdleTimeout = 1
  NoHost = NoHost
  NoExternal = NoExternal
  Unmapped = Unmapped
  Insiders <- MCInsiders
  OperatorAsns = {0, 1}
  ZeroPrefix = 0
  PoolSize = 2
  FirstPort = 3
  LastPort = 5
  NoInsider = NoInsider
  MaxBindings = 7
  d1 = d1  d2 = d2
  FlowKeys <- MCFlowKeys
  DnsNames = {n1}
  Servers = {v1, v2}
  OutPorts = {1, 2}
  Blocked = Blocked
  Companies = {A, B}
  Internals = {i1, i2}
  Meeting = {x1, x2}
  Unexposed = Unexposed
  Service <- MCService
  Records <- MCRecords
  Remote <- MCRemote
  DefaultAsn = 0
  Strategies = {"round_robin", "even_only", "odd_only"}
  NoAddress = NoAddress
  MaxSelected = 3
  MaxLogged = 4
  MaxExposed = 3
INVARIANTS
  PatBijection
  DroppedOnlyWhenFull
  OneToOne
  ReachedForOneRound
  NamesLeadHome
PROPERTIES
  RepliesStay
  PortsGoRound
  PatRefinesBinding
  IdlePortReclaimed
