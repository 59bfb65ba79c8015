SPECIFICATION MCSpec
CONSTANTS
  Hosts8 = {x1, x2}  Macs = {mac1, mac2}  MacTtl = 2  NoMac = NoMac  MaxMacTime = 4
  NoRoute = NoRoute
  Names <- MCNames
  AddressOf <- MCAddressOf
  Configs <- MCConfigs
  Ttl = 3
  Senders = {"h1", "r2"}
  Destinations <- MCDestinations
  NewNodes = {"r1", "ghost"}
  NewLinks <- MCNewLinks
  NewRoutes <- MCNewRoutes
  NoPacket = NoPacket
  MaxSent = 2
  MaxChanges = 1
  MaxUdpSent = 2
  MaxCopies = 1
  MaxStops = 1
  RouterOrder <- MCRouterOrder
  RouterAddress <- MCRouterAddress
  RouteChoices <- MCRouteChoices
  Nowhere <- MCNowhere
  StartTtls = {1, 2}
  MaxHops = 4
  NoRouter = NoRouter
  Interfaces = {i, j}
  Neighbours = {n}
  EntryTtl = 2
  AnswerAfter <- MCAnswerAfter
  NoEntry8 = NoEntry8
  MaxArpTime = 3
  TwoAsnCalls <- MCTwoAsnCalls
  StarCalls <- MCStarCalls
  MeshCalls <- MCMeshCalls
  NewTestNodes <- MCNewTestNodes
  NewTestLinks <- MCNewTestLinks
  NoGateway = NoGateway
  MaxTestLinks = 7
  FlowRecords <- MCFlowRecords
  MaxField = 2  MaxCount = 2  MaxWritten = 3
  NoNf8 = NoNf8  NoResult = NoResult
  long = long  short = short  df = df  k1 = k1  k2 = k2
  Packets <- MCPackets
  Length <- OversizeLength
  Key <- MCKey
  DontFragment <- MCDontFragment
  Rooms <- MCRooms
  Unit = 2
  OffsetMod = 3
  MaxFragments = 3
  Timeout = 1
  Lifetime = 1
  ReuseAfter = 3
  NoBuffer = NoBuffer
  NoTotal = NoTotal
  Here <- HereAddress
  There <- ThereAddress
  Echoes <- MCEchoes
  Excerpts <- MCExcerpts
  MaxAsked = 1
  MaxHarmed = 1
  Captured <- MCCaptured
  NsPerUsec = 2  NsPerSec = 4
  NoFile = NoFile  NotStarted = NotStarted
  MaxNs = 5
INVARIANTS
  OffsetTellsPlace
CHECK_DEADLOCK FALSE
