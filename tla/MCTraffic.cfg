SPECIFICATION MCSpec
CONSTANTS
  ClassOrder <- MCClassOrder
  Policies = {"PRIORITY", "WFQ", "FIFO"}
  Dscps = {48, 1}
  Sizes = {1, 2}
  Options <- MCOptions
  DefaultLimit = 4
  NoBucket = NoBucket
  MaxTime = 2
  MaxOffered = 6
  MaxPoliced = 4
  MaxConfigured = 1
  Unreadable = Unreadable
  MessageOctets = 70000
  Keys = {k, l}
  ProtocolOf <- MCProtocolOf
  Octets = {1, 2}
  ActiveTimeout = 2
  IdleTimeout = 1
  NoFlow = NoFlow
  MaxNow = 4
  MaxObserved = 4
  LogSources = {s}
  Collectors = {c}
  LogKinds <- MCLogKinds
  AlertRules <- MCAlertRules
  Finest = 6
  ClientRoom = 1
  CollectorRoom = 2
  MaxLogged = 2
  MaxHandled = 2
  MaxRules = 1
  MaxRelayed = 2
  LimitedClasses = {a}
  PerSecond <- MCPerSecond
  PerMinute <- MCPerMinute
  Ticks = 2
  Seconds = 2
  MaxTick = 7
  LogRate = 1
  LogBurst = 2
  LastMoment = 3
INVARIANTS
  WithinEnvelope
  FairWhileWaiting
  ObserversAccount
  WindowsHold
  LogEnvelope
