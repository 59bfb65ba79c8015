SPECIFICATION MCSpec
CONSTANTS
  z1 = z1  z2 = z2  k = k  s1 = s1  s2 = s2  dev1 = dev1  dev2 = dev2  gateway = gateway
  Zones = {z1, z2}
  ClientIds = {dev1, dev2}
  Network <- MCNetwork
  PoolStart = 10
  PoolEnd = 11
  LeaseDuration = 1
  NoLease = NoLease
  KeyIds = {k}
  Secrets = {s1, s2}
  NoKey = NoKey
  Subjects = {dev1, dev2}
  TokenDuration = 1
  Ends = {dev1, gateway}
  Anyone = Anyone
  Gateway = gateway
  MaxRules = 3
  MaxRoutes = 3
  MaxTime = 1
  KeyOf <- MCKeyOf
  SecretOf <- MCSecretOf
  NoRoute = NoRoute
  VpcIds = {v1, v2, v3}
  InteropZone = 3
  MaxOctet = 6
  MaxZone = 8
  NoVpc = NoVpc
  VrfNames = {management, oob, default}
  Mandatory = {management, oob}
  DefaultVrf = default
  VrfRoutes <- MCVrfRoutes
  NoVrf = NoVrf
  MaxVrfs = 5
  MaxVrfRoutes = 1
  BridgeIds = {1, 2, 3, 4}
  PrimaryId = 2
  SecondaryId = 3
  Priorities = {0, 4096, 32768}
  Vlans = {1, 2}
  NoBridge = NoBridge
INVARIANTS
  OneHolder
  RoutedToOwner
  FabricApart
PROPERTIES
  DecisionsStay
  ShutOutOnlyNow
