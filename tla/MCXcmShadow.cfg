CONSTANTS
  self = self
  sibling = sibling
  acala = acala
  f1 = f1
  f2 = f2
  alice = alice
  bob = bob
  SelfPara = self
  OtherParas = {sibling, acala}
  ForeignIds = {f1, f2}
  RegistryLocations <- MCShadowLocations
  Authors = {alice}
  Treasury = bob
  NoAuthor = NoAuthor
  MaxRevenue = 2
  Origins <- MCOrigins
  MessageLocations <- MCMessageLocations
  Beneficiary = alice
  Acala = acala
  Genesis <- MCGenesis
  MaxMessages = 2
SPECIFICATION InboundSpec
INVARIANTS
  FeesCreditedAsCharged
