CONSTANTS
  alice = alice
  bob = bob
  charlie = charlie
  dave = dave
  eve = eve
  ferdie = ferdie
  one = one
  Accounts <- MCAccounts
  Empty = Empty
  None = None
  CandidacyBond = 9
  VotingBond = 3
  PresentSlashPerVoter = 1
  CarryCount = 2
  VotingPeriod = 4
  InitialBalance <- TestBalance
  Locked = {}
  InitialSeats = 2
  InitialPresentation = 2
  InitialTerm = 5
  SeatChoices = {2}
  PresentationChoices = {2}
  TermChoices = {5}
  MaxBlock = 8
  MaxExtrinsics = 20
  MaxCandidates = 5
INIT TestInit
NEXT TestNext
INVARIANTS
  TestsPass
  ScriptsRun
