CONSTANTS
  a1 = a1
  a2 = a2
  a3 = a3
  Accounts = {a1, a2}
  Empty = Empty
  None = None
  CandidacyBond = 2
  VotingBond = 1
  PresentSlashPerVoter = 1
  CarryCount = 1
  VotingPeriod = 2
  InitialBalance <- MCInitialBalance
  Locked = {}
  InitialSeats = 2
  InitialPresentation = 1
  InitialTerm = 3
  SeatChoices = {2}
  PresentationChoices = {1}
  TermChoices = {3}
  MaxBlock = 8
  MaxExtrinsics = 2
  MaxCandidates = 2
SPECIFICATION Spec
SYMMETRY MCSymmetry
PROPERTIES
  FinaliseDropsOnlyExpired
