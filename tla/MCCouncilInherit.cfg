CONSTANTS
  a1 = a1
  a2 = a2
  a3 = a3
  Accounts = {a1, a2}
  Empty = Empty
  None = None
  CandidacyBond = 2
  VotingBond = 1
  PresentSlashPerVoter = 1
  CarryCount = 1
  VotingPeriod = 2
  InitialBalance <- MCInitialBalance
  Locked = {}
  InitialSeats = 1
  InitialPresentation = 1
  InitialTerm = 1
  SeatChoices = {1}
  PresentationChoices = {1}
  TermChoices = {1}
  MaxBlock = 4
  MaxExtrinsics = 2
  MaxCandidates = 2
SPECIFICATION Spec
SYMMETRY MCSymmetry
PROPERTIES
  NoInheritedApproval
