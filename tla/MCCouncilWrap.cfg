CONSTANTS
  a1 = a1
  a2 = a2
  a3 = a3
  Accounts = {a1, a2}
  Empty = Empty
  None = None
  CandidacyBond = 2
  VotingBond = 1
  PresentSlashPerVoter = 1
  CarryCount = 1
  VotingPeriod = 2
  InitialBalance <- MCRichBalance
  Locked = {}
  InitialSeats = 2
  InitialPresentation = 2
  InitialTerm = 2
  SeatChoices = {1, 2}
  PresentationChoices = {2}
  TermChoices = {2}
  MaxBlock = 8
  MaxExtrinsics = 2
  MaxCandidates = 2
SPECIFICATION Spec
SYMMETRY MCSymmetry
INVARIANTS
  EndBlockNeverPanics
