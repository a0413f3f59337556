SPECIFICATION Spec
CONSTANTS
  Cases <- MCCases
  ItemOrder <- MCItemOrder
  Power = "power"
  None = None
  ExpansionCap = 60
INVARIANTS
  PicksSound
  MaterialBalance
  SiteIsFed
  ProposalBinds
CHECK_DEADLOCK FALSE
