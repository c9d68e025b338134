SPECIFICATION LoopSafety
CONSTANTS
  showAll = showAll
  hideMenus = hideMenus
  jett = jett
  sova = sova
  NoState = NoState
  NoCard = NoCard
  NoAgent = NoAgent
  State <- MCState
  Config = {showAll}
  Card <- MCCard
  Details <- MCDetails
  Render <- MCRender
  Hidden <- MCHidden
  DetailsOf <- MCDetailsOf
  EmptyDetails = ""
  BurstCount = 0
  MaxFired = 1
  Agent = {jett}
  Screen = {"client", "lobby"}
  Variant = {0}
  FirstVariant = 0
  AgentOf <- MCAgentOf
  MaxEntry = 1
  updateBuffer = 1
INVARIANTS
  LoopTypeOK
  NothingArmedWhileCleared
PROPERTIES
  OnlyALateTimerUndoesAClear
