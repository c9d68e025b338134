SPECIFICATION MCWithoutDiscord
CONSTANTS
  showAll = showAll
  hideMenus = hideMenus
  jett = jett
  sova = sova
  NoState = NoState
  NoCard = NoCard
  NoAgent = NoAgent
  State <- MCState
  Config = {showAll}
  Card <- MCCard
  Details <- MCDetails
  Render <- MCRender
  Hidden <- MCHidden
  DetailsOf <- MCDetailsOf
  EmptyDetails = ""
  BurstCount = 0
  MaxFired = 0
  Agent = {jett, sova}
  Screen = {"client"}
  Variant = {0}
  FirstVariant = 0
  AgentOf <- MCAgentOf
  MaxEntry = 3
  updateBuffer = 4
INVARIANTS
  AgentOfThisMatch
