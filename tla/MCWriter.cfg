SPECIFICATION MCSpec
CONSTANTS
  menus = menus
  match = match
  lateMatch = lateMatch
  showAll = showAll
  hideMenus = hideMenus
  menusCard = menusCard
  matchCard = matchCard
  lateCard = lateCard
  inMenus = inMenus
  inMatch = inMatch
  empty = empty
  NoState = NoState
  NoCard = NoCard
  State <- MCState
  Config <- MCConfig
  Card <- MCCard
  Details <- MCDetails
  Render <- MCRender
  Hidden <- MCHidden
  DetailsOf <- MCDetailsOf
  EmptyDetails = empty
  BurstCount = 2
  MaxFired = 1
  Input <- MCInput
  Settings <- MCSettings
  Catalogues <- MCCatalogues
  MaxPipes = 3
  AppID = {1, 2}
INVARIANTS
  TypeOK
  BurstCadence
  DefendsWhatItSent
  NothingHiddenShows
  LinesAreClean
  PreviewIsReal
PROPERTIES
  HeartbeatNeverRepeats
  CardIsDefended
  PresenceSpec
  OpenPipesAreClosed
  ConnectsForGood
