SPECIFICATION MCSpec
CONSTANTS
  MaxConn = 3
  MaxPresence = 3
  MaxClients = 2
  attempts = 2
  Entries <- MCEntries
  MaxEntries = 2
INVARIANTS
  TypeOK
  FlagTellsTruth
  UpIsSubscribed
  QuietShowsPublished
  BadEntriesHideNothing
  StateIsLastPresence
  ShapeIsTheSame
  NoCallMissesIt
PROPERTIES
  ClientIsFound
