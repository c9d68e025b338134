SPECIFICATION Spec
INVARIANTS
  NothingLeftOpen
PROPERTIES
  ConnectionsSpec
  GoneWithItsProcess
  NeverGivesUp
  StopsWhenAsked
