SPECIFICATION Spec
CONSTANTS
  MaxConn = 1
  MaxPresence = 3
INVARIANT
  QuietShowsPublished
