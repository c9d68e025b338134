SPECIFICATION Spec
CONSTANTS
  Caller = {gui}
  Background = {a1, a2}
  Version = {1}
INVARIANTS
  DownloadingWhileInFlight
