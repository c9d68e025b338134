SPECIFICATION MCSpec
CONSTANTS
  Caller = {gui}
  Background = {a1, a2}
  Version = {1}
  Applier = {p1, p2}
  Edits <- MCEdits
  Setting = {s1, s2}
  MaxClicks = 3
  Source = {paused}
  Phase = {"in-client", "in-match"}
  MaxEvents = 2
  Body <- MCBody
  Asked <- MCAsked
  Writer = {w1, w2}
  Text = {x, y}
  RingSize = 2
  Buffer = 1
  MAX_TAIL_LINES = 2
  MaxLines = 3
INVARIANTS
  TailIsWhole
  OneStory
  RestartKeepsSettings
  EntryFollowsSetting
  PageSettles
  CardIsOfOneRefresh
  PageIsAtLastEmitted
PROPERTIES
  StagedStays
  StagedInTheEnd
  StatusCatchesUp
