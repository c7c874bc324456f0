\* The loop over a chain of aliases never ends.
CONSTANTS
  URLs = {a, b, c}
  Blank = Blank
  NoURL = NoURL
  MaxMoves = 3
  MaxBegun = 1
SPECIFICATION HealingSpec
CHECK_DEADLOCK FALSE
INVARIANT AliasChainsEnd
