\* In each part two recordings with a dump and a load between them and a replay, or a
\* recording and two replays: ReplayClock with two stack traces and a tolerance of one
\* millisecond of two ticks, ReplayData with each call made up to twice, SelfHealing with
\* moves for a redirect and a change of the URL after it, and for a page that is lost in
\* two replays.
CONSTANTS
  Traces = {t1, t2}
  Randoms = {1, 2}
  PerMilli = 2
  Tolerance = 2
  Pages <- SmallPages
  MaxStarts = 3
  MaxTime = 4
  Calls <- SomeCalls
  Policy <- PolicyOf
  CallSets <- SomeCallSets
  Answers = {1, 2}
  Outputs = {0, 1}
  Untouched = 0
  MaxAsks = 2
  MaxSessions = 3
  URLs = {a, b, c}
  Blank = Blank
  NoURL = NoURL
  MaxMoves = 4
  MaxBegun = 3
SPECIFICATION PartsSpec
CHECK_DEADLOCK FALSE
SYMMETRY TracesAndPagesAreAlike
INVARIANTS
  ReplayIsExact
  DumpIsTheRecording
  ReadsAreFaithful
  AbortsOnlyOnExcess
  HealingIsSound
PROPERTIES
  DatesNeverStale
  BlinkClockMonotone
