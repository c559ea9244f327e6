CONSTANTS
  Shards = {"s1", "s2"}
  Control = "s1"
  Modes = {"increment", "rotate", "single"}
  rotate = 2
  auto_split = 0
  MaxArrivals = 3
  MaxMishaps = 1
SPECIFICATION Spec
INVARIANTS CycleOnce LogOrder BarrierEndsFile CompletionTrue
PROPERTIES StopsWhenAsked RequestAnswered
CHECK_DEADLOCK FALSE
