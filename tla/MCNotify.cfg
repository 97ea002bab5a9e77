CONSTANTS
  p1 = p1
  p2 = p2
  w1 = w1
  w2 = w2
  w3 = w3
  Players = {p1}
  Requests = {w1, w2, w3}
  Device <- MCSameDevice
  RaceOutcomes = {"appended", "lost"}
  Nobody = Nobody
SPECIFICATION FairSpec
INVARIANTS CallbacksAlive NoLostWakeUp
PROPERTIES PollAnswered
