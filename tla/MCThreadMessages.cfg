SPECIFICATION FairSpec
CONSTANTS
  Main = Main
  GL = GL
  New = New
  w1 = w1
  w2 = w2
  w3 = w3
  ready = ready
  self = self
  answer = answer
  sound = sound
  load = load
  inplace = inplace
  request = request
  late = late
  Other = {w1, w2, w3}
  Call = {ready, self, answer, sound, load, inplace, request, late}
  SyncCall <- Sync
  Target <- Targets
  Parent <- Parents
  Throws = {ready, sound, inplace, answer}
  Pumper = {GL, w1}
  PipeSize = 2
INVARIANTS
  Handshake
  EventsExact
PROPERTIES
  Refines
  LossContained
CHECK_DEADLOCK FALSE
