CONSTANTS
  scene = scene
  model = model
  texture = texture
  Resource = {scene, model, texture}
  None = None
  Needs <- Scene
  Depth = 2
  MaxFibers = 3
SPECIFICATION Spec
CHECK_DEADLOCK FALSE
INVARIANTS
  TypeOK
  InFlightOnce
  FlagTracksLoad
PROPERTIES
  AnswerIsThere
  EscapeIsFinal
  EveryLoadEnds
  CallsSpec
