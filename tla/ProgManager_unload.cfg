SPECIFICATION CommandsSpec
CONSTANTS
  Progs = {p1}
  Unknown = unknown
  Reqs = {r1, r2, r3}
  Inputs <- SoundInputs
  Listeners = {srv}
  MayStop = FALSE
  Cap = 2
  None = None
PROPERTIES UnloadedStaysUnloaded
CHECK_DEADLOCK FALSE
