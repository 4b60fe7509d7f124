SPECIFICATION Spec
CONSTANTS
  Progs = {p1, p2}
  Unknown = unknown
  Reqs = {r1, r2, r3}
  Inputs <- SoundInputs
  Listeners = {srv}
  MayStop = TRUE
  Cap = 1
  None = None
SYMMETRY Symmetry
INVARIANTS TypeOK InitializedHasOwner HandleOwnership  RunningHasTask
CHECK_DEADLOCK FALSE
