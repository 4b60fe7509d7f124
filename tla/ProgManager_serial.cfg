SPECIFICATION SerialSpec
CONSTANTS
  Progs = {p1}
  Unknown = unknown
  Reqs = {r1, r2, r3, r4}
  Inputs <- AllInputs
  Listeners = {srv}
  MayStop = FALSE
  Cap = 2
  None = None
SYMMETRY Symmetry
INVARIANTS OneInstance UninitializedHasNoTask
PROPERTIES ImplementsLifecycle
CHECK_DEADLOCK FALSE
