CONSTANTS
  h1 = h1
  h2 = h2
  Handlers = {h1, h2}
  Preemptive = TRUE
  SendFails = TRUE
SPECIFICATION Spec
INVARIANT NoCircularWait
SYMMETRY HandlerSymmetry
