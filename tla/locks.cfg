CONSTANTS
  h1 = h1
  h2 = h2
  Handlers = {h1}
  Preemptive = TRUE
  SendFails = FALSE
SPECIFICATION Spec
 
INVARIANT NoCircularWait
