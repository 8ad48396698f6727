\* The documented effect of run_with_registration.
CONSTANTS
  c1 = c1
  c2 = c2
  Up = Up
  Down = Down
  None = None
  Injected = Injected
  Conns = {c1, c2}
  Kinds = {"authorizer", "pool"}
SPECIFICATION Spec
INVARIANT ListedWhileServing
CHECK_DEADLOCK FALSE
