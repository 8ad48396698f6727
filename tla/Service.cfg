\* Two connections, with and without the background registration.
CONSTANTS
  c1 = c1
  c2 = c2
  Up = Up
  Down = Down
  None = None
  Injected = Injected
  Conns = {c1, c2}
  Kinds = {"authorizer", "pool"}
SPECIFICATION FairSpec
INVARIANT FieldsOpen
INVARIANT AloneIsSafe
PROPERTY ServesAndExits
CHECK_DEADLOCK FALSE
