\* Two clients on two routes; the clock passes the end of the first window.
SPECIFICATION Spec
CONSTANTS
  Clients = {c1, c2}
  login = login
  register = register
  Scopes <- MCScopes
  ScopeLimit <- MCScopeLimit
  Window = 2
  MaxClock = 3
  MaxRestarts = 1
INVARIANT
  NoWindowExceedsLimit
PROPERTY
  ImplementsSlidingWindow
