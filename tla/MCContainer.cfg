CONSTANTS
  Identities = {x1}
  Callbacks = {f1}
  MaxModules = 4
  Objects = {"service", "store", "logger"}
  Fresh = {"service"}
  Parts <- MCParts
  MaxAttempts = 2
SPECIFICATION MCSpec
INVARIANTS ScopeTypeOK ConstructedOnce InjectedReady HooksAround
PROPERTIES ImmutableKept ConstructionsEnd
CHECK_DEADLOCK FALSE
