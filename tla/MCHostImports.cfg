CONSTANTS
  MaxDesc = 3
  Imports = {"std", "env", "net", "canvas", "js", "webview"}
SPECIFICATION Spec
INVARIANTS HeldAreLive ArgumentsFreed ContextsAreOwned
PROPERTIES KeepsItsKind
CHECK_DEADLOCK FALSE
