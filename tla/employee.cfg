\* Three presses with a repeat each.
SPECIFICATION Spec
CONSTANTS
  None = None  Asked = Asked  Loading = Loading  Error = Error  Failed = Failed
  MaxRetries = 1
  MaxPresses = 3
INVARIANTS TypeOK HomeKnows
PROPERTIES OlderOnlyUnawaited LocksEnd
CHECK_DEADLOCK FALSE
