SPECIFICATION ErasureSpec
CONSTANTS
  Record <- Records
  Caller = "mine"
  LinkageKey = {"u"}
  From = {2}
  Until = {1}
INVARIANT FaultFreeCompletes
CHECK_DEADLOCK FALSE
