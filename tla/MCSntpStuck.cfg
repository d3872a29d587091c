SPECIFICATION Spec
CONSTANTS
  Kinds = {"answer"}
  Addrs = {"a", "b"}
  MaxTimeouts = 3
  MaxDns = 2
INVARIANTS
  NeverStuck
CHECK_DEADLOCK FALSE
