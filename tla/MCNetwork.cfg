SPECIFICATION FairNetSpec
CONSTANTS
  Kinds = {"answer", "kod", "short"}
  Addrs = {"a"}
  MaxTimeouts = 2
  MaxDns = 2
  Leases = {"x"}
  MaxTries = 6
INVARIANTS
  NeverStuck
  OneAtATime
  AddrIsLeased
  NeverIdle
  SuppliedHasAddr
PROPERTIES
  KeepsTrying
  DhcpSettles
